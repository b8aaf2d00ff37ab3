----------------------------- MODULE HeapProofs -----------------------------
(***************************************************************************)
(* For every size of the heap, of a word and of size_t, every number of    *)
(* colours and every set of requests: malloc and free keep the blocks laid *)
(* end to end and the free list exact; and, as long as no request with its *)
(* header exceeds size_t, they keep every block as large as asked for and  *)
(* every tag with its owner, and serve the smallest block that is large    *)
(* enough.                                                                 *)
(***************************************************************************)
EXTENDS Heap, ProofBase

-----------------------------------------------------------------------------
(***************************************************************************)
(* Sums of sizes. FoldSet takes the elements of a set in the order CHOOSE  *)
(* gives them; that the sum depends on the set alone is proved by the      *)
(* smallest subset for which it would not.                                 *)
(***************************************************************************)
Sum(sz, S) == FoldSet(LAMBDA b, sum : sum + sz[b], 0, S)

SomeOf(s) == CHOOSE x \in s : TRUE

OneMore(total, sz, s) ==
    IF s = {} THEN 0 ELSE total[s \ {SomeOf(s)}] + sz[SomeOf(s)]

Totals(sz, S) ==
    CHOOSE total : total = [s \in SUBSET S |-> OneMore(total, sz, s)]

(***************************************************************************)
(* The sum over a set, which the community modules count one element at a  *)
(* time, is the value at the set of the function Totals.                   *)
(***************************************************************************)
LEMMA SumIsTotal == \A sz, S : Sum(sz, S) = Totals(sz, S)[S]
  BY DEF Sum, FoldSet, MapThenFoldSet, Totals, OneMore, SomeOf

(***************************************************************************)
(* There is a function that counts every subset of a finite set as the sum *)
(* counts it, so that Totals is one: otherwise there would be a least      *)
(* number such that none counts the subsets of up to that many elements.   *)
(***************************************************************************)
LEMMA TotalsExist ==
    ASSUME NEW sz, NEW S, IsFiniteSet(S)
    PROVE  \A s \in SUBSET S : Totals(sz, S)[s] = OneMore(Totals(sz, S), sz, s)
<1> DEFINE Upto(k) == {s \in SUBSET S : Cardinality(s) <= k}
           IsUpto(total, k) == total = [s \in Upto(k) |-> OneMore(total, sz, s)]
           Bad == {k \in Nat : \A total : ~IsUpto(total, k)}
<1>1. \A s \in SUBSET S : IsFiniteSet(s) /\ Cardinality(s) \in Nat
  BY FS_Subset, FS_CardinalityType
<1>2. \A s \in SUBSET S : s # {} =>
          /\ SomeOf(s) \in s /\ s \ {SomeOf(s)} \in SUBSET S
          /\ Cardinality(s \ {SomeOf(s)}) = Cardinality(s) - 1
          /\ Cardinality(s) >= 1
  <2> SUFFICES ASSUME NEW s \in SUBSET S, s # {}
               PROVE  /\ SomeOf(s) \in s /\ s \ {SomeOf(s)} \in SUBSET S
                      /\ Cardinality(s \ {SomeOf(s)}) = Cardinality(s) - 1
                      /\ Cardinality(s) >= 1
    OBVIOUS
  <2>1. SomeOf(s) \in s
    BY DEF SomeOf
  <2>2. Cardinality(s \ {SomeOf(s)}) = Cardinality(s) - 1
    BY <1>1, <2>1, FS_RemoveElement
  <2>3. Cardinality(s) # 0
    BY <1>1, FS_EmptySet
  <2> QED
    BY <1>1, <2>1, <2>2, <2>3
<1>3. Bad = {}
  <2> SUFFICES ASSUME Bad # {} PROVE FALSE
    OBVIOUS
  <2>1. PICK k \in Bad : \A m \in Bad : k <= m
    BY LeastNatural
  <2>2. CASE k = 0
    <3> DEFINE first == [s \in Upto(0) |-> 0]
    <3>1. \A s \in Upto(0) : s = {}
      <4> SUFFICES ASSUME NEW s \in Upto(0), s # {} PROVE FALSE
        OBVIOUS
      <4>1. Cardinality(s) <= 0
        OBVIOUS
      <4>2. Cardinality(s) >= 1
        BY <1>2
      <4>3. Cardinality(s) \in Nat
        BY <1>1
      <4> QED
        BY <4>1, <4>2, <4>3
    <3>2. IsUpto(first, 0)
      BY <3>1 DEF OneMore
    <3> QED
      BY <2>1, <2>2, <3>2
  <2>3. CASE k # 0
    <3>1. k - 1 \in Nat /\ k - 1 \notin Bad
      BY <2>1, <2>3
    <3>2. PICK less : IsUpto(less, k - 1)
      BY <3>1
    <3> DEFINE next == [s \in Upto(k) |-> OneMore(less, sz, s)]
    <3>3. \A s \in Upto(k - 1) : s \in Upto(k) /\ next[s] = less[s]
      BY <1>1, <3>1, <3>2
    <3>4. ASSUME NEW s \in Upto(k)
          PROVE  OneMore(less, sz, s) = OneMore(next, sz, s)
      <4>1. CASE s = {}
        BY <4>1 DEF OneMore
      <4>2. CASE s # {}
        <5>1. s \ {SomeOf(s)} \in Upto(k - 1)
          BY <1>1, <1>2, <4>2
        <5> QED
          BY <3>3, <4>2, <5>1 DEF OneMore
      <4> QED
        BY <4>1, <4>2
    <3>5. IsUpto(next, k)
      BY <3>4
    <3> QED
      BY <2>1, <3>5
  <2> QED
    BY <2>2, <2>3
<1>4. PICK total : IsUpto(total, Cardinality(S))
  BY <1>1, <1>3
<1>5. Upto(Cardinality(S)) = SUBSET S
  BY FS_Subset
<1>6. total = [s \in SUBSET S |-> OneMore(total, sz, s)]
  BY <1>4, <1>5
<1>7. Totals(sz, S) = [s \in SUBSET S |-> OneMore(Totals(sz, S), sz, s)]
  BY <1>6 DEF Totals
<1> QED
  BY <1>7

(***************************************************************************)
(* A total grows by any of its elements, whichever is counted first; it    *)
(* only depends on the sizes counted.                                      *)
(***************************************************************************)
LEMMA TotalOfOneLess ==
    ASSUME NEW sz, NEW S, IsFiniteSet(S), \A x \in S : sz[x] \in Nat
    PROVE  \A s \in SUBSET S :
              /\ Totals(sz, S)[s] \in Nat
              /\ \A x \in s : Totals(sz, S)[s] = Totals(sz, S)[s \ {x}] + sz[x]
<1> DEFINE t == Totals(sz, S)
           Right(s) == /\ t[s] \in Nat
                       /\ \A x \in s : t[s] = t[s \ {x}] + sz[x]
           Bad == {s \in SUBSET S : ~Right(s)}
<1> SUFFICES ASSUME Bad # {} PROVE FALSE
  OBVIOUS
<1>1. PICK s \in Bad : \A r \in SUBSET s : r # s => r \notin Bad
  <2> Bad \in SUBSET SUBSET S
    OBVIOUS
  <2> HIDE DEF Bad
  <2> QED
    BY SmallestSubset
<1>2. \A r \in SUBSET S : t[r] = OneMore(t, sz, r)
  BY TotalsExist
<1> HIDE DEF t
<1>3. \A r \in SUBSET s : r # s => Right(r)
  BY <1>1
<1>4. s # {}
  <2> SUFFICES ASSUME s = {} PROVE Right(s)
    BY <1>1
  <2>1. t[s] = 0
    BY <1>1, <1>2 DEF OneMore
  <2> QED
    BY <2>1
<1> DEFINE c == SomeOf(s)
<1>5. c \in s /\ c \in S /\ t[s] = t[s \ {c}] + sz[c]
  BY <1>1, <1>2, <1>4 DEF OneMore, SomeOf
<1> HIDE DEF c
<1>6. t[s] \in Nat
  BY <1>3, <1>5
<1>7. ASSUME NEW x \in s PROVE t[s] = t[s \ {x}] + sz[x]
  <2>1. CASE x = c
    BY <1>5, <2>1
  <2>2. CASE x # c
    <3>1. (s \ {c}) \ {x} = (s \ {x}) \ {c}
      OBVIOUS
    <3>2. t[s \ {c}] = t[(s \ {c}) \ {x}] + sz[x]
      BY <1>3, <1>5, <2>2
    <3>3. t[s \ {x}] = t[(s \ {c}) \ {x}] + sz[c]
      BY <1>3, <1>5, <2>2, <3>1
    <3>4. /\ t[(s \ {c}) \ {x}] \in Nat /\ t[s \ {x}] \in Nat
          /\ t[s \ {c}] \in Nat
      BY <1>3, <1>5
    <3>5. sz[c] \in Nat /\ sz[x] \in Nat
      BY <1>1, <1>5
    <3>6. t[s] = t[s \ {c}] + sz[c]
      BY <1>5
    <3> QED
      BY <3>2, <3>3, <3>4, <3>5, <3>6
  <2> QED
    BY <2>1, <2>2
<1> QED
  BY <1>1, <1>6, <1>7

(***************************************************************************)
(* A total depends on the sizes that are counted, not on the set it is a   *)
(* part of.                                                                *)
(***************************************************************************)
LEMMA TotalsAgree ==
    ASSUME NEW sz, NEW S, IsFiniteSet(S), NEW sz2, NEW S2, IsFiniteSet(S2),
           NEW T \in SUBSET (S \cap S2), \A x \in T : sz[x] = sz2[x]
    PROVE  Totals(sz, S)[T] = Totals(sz2, S2)[T]
<1> DEFINE t == Totals(sz, S)
           t2 == Totals(sz2, S2)
           Bad == {s \in SUBSET T : t[s] # t2[s]}
<1> SUFFICES ASSUME Bad # {} PROVE FALSE
  OBVIOUS
<1>1. IsFiniteSet(T) /\ T \in SUBSET S /\ T \in SUBSET S2
  BY FS_Subset
<1>2. PICK s \in Bad : \A r \in SUBSET s : r # s => r \notin Bad
  <2> Bad \in SUBSET SUBSET T
    OBVIOUS
  <2> HIDE DEF Bad
  <2> QED
    BY <1>1, SmallestSubset
<1>3. t[s] = OneMore(t, sz, s) /\ t2[s] = OneMore(t2, sz2, s)
  BY <1>1, TotalsExist
<1> HIDE DEF t, t2
<1>4. CASE s = {}
  BY <1>2, <1>3, <1>4 DEF OneMore
<1>5. CASE s # {}
  <2> DEFINE c == SomeOf(s)
  <2>1. c \in s
    BY <1>5 DEF SomeOf
  <2>2. t[s] = t[s \ {c}] + sz[c] /\ t2[s] = t2[s \ {c}] + sz2[c]
    BY <1>3, <1>5 DEF OneMore
  <2> HIDE DEF c
  <2>3. t[s \ {c}] = t2[s \ {c}] /\ sz[c] = sz2[c]
    BY <1>2, <2>1
  <2> QED
    BY <1>2, <2>2, <2>3
<1> QED
  BY <1>4, <1>5

(***************************************************************************)
(* The sum over no block is 0.                                             *)
(***************************************************************************)
LEMMA SumOfNone == ASSUME NEW sz PROVE Sum(sz, {}) = 0
<1>1. Totals(sz, {})[{}] = OneMore(Totals(sz, {}), sz, {})
  BY TotalsExist, FS_EmptySet
<1> QED
  BY <1>1, SumIsTotal DEF OneMore

(***************************************************************************)
(* A sum of sizes is a natural number.                                     *)
(***************************************************************************)
LEMMA SumIsNat ==
    ASSUME NEW sz, NEW S, IsFiniteSet(S), \A x \in S : sz[x] \in Nat
    PROVE  Sum(sz, S) \in Nat
<1>1. Totals(sz, S)[S] \in Nat
  BY TotalOfOneLess
<1> QED
  BY <1>1, SumIsTotal

(***************************************************************************)
(* A set with one more block has a sum that is larger by its size.         *)
(***************************************************************************)
LEMMA SumOfOneMore ==
    ASSUME NEW sz, NEW S, IsFiniteSet(S), NEW b, b \notin S,
           \A x \in S \cup {b} : sz[x] \in Nat
    PROVE  Sum(sz, S \cup {b}) = Sum(sz, S) + sz[b]
<1> DEFINE R == S \cup {b}
<1>1. IsFiniteSet(R) /\ R \ {b} = S /\ S \in SUBSET (S \cap R)
  BY FS_AddElement
<1> HIDE DEF R
<1>2. b \in R /\ \A x \in R : sz[x] \in Nat
  BY DEF R
<1>3. Totals(sz, R)[R] = Totals(sz, R)[R \ {b}] + sz[b]
  BY <1>1, <1>2, TotalOfOneLess
<1>4. Totals(sz, S)[S] = Totals(sz, R)[S]
  BY <1>1, TotalsAgree
<1>5. Sum(sz, R) = Sum(sz, S) + sz[b]
  BY <1>1, <1>3, <1>4, SumIsTotal
<1> QED
  BY <1>5 DEF R

(***************************************************************************)
(* Blocks whose sizes did not change have the same sum.                    *)
(***************************************************************************)
LEMMA SumOfSame ==
    ASSUME NEW sz, NEW sz2, NEW S, IsFiniteSet(S),
           \A x \in S : sz[x] = sz2[x]
    PROVE  Sum(sz, S) = Sum(sz2, S)
<1>1. Totals(sz, S)[S] = Totals(sz2, S)[S]
  BY TotalsAgree
<1> QED
  BY <1>1, SumIsTotal

-----------------------------------------------------------------------------
(***************************************************************************)
(* The elements of two sequences, one after the other.                     *)
(***************************************************************************)
LEMMA Joined ==
    ASSUME NEW S, NEW p \in Seq(S), NEW q \in Seq(S), NEW r, r = p \o q
    PROVE  /\ r \in Seq(S) /\ Len(r) = Len(p) + Len(q)
           /\ \A j \in 1..Len(p) : r[j] = p[j]
           /\ \A j \in (Len(p) + 1)..(Len(p) + Len(q)) : r[j] = q[j - Len(p)]
  OBVIOUS

\* A sequence with one more element at place i.
IsInserted(S, list, i, e, more) ==
    /\ more \in Seq(S) /\ Len(more) = Len(list) + 1
    /\ more[i] = e
    /\ \A j \in 1..(i - 1) : more[j] = list[j]
    /\ \A j \in (i + 1)..(Len(list) + 1) : more[j] = list[j - 1]

(***************************************************************************)
(* What InsertAt leaves before and after the new element.                  *)
(***************************************************************************)
LEMMA Inserted ==
    ASSUME NEW S, NEW list \in Seq(S), NEW e \in S,
           NEW i \in 1..(Len(list) + 1), NEW more, more = InsertAt(list, i, e)
    PROVE  IsInserted(S, list, i, e, more)
<1> DEFINE front == SubSeq(list, 1, i - 1)
           back == SubSeq(list, i, Len(list))
<1>1. /\ front \in Seq(S) /\ Len(front) = i - 1
      /\ \A j \in 1..(i - 1) : front[j] = list[j]
  OBVIOUS
<1>2. /\ back \in Seq(S) /\ Len(back) = Len(list) - i + 1
      /\ \A j \in 1..(Len(list) - i + 1) : back[j] = list[i + j - 1]
  OBVIOUS
<1>3. more = front \o <<e>> \o back
  BY DEF InsertAt
<1> HIDE DEF front, back
<1> DEFINE most == front \o <<e>>
<1>4. /\ most \in Seq(S) /\ Len(most) = i
      /\ \A j \in 1..(i - 1) : most[j] = list[j]
      /\ most[i] = e
  <2>1. <<e>> \in Seq(S) /\ Len(<<e>>) = 1 /\ <<e>>[1] = e
    OBVIOUS
  <2> QED
    BY <1>1, <2>1, Joined
<1> HIDE DEF most
<1>5. more = most \o back
  BY <1>3 DEF most
<1>6. /\ more \in Seq(S) /\ Len(more) = Len(most) + Len(back)
      /\ \A j \in 1..Len(most) : more[j] = most[j]
      /\ \A j \in (Len(most) + 1)..(Len(most) + Len(back)) :
            more[j] = back[j - Len(most)]
  BY <1>2, <1>4, <1>5, Joined
<1>7. ASSUME NEW j \in (i + 1)..(Len(list) + 1) PROVE more[j] = list[j - 1]
  <2>1. more[j] = back[j - i] /\ j - i \in 1..(Len(list) - i + 1)
    BY <1>2, <1>4, <1>6
  <2> QED
    BY <1>2, <2>1
<1> QED
  BY <1>2, <1>4, <1>6, <1>7 DEF IsInserted

(***************************************************************************)
(* What RemoveAt leaves before and after the element taken out.            *)
(***************************************************************************)
LEMMA Removed ==
    ASSUME NEW S, NEW list \in Seq(S), NEW i \in 1..Len(list),
           NEW less, less = RemoveAt(list, i)
    PROVE  /\ less \in Seq(S) /\ Len(less) = Len(list) - 1
           /\ \A j \in 1..(i - 1) : less[j] = list[j]
           /\ \A j \in i..(Len(list) - 1) : less[j] = list[j + 1]
<1> DEFINE front == SubSeq(list, 1, i - 1)
           back == SubSeq(list, i + 1, Len(list))
<1>1. /\ front \in Seq(S) /\ Len(front) = i - 1
      /\ \A j \in 1..(i - 1) : front[j] = list[j]
  OBVIOUS
<1>2. /\ back \in Seq(S) /\ Len(back) = Len(list) - i
      /\ \A j \in 1..(Len(list) - i) : back[j] = list[i + j]
  OBVIOUS
<1>3. less = front \o back
  BY DEF RemoveAt
<1> HIDE DEF front, back
<1>4. /\ less \in Seq(S) /\ Len(less) = Len(front) + Len(back)
      /\ \A j \in 1..Len(front) : less[j] = front[j]
      /\ \A j \in (Len(front) + 1)..(Len(front) + Len(back)) :
            less[j] = back[j - Len(front)]
  <2>1. front \in Seq(S) /\ back \in Seq(S)
    BY <1>1, <1>2
  <2> QED
    BY <1>3, <2>1, Joined
<1>5. ASSUME NEW j \in i..(Len(list) - 1) PROVE less[j] = list[j + 1]
  <2>1. less[j] = back[j - (i - 1)] /\ j - (i - 1) \in 1..(Len(list) - i)
    BY <1>1, <1>2, <1>4
  <2> QED
    BY <1>2, <2>1
<1> QED
  BY <1>1, <1>2, <1>4, <1>5

(***************************************************************************)
(* The searches of the list (malloc.c:221, 74) stop at the first block     *)
(* that is not smaller than the size, and at the end of the list only if   *)
(* all are smaller.                                                        *)
(***************************************************************************)
LEMMA FoundFirst ==
    ASSUME NEW list \in Seq(Addresses),
           NEW sizes \in [Addresses -> 0..HeapSize],
           NEW s \in Int, NEW i, i = FirstAtLeast(list, sizes, s)
    PROVE  /\ i \in 0..Len(list)
           /\ i # 0 => sizes[list[i]] >= s /\ \A j \in 1..(i - 1) : sizes[list[j]] < s
           /\ i = 0 => \A j \in 1..Len(list) : sizes[list[j]] < s
<1> DEFINE I == {j \in 1..Len(list) : sizes[list[j]] >= s}
<1>1. i = IF I # {} THEN Min(I) ELSE 0
  BY DEF FirstAtLeast, SelectInSeq
<1>2. I \in SUBSET Nat /\ \A j \in 1..Len(list) : sizes[list[j]] \in Nat
  OBVIOUS
<1>3. CASE I = {}
  BY <1>1, <1>2, <1>3
<1>4. CASE I # {}
  <2>1. i \in I /\ \A j \in I : i <= j
    <3>1. PICK n \in I : \A m \in I : n <= m
      BY <1>2, <1>4, LeastNatural
    <3> QED
      BY <1>1, <1>4, <3>1 DEF Min
  <2>2. \A j \in 1..(i - 1) : j \in 1..Len(list) /\ j \notin I
    BY <2>1
  <2>3. i \in 1..Len(list) /\ sizes[list[i]] >= s
    BY <2>1
  <2>4. \A j \in 1..(i - 1) : ~(sizes[list[j]] >= s)
    BY <2>2
  <2> HIDE DEF I
  <2>5. \A j \in 1..(i - 1) : sizes[list[j]] < s
    BY <1>2, <2>2, <2>4
  <2> QED
    BY <2>3, <2>5
<1> QED
  BY <1>3, <1>4

-----------------------------------------------------------------------------
(***************************************************************************)
(* What malloc.c keeps true of its heap, of a list of free blocks, their   *)
(* sizes, the blocks in use and the bytes left. The bytes of the blocks in *)
(* use are counted too: what is free and what is in use make up the heap,  *)
(* which is why xFreeBytesRemaining cannot leave its range.                *)
(***************************************************************************)
Tiled(blocks, sz) ==
    /\ 0 \in blocks
    /\ \A b \in blocks :
          /\ sz[b] > 0
          /\ b + sz[b] \in blocks \cup {HeapSize}
          /\ \A c \in blocks : b < c => b + sz[b] <= c

Ordered(list, sz) ==
    \A i, j \in 1..Len(list) :
        i < j => list[i] # list[j] /\ sz[list[i]] <= sz[list[j]]

Sound(list, sz, used, left) ==
    /\ list \in Seq(Addresses) /\ sz \in [Addresses -> 0..HeapSize]
    /\ used \subseteq Addresses /\ ToSet(list) \cap used = {}
    /\ Ordered(list, sz) /\ Tiled(ToSet(list) \cup used, sz)
    /\ left = Sum(sz, ToSet(list)) /\ left + Sum(sz, used) = HeapSize

(***************************************************************************)
(* The blocks of the list are its elements.                                *)
(***************************************************************************)
LEMMA Listed ==
    ASSUME NEW list \in Seq(Addresses)
    PROVE  /\ ToSet(list) \subseteq Addresses
           /\ \A j \in 1..Len(list) : list[j] \in ToSet(list)
           /\ \A b \in ToSet(list) : \E j \in 1..Len(list) : b = list[j]
  BY DEF ToSet

(***************************************************************************)
(* Taking a block out of an ordered list (malloc.c:236) leaves an ordered  *)
(* list of the others.                                                     *)
(***************************************************************************)
LEMMA ListedLess ==
    ASSUME NEW list \in Seq(Addresses), NEW sz, Ordered(list, sz),
           NEW i \in 1..Len(list), NEW less, less = RemoveAt(list, i)
    PROVE  /\ less \in Seq(Addresses) /\ Ordered(less, sz)
           /\ ToSet(less) = ToSet(list) \ {list[i]}
<1>1. /\ less \in Seq(Addresses) /\ Len(less) = Len(list) - 1
      /\ \A j \in 1..(i - 1) : less[j] = list[j]
      /\ \A j \in i..(Len(list) - 1) : less[j] = list[j + 1]
  BY Removed
<1> DEFINE old(j) == IF j < i THEN j ELSE j + 1
<1>2. \A j \in 1..Len(less) : /\ old(j) \in 1..Len(list) /\ old(j) # i
                              /\ less[j] = list[old(j)]
  BY <1>1
<1>3. ASSUME NEW j \in 1..Len(less), NEW k \in 1..Len(less), j < k
      PROVE  less[j] # less[k] /\ sz[less[j]] <= sz[less[k]]
  <2>1. old(j) < old(k)
    BY <1>3
  <2> QED
    BY <1>2, <2>1 DEF Ordered
<1>4. Ordered(less, sz)
  BY <1>3 DEF Ordered
<1>5. \A j \in 1..Len(less) : less[j] \in ToSet(list) \ {list[i]}
  <2> SUFFICES ASSUME NEW j \in 1..Len(less)
               PROVE  less[j] \in ToSet(list) \ {list[i]}
    OBVIOUS
  <2>1. old(j) \in 1..Len(list) /\ old(j) # i /\ less[j] = list[old(j)]
    BY <1>2
  <2>2. old(j) < i \/ i < old(j)
    BY <2>1
  <2>3. list[old(j)] # list[i]
    BY <2>1, <2>2 DEF Ordered
  <2> QED
    BY <2>1, <2>3, Listed
<1>6. ASSUME NEW b \in ToSet(list), b # list[i] PROVE b \in ToSet(less)
  <2>1. PICK k \in 1..Len(list) : b = list[k]
    BY Listed
  <2>2. k # i
    BY <1>6, <2>1
  <2>3. CASE k < i
    BY <1>1, <2>1, <2>3, Listed
  <2>4. CASE k > i
    <3>1. k - 1 \in i..(Len(list) - 1) /\ k - 1 \in 1..Len(less)
      BY <1>1, <2>4
    <3>2. less[k - 1] = b
      BY <1>1, <2>1, <3>1
    <3> QED
      BY <1>1, <3>1, <3>2, Listed
  <2> QED
    BY <2>2, <2>3, <2>4
<1>7. ToSet(less) = ToSet(list) \ {list[i]}
  BY <1>1, <1>5, <1>6, Listed
<1> QED
  BY <1>1, <1>4, <1>7

(***************************************************************************)
(* prvInsertBlockIntoFreeList keeps the list ordered and adds just the     *)
(* block.                                                                  *)
(***************************************************************************)
LEMMA ListedMore ==
    ASSUME NEW list \in Seq(Addresses), NEW sz \in [Addresses -> 0..HeapSize],
           Ordered(list, sz), NEW e \in Addresses, e \notin ToSet(list),
           NEW more, more = InsertFree(list, sz, e)
    PROVE  /\ more \in Seq(Addresses) /\ Ordered(more, sz)
           /\ ToSet(more) = ToSet(list) \cup {e}
<1> DEFINE f == FirstAtLeast(list, sz, sz[e])
           i == IF f = 0 THEN Len(list) + 1 ELSE f
<1>1. /\ f \in 0..Len(list)
      /\ f # 0 => sz[list[f]] >= sz[e] /\ \A j \in 1..(f - 1) : sz[list[j]] < sz[e]
      /\ f = 0 => \A j \in 1..Len(list) : sz[list[j]] < sz[e]
  <2>1. sz[e] \in Int
    OBVIOUS
  <2> HIDE DEF i
  <2>2. f = FirstAtLeast(list, sz, sz[e])
    OBVIOUS
  <2> HIDE DEF f
  <2> QED
    BY <2>1, <2>2, FoundFirst
<1>2. i \in 1..(Len(list) + 1) /\ more = InsertAt(list, i, e)
  <2>1. Len(list) \in Nat
    OBVIOUS
  <2> QED
    BY <1>1, <2>1 DEF InsertFree
<1>3. \A j \in 1..Len(list) : list[j] \in Addresses /\ list[j] # e
  BY Listed
<1>4. \A j \in 1..Len(list) : sz[list[j]] \in Int
  BY <1>3
<1>5. /\ \A j \in 1..(i - 1) : sz[list[j]] <= sz[e]
      /\ \A j \in i..Len(list) : sz[list[j]] >= sz[e]
  <2>1. CASE f = 0
    BY <1>1, <1>4, <2>1
  <2>2. CASE f # 0
    <3>1. ASSUME NEW j \in f..Len(list) PROVE sz[list[j]] >= sz[e]
      <4>1. sz[list[f]] <= sz[list[j]]
        BY <1>1, <1>4, <2>2 DEF Ordered
      <4>2. sz[list[f]] >= sz[e] /\ j \in 1..Len(list)
        BY <1>1, <2>2
      <4> QED
        BY <1>1, <1>4, <2>2, <4>1, <4>2
    <3> QED
      BY <1>1, <1>4, <2>2, <3>1
  <2> QED
    BY <2>1, <2>2
<1> HIDE DEF f, i
<1>6. /\ more \in Seq(Addresses) /\ Len(more) = Len(list) + 1
      /\ more[i] = e
      /\ \A j \in 1..(i - 1) : more[j] = list[j]
      /\ \A j \in (i + 1)..(Len(list) + 1) : more[j] = list[j - 1]
  <2> HIDE DEF Ordered
  <2>1. list \in Seq(Addresses) /\ e \in Addresses
    OBVIOUS
  <2>2. \A l \in Seq(Addresses), x \in Addresses : \A k \in 1..(Len(l) + 1) :
            IsInserted(Addresses, l, k, x, InsertAt(l, k, x))
    BY Inserted
  <2>3. IsInserted(Addresses, list, i, e, InsertAt(list, i, e))
    BY <1>2, <2>1, <2>2
  <2> QED
    BY <1>2, <2>3 DEF IsInserted
<1> DEFINE old(j) == IF j < i THEN j ELSE j - 1
<1>12. ASSUME NEW j \in 1..Len(more), j # i
       PROVE  old(j) \in 1..Len(list) /\ more[j] = list[old(j)]
  <2>1. CASE j < i
    BY <1>2, <1>6, <2>1
  <2>2. CASE j > i
    <3>1. j \in (i + 1)..(Len(list) + 1)
      BY <1>2, <1>6, <2>2
    <3> QED
      BY <1>2, <1>6, <2>2, <3>1
  <2> QED
    BY <1>2, <1>12, <2>1, <2>2
<1>7. ASSUME NEW j \in 1..Len(more), NEW k \in 1..Len(more), j < k
      PROVE  more[j] # more[k] /\ sz[more[j]] <= sz[more[k]]
  <2>1. CASE k = i
    <3>1. old(j) \in 1..(i - 1) /\ more[j] = list[old(j)] /\ more[k] = e
      BY <1>2, <1>6, <1>7, <1>12, <2>1
    <3> HIDE DEF old
    <3> QED
      BY <1>2, <1>3, <1>5, <3>1
  <2>2. CASE j = i
    <3>1. old(k) \in i..Len(list) /\ more[k] = list[old(k)] /\ more[j] = e
      <4>1. old(k) \in 1..Len(list) /\ more[k] = list[old(k)] /\ more[j] = e
        BY <1>6, <1>7, <1>12, <2>2
      <4>2. old(k) >= i
        BY <1>2, <1>6, <1>7, <2>2
      <4> QED
        BY <1>2, <4>1, <4>2
    <3> HIDE DEF old
    <3>2. old(k) \in 1..Len(list)
      BY <1>2, <3>1
    <3> QED
      BY <1>3, <1>5, <3>1, <3>2
  <2>3. CASE j # i /\ k # i
    <3>1. /\ old(j) \in 1..Len(list) /\ more[j] = list[old(j)]
          /\ old(k) \in 1..Len(list) /\ more[k] = list[old(k)]
      BY <1>12, <2>3
    <3>2. old(j) < old(k)
      BY <1>2, <1>7, <2>3
    <3> HIDE DEF old
    <3> QED
      BY <3>1, <3>2 DEF Ordered
  <2> QED
    BY <2>1, <2>2, <2>3
<1>8. Ordered(more, sz)
  BY <1>7 DEF Ordered
<1>9. \A j \in 1..Len(more) : more[j] \in ToSet(list) \cup {e}
  BY <1>6, <1>12, Listed
<1>10. ASSUME NEW b \in ToSet(list) PROVE b \in ToSet(more)
  <2>1. PICK k \in 1..Len(list) : b = list[k]
    BY Listed
  <2>2. CASE k < i
    <3>1. k \in 1..Len(more) /\ more[k] = b
      BY <1>2, <1>6, <2>1, <2>2
    <3> QED
      BY <1>6, <3>1, Listed
  <2>3. CASE k >= i
    <3>1. k + 1 \in (i + 1)..(Len(list) + 1) /\ k + 1 \in 1..Len(more)
      BY <1>2, <1>6, <2>3
    <3>2. more[k + 1] = b
      BY <1>6, <2>1, <3>1
    <3> QED
      BY <1>6, <3>1, <3>2, Listed
  <2> QED
    BY <1>2, <2>2, <2>3
<1>11. e \in ToSet(more)
  BY <1>2, <1>6, Listed
<1>13. ToSet(more) = ToSet(list) \cup {e}
  <2>1. ToSet(more) \subseteq ToSet(list) \cup {e}
    <3> SUFFICES ASSUME NEW b \in ToSet(more) PROVE b \in ToSet(list) \cup {e}
      OBVIOUS
    <3>1. PICK j \in 1..Len(more) : b = more[j]
      BY <1>6, Listed
    <3> QED
      BY <1>9, <3>1
  <2> QED
    BY <1>10, <1>11, <2>1
<1> QED
  BY <1>6, <1>8, <1>13

(***************************************************************************)
(* The heap has finitely many addresses.                                   *)
(***************************************************************************)
LEMMA AddressesFinite ==
    ASSUME NEW S \in SUBSET Addresses PROVE IsFiniteSet(S)
<1>1. IsFiniteSet(0..(HeapSize - 1))
  BY HeapSizeAssumption, FS_Interval
<1> QED
  BY <1>1, FS_Subset DEF Addresses

(***************************************************************************)
(* Without one of its blocks, a set's sum is smaller by its size.          *)
(***************************************************************************)
LEMMA SumWithout ==
    ASSUME NEW sz \in [Addresses -> 0..HeapSize], NEW S \in SUBSET Addresses,
           NEW b \in S
    PROVE  /\ Sum(sz, S) = Sum(sz, S \ {b}) + sz[b]
           /\ Sum(sz, S) \in Nat /\ Sum(sz, S \ {b}) \in Nat
<1> DEFINE R == S \ {b}
<1>1. IsFiniteSet(R) /\ IsFiniteSet(S) /\ R \cup {b} = S /\ b \notin R
  BY AddressesFinite
<1>2. \A x \in S : sz[x] \in Nat
  BY HeapSizeAssumption
<1>3. Sum(sz, R \cup {b}) = Sum(sz, R) + sz[b]
  BY <1>1, <1>2, SumOfOneMore
<1>4. Sum(sz, R) \in Nat /\ Sum(sz, S) \in Nat
  BY <1>1, <1>2, SumIsNat
<1> QED
  BY <1>1, <1>3, <1>4

(***************************************************************************)
(* With one more block, a set's sum is larger by its size.                 *)
(***************************************************************************)
LEMMA SumWith ==
    ASSUME NEW sz \in [Addresses -> 0..HeapSize], NEW S \in SUBSET Addresses,
           NEW b \in Addresses, b \notin S
    PROVE  /\ Sum(sz, S \cup {b}) = Sum(sz, S) + sz[b]
           /\ Sum(sz, S) \in Nat
<1>1. IsFiniteSet(S) /\ \A x \in S \cup {b} : sz[x] \in Nat
  BY AddressesFinite, HeapSizeAssumption
<1> QED
  BY <1>1, SumOfOneMore, SumIsNat

(***************************************************************************)
(* A block that is handed out whole: the heap is sound with the block in   *)
(* use.                                                                    *)
(***************************************************************************)
LEMMA WholeKeeps ==
    ASSUME NEW list, NEW sz, NEW used, NEW left, Sound(list, sz, used, left),
           NEW i \in 1..Len(list)
    PROVE  Sound(RemoveAt(list, i), sz, used \cup {list[i]}, left - sz[list[i]])
<1> DEFINE less == RemoveAt(list, i)
           b == list[i]
<1>1. /\ list \in Seq(Addresses) /\ sz \in [Addresses -> 0..HeapSize]
      /\ used \subseteq Addresses /\ ToSet(list) \cap used = {}
      /\ Ordered(list, sz) /\ Tiled(ToSet(list) \cup used, sz)
      /\ left = Sum(sz, ToSet(list)) /\ left + Sum(sz, used) = HeapSize
  BY DEF Sound
<1>2. b \in ToSet(list) /\ b \in Addresses /\ ToSet(list) \in SUBSET Addresses
  BY <1>1, Listed
<1>3. /\ less \in Seq(Addresses) /\ Ordered(less, sz)
      /\ ToSet(less) = ToSet(list) \ {b}
  BY <1>1, ListedLess
<1> HIDE DEF less, b
<1>4. ToSet(less) \cup (used \cup {b}) = ToSet(list) \cup used
  BY <1>2, <1>3
<1>5. Sum(sz, ToSet(list)) = Sum(sz, ToSet(list) \ {b}) + sz[b]
  BY <1>1, <1>2, SumWithout
<1>6. Sum(sz, used \cup {b}) = Sum(sz, used) + sz[b]
  BY <1>1, <1>2, SumWith
<1>7. /\ Sum(sz, ToSet(list) \ {b}) \in Nat /\ Sum(sz, used) \in Nat
      /\ sz[b] \in Nat
  <2>1. Sum(sz, ToSet(list) \ {b}) \in Nat
    BY <1>1, <1>2, SumWithout
  <2>2. Sum(sz, used) \in Nat
    BY <1>1, <1>2, SumWith
  <2> QED
    BY <1>1, <1>2, <2>1, <2>2, HeapSizeAssumption
<1>8. /\ left - sz[b] = Sum(sz, ToSet(less))
      /\ left - sz[b] + Sum(sz, used \cup {b}) = HeapSize
  BY <1>1, <1>3, <1>5, <1>6, <1>7
<1>9. Sound(less, sz, used \cup {b}, left - sz[b])
  BY <1>1, <1>2, <1>3, <1>4, <1>8 DEF Sound
<1> QED
  BY <1>9 DEF less, b

(***************************************************************************)
(* A block that is freed: the heap is sound with the block back in the     *)
(* list.                                                                   *)
(***************************************************************************)
LEMMA FreeKeeps ==
    ASSUME NEW list, NEW sz, NEW used, NEW left, Sound(list, sz, used, left),
           NEW b \in used
    PROVE  Sound(InsertFree(list, sz, b), sz, used \ {b}, left + sz[b])
<1> DEFINE more == InsertFree(list, sz, b)
<1>1. /\ list \in Seq(Addresses) /\ sz \in [Addresses -> 0..HeapSize]
      /\ used \subseteq Addresses /\ ToSet(list) \cap used = {}
      /\ Ordered(list, sz) /\ Tiled(ToSet(list) \cup used, sz)
      /\ left = Sum(sz, ToSet(list)) /\ left + Sum(sz, used) = HeapSize
  BY DEF Sound
<1>2. b \in Addresses /\ b \notin ToSet(list) /\ ToSet(list) \in SUBSET Addresses
  BY <1>1, Listed
<1>3. /\ more \in Seq(Addresses) /\ Ordered(more, sz)
      /\ ToSet(more) = ToSet(list) \cup {b}
  BY <1>1, <1>2, ListedMore
<1> HIDE DEF more
<1>4. ToSet(more) \cup (used \ {b}) = ToSet(list) \cup used
  BY <1>2, <1>3
<1>5. Sum(sz, used) = Sum(sz, used \ {b}) + sz[b]
  BY <1>1, SumWithout
<1>6. Sum(sz, ToSet(list) \cup {b}) = Sum(sz, ToSet(list)) + sz[b]
  BY <1>1, <1>2, SumWith
<1>7. /\ Sum(sz, used \ {b}) \in Nat /\ Sum(sz, ToSet(list)) \in Nat
      /\ sz[b] \in Nat
  <2>1. Sum(sz, used \ {b}) \in Nat
    BY <1>1, SumWithout
  <2>2. Sum(sz, ToSet(list)) \in Nat
    BY <1>1, <1>2, SumWith
  <2> QED
    BY <1>1, <1>2, <2>1, <2>2, HeapSizeAssumption
<1>8. /\ left + sz[b] = Sum(sz, ToSet(more))
      /\ left + sz[b] + Sum(sz, used \ {b}) = HeapSize
  BY <1>1, <1>3, <1>5, <1>6, <1>7
<1>9. Sound(more, sz, used \ {b}, left + sz[b])
  BY <1>1, <1>2, <1>3, <1>4, <1>8 DEF Sound
<1> QED
  BY <1>9 DEF more

\* The sizes after block b is split behind its first w bytes.
SplitSizes(sz, b, w) ==
    [sz EXCEPT ![b] = w, ![b + w] = sz[b] - w]

\* What that split must leave.
SplitRight(blocks, sz, b, w, sizes) ==
    /\ b + w \in Addresses \ blocks
    /\ sizes \in [Addresses -> 0..HeapSize]
    /\ sizes[b] = w /\ sizes[b + w] = sz[b] - w
    /\ \A c \in Addresses \ {b, b + w} : sizes[c] = sz[c]
    /\ Tiled(blocks \cup {b + w}, sizes)

(***************************************************************************)
(* A split block and its rest take the place of the block: the blocks lie  *)
(* end to end as before, and the rest is a new one.                        *)
(***************************************************************************)
LEMMA SplitTiles ==
    ASSUME NEW blocks \in SUBSET Addresses,
           NEW sz \in [Addresses -> 0..HeapSize], Tiled(blocks, sz),
           NEW b \in blocks, NEW wanted \in Nat, 0 < wanted, wanted < sz[b]
    PROVE  SplitRight(blocks, sz, b, wanted, SplitSizes(sz, b, wanted))
<1> DEFINE sizes == SplitSizes(sz, b, wanted)
<1> DEFINE rest == b + wanted
<1>1. /\ blocks \subseteq 0..(HeapSize - 1) /\ HeapSize \in Nat
      /\ \A c \in Addresses : c \in Nat /\ sz[c] \in Nat /\ sz[c] <= HeapSize
  BY HeapSizeAssumption DEF Addresses
<1>2. /\ 0 \in blocks
      /\ \A x \in blocks : sz[x] > 0 /\ x + sz[x] \in blocks \cup {HeapSize}
      /\ \A x, c \in blocks : x < c => x + sz[x] <= c
  BY DEF Tiled
<1>3. b < rest /\ rest < b + sz[b] /\ b + sz[b] <= HeapSize
  BY <1>1, <1>2
<1>4. rest \in Addresses /\ rest \notin blocks
  BY <1>1, <1>2, <1>3 DEF Addresses
<1>5. /\ sizes \in [Addresses -> 0..HeapSize]
      /\ sizes[b] = wanted /\ sizes[rest] = sz[b] - wanted
      /\ \A c \in Addresses \ {b, rest} : sizes[c] = sz[c]
  <2>1. wanted \in 0..HeapSize /\ sz[b] - wanted \in 0..HeapSize
    BY <1>1
  <2> QED
    BY <1>3, <1>4, <2>1 DEF SplitSizes
<1>6. ASSUME NEW x \in blocks \cup {rest}
      PROVE  /\ sizes[x] > 0 /\ x + sizes[x] \in blocks \cup {rest, HeapSize}
             /\ \A c \in blocks \cup {rest} : x < c => x + sizes[x] <= c
  <2>1. CASE x = b
    <3>1. x + sizes[x] = rest
      BY <1>5, <2>1
    <3>2. ASSUME NEW c \in blocks \cup {rest}, b < c PROVE rest <= c
      BY <1>1, <1>2, <1>3, <3>2
    <3> QED
      BY <1>5, <2>1, <3>1, <3>2
  <2>2. CASE x = rest
    <3>1. x + sizes[x] = b + sz[b] /\ sizes[x] > 0
      BY <1>1, <1>5, <2>2
    <3>2. ASSUME NEW c \in blocks \cup {rest}, rest < c PROVE b + sz[b] <= c
      BY <1>1, <1>2, <1>3, <3>2
    <3> QED
      BY <1>2, <2>2, <3>1, <3>2
  <2>3. CASE x # b /\ x # rest
    <3>1. x \in blocks /\ sizes[x] = sz[x]
      BY <1>5, <2>3
    <3>2. ASSUME x < rest PROVE x + sz[x] <= rest
      <4>1. x < b \/ b < x
        BY <1>1, <2>3, <3>1
      <4>2. ~(b < x)
        BY <1>1, <1>2, <1>3, <3>1, <3>2
      <4>3. x + sz[x] <= b
        BY <1>2, <3>1, <4>1, <4>2
      <4> QED
        BY <1>1, <1>3, <3>1, <4>3
    <3> QED
      BY <1>2, <3>1, <3>2
  <2> QED
    BY <2>1, <2>2, <2>3
<1> HIDE DEF sizes
<1>7. Tiled(blocks \cup {rest}, sizes)
  BY <1>2, <1>6 DEF Tiled
<1>8. SplitRight(blocks, sz, b, wanted, sizes)
  BY <1>4, <1>5, <1>7 DEF SplitRight
<1> QED
  BY <1>8 DEF sizes

(***************************************************************************)
(* A block that is split: the heap is sound with its front in use and its  *)
(* rest in the list.                                                       *)
(***************************************************************************)
LEMMA SplitKeeps ==
    ASSUME NEW list, NEW sz, NEW used, NEW left, Sound(list, sz, used, left),
           NEW i \in 1..Len(list), NEW wanted \in Nat,
           NEW sizes \in [Addresses -> 0..HeapSize], NEW rest,
           rest \in Addresses \ (ToSet(list) \cup used),
           sizes[list[i]] = wanted, sizes[rest] = sz[list[i]] - wanted,
           \A c \in Addresses \ {list[i], rest} : sizes[c] = sz[c],
           Tiled((ToSet(list) \cup used) \cup {rest}, sizes)
    PROVE  Sound(InsertFree(RemoveAt(list, i), sizes, rest), sizes,
                 used \cup {list[i]}, left - wanted)
<1> DEFINE less == RemoveAt(list, i)
           b == list[i]
           more == InsertFree(less, sizes, rest)
           F == ToSet(list) \ {b}
<1>1. /\ list \in Seq(Addresses) /\ sz \in [Addresses -> 0..HeapSize]
      /\ used \subseteq Addresses /\ ToSet(list) \cap used = {}
      /\ Ordered(list, sz) /\ Tiled(ToSet(list) \cup used, sz)
      /\ left = Sum(sz, ToSet(list)) /\ left + Sum(sz, used) = HeapSize
  BY DEF Sound
<1>2. b \in ToSet(list) /\ b \in Addresses /\ ToSet(list) \in SUBSET Addresses
  BY <1>1, Listed
<1>3. /\ less \in Seq(Addresses) /\ Ordered(less, sz) /\ ToSet(less) = F
  BY <1>1, ListedLess
<1> HIDE DEF less
<1>4. /\ rest \in Addresses \ (ToSet(list) \cup used)
      /\ sizes[b] = wanted /\ sizes[rest] = sz[b] - wanted
      /\ \A c \in Addresses \ {b, rest} : sizes[c] = sz[c]
      /\ Tiled((ToSet(list) \cup used) \cup {rest}, sizes)
  OBVIOUS
<1> HIDE DEF b, F
<1>5. \A c \in F \cup used : sizes[c] = sz[c]
  BY <1>1, <1>2, <1>4 DEF F
<1>6. Ordered(less, sizes)
  <2>1. \A j \in 1..Len(less) : less[j] \in F
    BY <1>3, Listed
  <2> QED
    BY <1>3, <1>5, <2>1 DEF Ordered
<1>7. /\ more \in Seq(Addresses) /\ Ordered(more, sizes)
      /\ ToSet(more) = F \cup {rest}
  <2>1. rest \in Addresses /\ rest \notin ToSet(less)
    BY <1>3, <1>4 DEF F
  <2> QED
    BY <1>3, <1>4, <1>6, <2>1, ListedMore
<1> HIDE DEF more
<1>8. ToSet(more) \cup (used \cup {b}) = (ToSet(list) \cup used) \cup {rest}
  BY <1>2, <1>7 DEF F
<1>9. ToSet(more) \cap (used \cup {b}) = {}
  BY <1>1, <1>2, <1>4, <1>7 DEF F
<1>10. F \in SUBSET Addresses /\ rest \notin F /\ b \notin used
  BY <1>1, <1>2, <1>4 DEF F
<1>11. Sum(sizes, F) = Sum(sz, F) /\ Sum(sizes, used) = Sum(sz, used)
  <2>1. Sum(sizes, F) = Sum(sz, F)
    BY <1>5, <1>10, AddressesFinite, SumOfSame
  <2>2. Sum(sizes, used) = Sum(sz, used)
    BY <1>1, <1>5, AddressesFinite, SumOfSame
  <2> QED
    BY <2>1, <2>2
<1>12. /\ Sum(sizes, ToSet(more)) = Sum(sizes, F) + (sz[b] - wanted)
       /\ Sum(sizes, F) \in Nat
  <2>1. /\ Sum(sizes, F \cup {rest}) = Sum(sizes, F) + sizes[rest]
        /\ Sum(sizes, F) \in Nat
    BY <1>4, <1>10, SumWith
  <2> QED
    BY <1>4, <1>7, <2>1
<1>13. /\ Sum(sizes, used \cup {b}) = Sum(sizes, used) + wanted
       /\ Sum(sizes, used) \in Nat
  <2>1. /\ Sum(sizes, used \cup {b}) = Sum(sizes, used) + sizes[b]
        /\ Sum(sizes, used) \in Nat
    <3>1. used \in SUBSET Addresses
      BY <1>1
    <3> QED
      BY <1>2, <1>10, <3>1, SumWith
  <2> QED
    BY <1>4, <2>1
<1>14. Sum(sz, ToSet(list)) = Sum(sz, F) + sz[b]
  BY <1>1, <1>2, SumWithout DEF F
<1>15. sz[b] \in Nat
  BY <1>1, <1>2, HeapSizeAssumption
<1>16. /\ left - wanted = Sum(sizes, ToSet(more))
       /\ left - wanted + Sum(sizes, used \cup {b}) = HeapSize
  <2>1. /\ left = Sum(sz, ToSet(list)) /\ left + Sum(sz, used) = HeapSize
        /\ wanted \in Nat
    BY <1>1
  <2>2. left - wanted = Sum(sizes, ToSet(more))
    BY <2>1, <1>11, <1>12, <1>14, <1>15
  <2>3. left \in Int /\ Sum(sizes, used \cup {b}) = Sum(sz, used) + wanted
    BY <2>1, <1>11, <1>12, <1>13, <1>14, <1>15
  <2>4. Sum(sz, used) \in Int
    BY <1>11, <1>13
  <2> QED
    BY <2>1, <2>2, <2>3, <2>4
<1>17. Sound(more, sizes, used \cup {b}, left - wanted)
  BY <1>1, <1>2, <1>4, <1>7, <1>8, <1>9, <1>16 DEF Sound
<1> QED
  BY <1>17 DEF more, less, b

-----------------------------------------------------------------------------
(***************************************************************************)
(* The inductive invariant of the allocator: before the first malloc there *)
(* is no block, and after it the heap is sound. Neither BlocksTile nor     *)
(* FreeListExact is inductive by itself: a split keeps the list exact      *)
(* because its rest is a new block, as the tiling says, and keeps the      *)
(* tiling because the list names no live block.                            *)
(***************************************************************************)
HeapInvariant ==
    /\ TypeOK
    /\ IF initialised THEN Sound(free, size, live, freeBytes)
       ELSE /\ free = <<>> /\ live = {} /\ freeBytes = HeapSize
            /\ size = [a \in Addresses |-> 0]

(***************************************************************************)
(* As malloc finds the heap, with prvHeapInit run if it had not been, it   *)
(* is sound.                                                               *)
(***************************************************************************)
LEMMA HeapNow ==
    HeapInvariant => Sound(FreeNow, SizeNow, live, freeBytes)
<1> SUFFICES ASSUME HeapInvariant
             PROVE  Sound(FreeNow, SizeNow, live, freeBytes)
  OBVIOUS
<1>1. CASE initialised
  BY <1>1 DEF HeapInvariant, FreeNow, SizeNow
<1>2. CASE ~initialised
  <2> DEFINE list == <<0>>
             sz == [[a \in Addresses |-> 0] EXCEPT ![0] = HeapSize]
  <2>1. FreeNow = list /\ SizeNow = sz /\ live = {} /\ freeBytes = HeapSize
    BY <1>2 DEF HeapInvariant, FreeNow, SizeNow
  <2>2. 0 \in Addresses /\ HeapSize \in 0..HeapSize /\ HeapSize > 0
    BY HeapSizeAssumption, AlignAssumption DEF Addresses
  <2>3. list \in Seq(Addresses) /\ Len(list) = 1 /\ list[1] = 0
    BY <2>2
  <2>4. sz \in [Addresses -> 0..HeapSize] /\ sz[0] = HeapSize
    BY <2>2, HeapSizeAssumption
  <2> HIDE DEF list, sz
  <2>5. ToSet(list) = {0}
    <3>1. \A b \in ToSet(list) : b = 0
      BY <2>3, Listed
    <3>2. 0 \in ToSet(list)
      BY <2>3, Listed
    <3> QED
      BY <3>1, <3>2
  <2>6. Ordered(list, sz)
    BY <2>3 DEF Ordered
  <2>7. Tiled({0}, sz)
    BY <2>2, <2>4 DEF Tiled
  <2>8. Sum(sz, {0}) = HeapSize /\ Sum(sz, {}) = 0
    <3>1. Sum(sz, {} \cup {0}) = Sum(sz, {}) + sz[0]
      BY <2>2, <2>4, SumWith
    <3>2. Sum(sz, {}) = 0 /\ {} \cup {0} = {0}
      BY SumOfNone
    <3> QED
      BY <2>4, <3>1, <3>2, HeapSizeAssumption
  <2> QED
    BY <2>1, <2>3, <2>4, <2>5, <2>6, <2>7, <2>8, HeapSizeAssumption DEF Sound
<1> QED
  BY <1>1, <1>2

(***************************************************************************)
(* The free bytes of a sound heap are between none and all.                *)
(***************************************************************************)
LEMMA SoundTypes ==
    ASSUME NEW list, NEW sz, NEW used, NEW left, Sound(list, sz, used, left)
    PROVE  left \in 0..HeapSize
<1>1. /\ sz \in [Addresses -> 0..HeapSize] /\ used \in SUBSET Addresses
      /\ ToSet(list) \in SUBSET Addresses
      /\ left = Sum(sz, ToSet(list)) /\ left + Sum(sz, used) = HeapSize
  BY Listed DEF Sound
<1>2. IsFiniteSet(used) /\ IsFiniteSet(ToSet(list))
  BY <1>1, AddressesFinite
<1>3. \A a \in Addresses : sz[a] \in Nat
  BY <1>1, HeapSizeAssumption
<1>4. Sum(sz, used) \in Nat /\ Sum(sz, ToSet(list)) \in Nat
  BY <1>1, <1>2, <1>3, SumIsNat
<1> QED
  BY <1>1, <1>4, HeapSizeAssumption

(***************************************************************************)
(* The size malloc looks for is a number, even where size_t wraps.         *)
(***************************************************************************)
LEMMA WantedIsNat == \A n \in Requests : WantedSize(n) \in Nat
<1>1. ASSUME NEW m \in Nat PROVE RoundUp(m) \in Nat
  <2>1. m % Align \in Nat /\ m % Align < Align
    BY AlignAssumption
  <2> QED
    BY <2>1, AlignAssumption, SizeMaxAssumption DEF RoundUp, SizeT
<1>2. \A n \in Requests : SizeT(n + StructSize) \in Nat
  BY RequestsAssumption, SizeMaxAssumption, AlignAssumption
  DEF SizeT, StructSize
<1> QED
  BY <1>1, <1>2 DEF WantedSize

(***************************************************************************)
(* What malloc's search finds: the first block that is large enough, and   *)
(* none only if no block is or the request is not one that is looked for.  *)
(***************************************************************************)
LEMMA FoundFits ==
    ASSUME HeapInvariant, NEW wanted \in Nat, NEW i, i = Found(wanted)
    PROVE  /\ i \in 0..Len(FreeNow)
           /\ i # 0 =>
                /\ 0 < wanted /\ wanted < HeapSize
                /\ SizeNow[FreeNow[i]] >= wanted
                /\ \A j \in 1..(i - 1) : SizeNow[FreeNow[j]] < wanted
           /\ i = 0 /\ 0 < wanted /\ wanted < HeapSize =>
                \A j \in 1..Len(FreeNow) : SizeNow[FreeNow[j]] < wanted
<1>1. /\ FreeNow \in Seq(Addresses) /\ SizeNow \in [Addresses -> 0..HeapSize]
  BY HeapNow DEF Sound
<1>2. CASE 0 < wanted /\ wanted < HeapSize
  <2>1. i = FirstAtLeast(FreeNow, SizeNow, wanted)
    BY <1>2 DEF Found
  <2>2. /\ FreeNow \in Seq(Addresses) /\ SizeNow \in [Addresses -> 0..HeapSize]
        /\ wanted \in Int
    BY <1>1
  <2>3. \A l \in Seq(Addresses), sz \in [Addresses -> 0..HeapSize], s \in Int :
          LET k == FirstAtLeast(l, sz, s)
          IN  /\ k \in 0..Len(l)
              /\ k # 0 => sz[l[k]] >= s /\ \A j \in 1..(k - 1) : sz[l[j]] < s
              /\ k = 0 => \A j \in 1..Len(l) : sz[l[j]] < s
    BY FoundFirst
  <2>4. LET k == FirstAtLeast(FreeNow, SizeNow, wanted)
        IN  /\ k \in 0..Len(FreeNow)
            /\ k # 0 =>
                 /\ SizeNow[FreeNow[k]] >= wanted
                 /\ \A j \in 1..(k - 1) : SizeNow[FreeNow[j]] < wanted
            /\ k = 0 => \A j \in 1..Len(FreeNow) : SizeNow[FreeNow[j]] < wanted
    BY <2>2, <2>3, Zenon
  <2> QED
    BY <1>2, <2>1, <2>4, Zenon
<1>3. CASE ~(0 < wanted /\ wanted < HeapSize)
  <2>1. i = 0
    BY <1>3 DEF Found
  <2> QED
    BY <1>1, <1>3, <2>1
<1> QED
  BY <1>2, <1>3

(***************************************************************************)
(* The colour, the tags and the program's record of a new block keep their *)
(* types.                                                                  *)
(***************************************************************************)
LEMMA HandOutTypes ==
    ASSUME TypeOK, NEW n \in Requests, NEW block \in Addresses, NEW s,
           HandOut(n, block, s)
    PROVE  /\ tagIndex' \in Colors /\ asked' \in [Addresses -> 0 .. SizeMax]
           /\ wordTag' \in [Words -> Colors \cup {NoColor}]
           /\ color' \in [Addresses -> Colors \cup {NoColor}]
           /\ live' = live \cup {block}
<1>1. (tagIndex + 1) % MaxColors \in Colors
  BY ColorsAssumption DEF TypeOK, Colors
<1> QED
  BY <1>1, RequestsAssumption DEF HandOut, TagWords, TypeOK

(***************************************************************************)
(* A step that leaves the heap sound and the tags well typed keeps the     *)
(* invariant.                                                              *)
(***************************************************************************)
LEMMA TypeFromSound ==
    ASSUME initialised' = TRUE, Sound(free', size', live', freeBytes'),
           tagIndex' \in Colors, asked' \in [Addresses -> 0 .. SizeMax],
           wordTag' \in [Words -> Colors \cup {NoColor}],
           color' \in [Addresses -> Colors \cup {NoColor}]
    PROVE  HeapInvariant'
<1>1. freeBytes' \in 0..HeapSize
  BY SoundTypes
<1>2. /\ free' \in Seq(Addresses) /\ size' \in [Addresses -> 0..HeapSize]
      /\ live' \subseteq Addresses
  BY DEF Sound
<1> QED
  BY <1>1, <1>2 DEF HeapInvariant, TypeOK

(***************************************************************************)
(* malloc keeps the invariant, whether it fails, hands out a whole block   *)
(* or splits one.                                                          *)
(***************************************************************************)
LEMMA MallocKeeps ==
    ASSUME HeapInvariant, NEW n \in Requests, Malloc(n)
    PROVE  HeapInvariant'
<1> DEFINE wanted == WantedSize(n)
           i == Found(wanted)
           block == FreeNow[i]
<1>1. Sound(FreeNow, SizeNow, live, freeBytes) /\ wanted \in Nat
  BY HeapNow, WantedIsNat
<1>2. TypeOK
  BY DEF HeapInvariant
<1>3. CASE MallocFails(n)
  <2>1. /\ initialised' = TRUE /\ free' = FreeNow /\ size' = SizeNow
        /\ UNCHANGED <<freeBytes, tagIndex, wordTag, live, asked, color>>
    BY <1>3 DEF MallocFails, userVars
  <2> QED
    BY <1>1, <1>2, <2>1, TypeFromSound DEF TypeOK
<1>4. CASE MallocWhole(n)
  <2>1. i # 0 /\ i \in 1..Len(FreeNow)
    BY <1>1, <1>4, FoundFits DEF MallocWhole
  <2>2. block \in Addresses
    BY <1>1, <2>1 DEF Sound
  <2>3. /\ initialised' = TRUE /\ free' = RemoveAt(FreeNow, i)
        /\ size' = SizeNow /\ freeBytes' = freeBytes - SizeNow[block]
        /\ HandOut(n, block, SizeNow[block])
    BY <1>4 DEF MallocWhole
  <2>4. Sound(RemoveAt(FreeNow, i), SizeNow, live \cup {block},
              freeBytes - SizeNow[block])
    BY <1>1, <2>1, WholeKeeps
  <2> HIDE DEF block, i, wanted
  <2> QED
    BY <1>2, <2>2, <2>3, <2>4, HandOutTypes, TypeFromSound
<1>5. CASE MallocSplit(n)
  <2> DEFINE rest == block + wanted
             sizes == [SizeNow EXCEPT ![block] = wanted,
                                      ![rest] = SizeNow[block] - wanted]
  <2>1. /\ i # 0 /\ i \in 1..Len(FreeNow) /\ 0 < wanted
    BY <1>1, <1>5, FoundFits DEF MallocSplit
  <2>2. block \in Addresses /\ block \in ToSet(FreeNow)
    BY <1>1, <2>1, Listed DEF Sound
  <2>3. /\ initialised' = TRUE /\ size' = sizes
        /\ free' = InsertFree(RemoveAt(FreeNow, i), sizes, rest)
        /\ freeBytes' = freeBytes - wanted
        /\ HandOut(n, block, wanted) /\ SizeNow[block] - wanted > MinimumBlock
    BY <1>5 DEF MallocSplit
  <2>4. wanted < SizeNow[block]
    <3>1. SizeNow[block] \in Int /\ MinimumBlock > 0 /\ MinimumBlock \in Int
      BY <1>1, <2>2, AlignAssumption DEF Sound, MinimumBlock, StructSize
    <3> QED
      BY <1>1, <2>3, <3>1
  <2> DEFINE B == ToSet(FreeNow) \cup live
  <2>5. /\ B \in SUBSET Addresses /\ SizeNow \in [Addresses -> 0..HeapSize]
        /\ Tiled(B, SizeNow) /\ block \in B
    BY <1>1, <2>2, Listed DEF Sound
  <2> HIDE DEF wanted, i, block
  <2>6. /\ rest \in Addresses \ B /\ sizes \in [Addresses -> 0..HeapSize]
        /\ sizes[block] = wanted /\ sizes[rest] = SizeNow[block] - wanted
        /\ \A c \in Addresses \ {block, rest} : sizes[c] = SizeNow[c]
        /\ Tiled(B \cup {rest}, sizes)
    <3> HIDE DEF B
    <3>1. \A blocks \in SUBSET Addresses, sz \in [Addresses -> 0..HeapSize] :
            \A b \in blocks, w \in Nat :
              Tiled(blocks, sz) /\ 0 < w /\ w < sz[b] =>
                SplitRight(blocks, sz, b, w, SplitSizes(sz, b, w))
      BY SplitTiles
    <3>2. wanted \in Nat
      BY <1>1
    <3>3. SplitRight(B, SizeNow, block, wanted, SplitSizes(SizeNow, block, wanted))
      BY <2>1, <2>4, <2>5, <3>1, <3>2
    <3>4. sizes = SplitSizes(SizeNow, block, wanted)
      BY DEF SplitSizes
    <3> HIDE DEF sizes
    <3> QED
      BY <3>3, <3>4 DEF SplitRight
  <2>7. Sound(InsertFree(RemoveAt(FreeNow, i), sizes, rest), sizes,
              live \cup {block}, freeBytes - wanted)
    <3> HIDE DEF sizes, rest
    <3> QED
      BY <1>1, <2>1, <2>6, SplitKeeps DEF block
  <2> HIDE DEF sizes, rest
  <2> QED
    BY <1>2, <2>2, <2>3, <2>7, HandOutTypes, TypeFromSound
<1> QED
  BY <1>3, <1>4, <1>5 DEF Malloc

(***************************************************************************)
(* free keeps the invariant.                                               *)
(***************************************************************************)
LEMMA FreeKept ==
    ASSUME HeapInvariant, NEW block \in live, Free(block)
    PROVE  HeapInvariant'
<1>1. initialised /\ Sound(free, size, live, freeBytes) /\ TypeOK
  BY DEF HeapInvariant
<1>2. /\ free' = InsertFree(free, size, block)
      /\ freeBytes' = freeBytes + size[block] /\ live' = live \ {block}
      /\ UNCHANGED <<initialised, size, tagIndex>>
  BY DEF Free
<1>3. Sound(free', size', live', freeBytes')
  BY <1>1, <1>2, FreeKeeps
<1>4. /\ asked' \in [Addresses -> 0 .. SizeMax]
      /\ wordTag' \in [Words -> Colors \cup {NoColor}]
      /\ color' \in [Addresses -> Colors \cup {NoColor}]
  BY <1>1, SizeMaxAssumption DEF Free, TagWords, TypeOK
<1> QED
  BY <1>1, <1>2, <1>3, <1>4, TypeFromSound DEF TypeOK

(***************************************************************************)
(* The invariant holds before the first malloc.                            *)
(***************************************************************************)
LEMMA HeapInvariantInit == Init => HeapInvariant
<1> SUFFICES ASSUME Init PROVE HeapInvariant
  OBVIOUS
<1>1. /\ initialised = FALSE /\ free = <<>> /\ live = {}
      /\ freeBytes = HeapSize /\ tagIndex = 0
      /\ size = [a \in Addresses |-> 0] /\ asked = [a \in Addresses |-> 0]
      /\ wordTag = [w \in Words |-> NoColor]
      /\ color = [a \in Addresses |-> NoColor]
  BY DEF Init
<1>2. 0 \in 0..HeapSize /\ HeapSize \in 0..HeapSize /\ 0 \in 0..SizeMax
  BY HeapSizeAssumption, SizeMaxAssumption
<1>3. 0 \in Colors
  BY ColorsAssumption DEF Colors
<1>4. free \in Seq(Addresses)
  BY <1>1
<1>5. TypeOK
  BY <1>1, <1>2, <1>3, <1>4 DEF TypeOK
<1> QED
  BY <1>1, <1>5 DEF HeapInvariant

(***************************************************************************)
(* Every step of the allocator keeps the invariant.                        *)
(***************************************************************************)
LEMMA HeapInvariantStep == HeapInvariant /\ [Next]_vars => HeapInvariant'
<1> SUFFICES ASSUME HeapInvariant, [Next]_vars PROVE HeapInvariant'
  OBVIOUS
<1>1. CASE \E n \in Requests : Malloc(n)
  BY <1>1, MallocKeeps
<1>2. CASE \E block \in live : Free(block)
  BY <1>2, FreeKept
<1>3. CASE UNCHANGED vars
  BY <1>3 DEF vars, HeapInvariant, TypeOK
<1> QED
  BY <1>1, <1>2, <1>3 DEF Next

(***************************************************************************)
(* The invariant holds in every reachable state.                           *)
(***************************************************************************)
LEMMA HeapInvariantHolds == Spec => []HeapInvariant
  BY HeapInvariantInit, HeapInvariantStep, PTL DEF Spec

(***************************************************************************)
(* The types hold in every reachable state: xFreeBytesRemaining stays      *)
(* between none and all the bytes of the heap.                             *)
(***************************************************************************)
THEOREM HeapTypes == Spec => []TypeOK
<1>1. HeapInvariant => TypeOK
  BY DEF HeapInvariant
<1> QED
  BY <1>1, HeapInvariantHolds, PTL

(***************************************************************************)
(* Wherever a block begins, there is room for its link: malloc neither     *)
(* hands out nor leaves over less than a header (HeaderAssumption), and    *)
(* free changes no size.                                                   *)
(***************************************************************************)
Headers == \A a \in Addresses : size[a] = 0 \/ size[a] >= StructSize

LEMMA HeadersStill == HeapInvariant /\ Headers /\ [Next]_vars => Headers'
<1> SUFFICES ASSUME HeapInvariant, Headers, [Next]_vars PROVE Headers'
  OBVIOUS
<1>1. TypeOK
  BY DEF HeapInvariant
<1>2. StructSize \in Nat /\ StructSize > 0 /\ MinimumBlock = 2 * StructSize
  BY AlignAssumption DEF StructSize, MinimumBlock
<1>3. /\ SizeNow \in [Addresses -> 0..HeapSize]
      /\ \A a \in Addresses : SizeNow[a] = 0 \/ SizeNow[a] >= StructSize
  <2>1. HeapSize >= StructSize /\ HeapSize \in 0..HeapSize
    BY HeapSizeAssumption DEF StructSize
  <2> QED
    BY <1>1, <2>1 DEF Headers, SizeNow, TypeOK
<1>4. ASSUME NEW n \in Requests, MallocSplit(n) PROVE Headers'
  <2> DEFINE wanted == WantedSize(n)
             block == FreeNow[Found(wanted)]
             rest == block + wanted
  <2>1. /\ size' = [SizeNow EXCEPT ![block] = wanted, ![rest] = SizeNow[block] - wanted]
        /\ SizeNow[block] - wanted > MinimumBlock /\ Found(wanted) # 0
    BY <1>4 DEF MallocSplit
  <2>2. wanted # 0
    BY <2>1 DEF Found
  <2>3. wanted >= StructSize
    BY <2>2, HeaderAssumption
  <2>4. SizeNow[block] - wanted >= StructSize
    <3>1. wanted \in Nat /\ SizeNow[block] \in Int
      <4>1. Found(wanted) \in 1..Len(FreeNow) /\ FreeNow \in Seq(Addresses)
        BY <2>1, HeapNow, WantedIsNat, FoundFits DEF Sound
      <4> QED
        BY <1>3, <4>1, WantedIsNat
    <3> DEFINE left == SizeNow[block] - wanted
    <3>2. left \in Int /\ left > MinimumBlock
      BY <2>1, <3>1
    <3> HIDE DEF left
    <3> QED
      BY <1>2, <3>2 DEF left
  <2> HIDE DEF wanted, block, rest
  <2> QED
    BY <1>3, <2>1, <2>3, <2>4 DEF Headers
<1>5. ASSUME NEW n \in Requests, MallocFails(n) \/ MallocWhole(n) PROVE Headers'
  <2>1. size' = SizeNow
    BY <1>5 DEF MallocFails, MallocWhole
  <2> QED
    BY <1>3, <2>1 DEF Headers
<1>6. CASE UNCHANGED size
  BY <1>6 DEF Headers
<1> QED
  BY <1>4, <1>5, <1>6 DEF Next, Malloc, Free, vars

(***************************************************************************)
(* malloc and free never lose a byte and never overlap two blocks: the     *)
(* blocks, free or live, lie end to end over the whole heap, each with     *)
(* room for its link. A request may wrap size_t, to nothing or to a        *)
(* header at least.                                                        *)
(***************************************************************************)
THEOREM HeapTiled == Spec => []BlocksTile
<1>1. HeapInvariant /\ Headers => BlocksTile
  <2> SUFFICES ASSUME HeapInvariant, Headers, initialised PROVE BlocksTile
    BY DEF BlocksTile
  <2>1. Tiled(Blocks, size) /\ Blocks \subseteq Addresses
    BY DEF HeapInvariant, Sound, TypeOK, Blocks, FreeSet, ToSet
  <2>2. \A b \in Blocks : size[b] >= StructSize
    BY <2>1 DEF Headers, Tiled
  <2> QED
    BY <2>1, <2>2 DEF Tiled, BlocksTile
<1>2. Init => Headers
  BY DEF Init, Headers
<1> QED
  BY <1>1, <1>2, HeapInvariantHolds, HeadersStill, PTL DEF Spec

(***************************************************************************)
(* The free list names each free block once, no live one, smallest first,  *)
(* and xFreeBytesRemaining is the sum of its blocks.                       *)
(***************************************************************************)
THEOREM FreeListIsExact == Spec => []FreeListExact
<1>1. HeapInvariant => FreeListExact
  <2> SUFFICES ASSUME HeapInvariant PROVE FreeListExact
    OBVIOUS
  <2>1. CASE initialised
    <3>1. /\ free \in Seq(Addresses) /\ DOMAIN free = 1..Len(free)
          /\ Len(free) \in Nat /\ Ordered(free, size)
          /\ ToSet(free) \cap live = {} /\ freeBytes = Sum(size, ToSet(free))
      BY <2>1 DEF HeapInvariant, Sound
    <3>2. IsInjective(free)
      BY <3>1 DEF IsInjective, Ordered
    <3>3. \A i, j \in DOMAIN free : i < j => size[free[i]] <= size[free[j]]
      BY <3>1 DEF Ordered
    <3> QED
      BY <3>1, <3>2, <3>3 DEF FreeListExact, FreeSet, Sum
  <2>2. CASE ~initialised
    <3>1. free = <<>> /\ live = {} /\ DOMAIN free = {}
      BY <2>2 DEF HeapInvariant
    <3> QED
      BY <2>2, <3>1 DEF FreeListExact, IsInjective
  <2> QED
    BY <2>1, <2>2
<1> QED
  BY <1>1, HeapInvariantHolds, PTL

-----------------------------------------------------------------------------
(***************************************************************************)
(* What malloc.c needs of the program: no request, with the header added   *)
(* and rounded up to whole words, exceeds size_t. malloc does not check it *)
(* (malloc.c:211-216), and without it RequestFits does not hold.           *)
(***************************************************************************)
RequestsKeptSmall ==
    \A n \in Requests : n + StructSize + Align - 1 <= SizeMax

(***************************************************************************)
(* A request that does not wrap is looked for with room for the header.    *)
(***************************************************************************)
LEMMA WantedFits ==
    ASSUME RequestsKeptSmall, NEW n \in Requests, n # 0
    PROVE  WantedSize(n) >= n + StructSize
<1> DEFINE m == n + StructSize
<1>1. n \in Nat /\ StructSize \in Nat /\ Align \in Nat \ {0}
  BY RequestsAssumption, AlignAssumption DEF StructSize
<1>2. m + Align - 1 <= SizeMax
  BY DEF RequestsKeptSmall
<1>3. SizeT(m) = m /\ m \in Nat
  BY <1>1, <1>2, SizeMaxAssumption DEF SizeT
<1>4. WantedSize(n) = RoundUp(m)
  BY <1>3 DEF WantedSize
<1> HIDE DEF m
<1>5. m % Align \in 0..(Align - 1)
  BY <1>1, <1>3
<1>6. RoundUp(m) >= m
  <2> DEFINE k == Align - (m % Align)
  <2>1. CASE m % Align = 0
    BY <1>3, <2>1 DEF RoundUp
  <2>2. CASE m % Align # 0
    <3>1. k \in 1..(Align - 1)
      BY <1>1, <1>5, <2>2
    <3>2. RoundUp(m) = SizeT(m + k)
      BY <2>2 DEF RoundUp
    <3> HIDE DEF k
    <3>3. SizeT(m + k) = m + k
      BY <1>1, <1>2, <1>3, <3>1, SizeMaxAssumption DEF SizeT
    <3> QED
      BY <1>3, <3>1, <3>2, <3>3
  <2> QED
    BY <2>1, <2>2
<1> QED
  BY <1>4, <1>6 DEF m

\* One malloc of n bytes handed out s bytes at block.
Handed(n, block, s) ==
    /\ block \in ToSet(FreeNow) /\ block \notin live /\ block \in Addresses
    /\ n # 0 /\ s \in Nat /\ s >= WantedSize(n) /\ s <= HeapSize
    /\ HandOut(n, block, s) /\ size'[block] = s
    /\ \A b \in live : size'[b] = size[b]

(***************************************************************************)
(* prvHeapInit finds no block in use: it changes the size of none.         *)
(***************************************************************************)
LEMMA LiveSizesNow == HeapInvariant => \A b \in live : SizeNow[b] = size[b]
  BY DEF HeapInvariant, SizeNow

(***************************************************************************)
(* A malloc that succeeds hands out one free block, with at least the size *)
(* looked for, and changes the size of no block in use.                    *)
(***************************************************************************)
LEMMA MallocHands ==
    ASSUME HeapInvariant, NEW n \in Requests, Malloc(n), ~MallocFails(n)
    PROVE  \E block, s : Handed(n, block, s)
<1> DEFINE wanted == WantedSize(n)
           i == Found(wanted)
           block == FreeNow[i]
<1>1. /\ FreeNow \in Seq(Addresses) /\ SizeNow \in [Addresses -> 0..HeapSize]
      /\ ToSet(FreeNow) \cap live = {} /\ live \in SUBSET Addresses
      /\ Tiled(ToSet(FreeNow) \cup live, SizeNow) /\ wanted \in Nat
  BY HeapNow, WantedIsNat DEF Sound
<1>2. i # 0 /\ i \in 0..Len(FreeNow) /\ 0 < wanted /\ SizeNow[block] >= wanted
  <2>1. i # 0
    BY DEF Malloc, MallocFails, MallocWhole, MallocSplit
  <2> QED
    BY <1>1, <2>1, FoundFits
<1>3. block \in ToSet(FreeNow) /\ block \notin live /\ block \in Addresses
  BY <1>1, <1>2, Listed
<1>4. n # 0
  BY <1>2 DEF WantedSize
<1>5. CASE MallocWhole(n)
  <2>1. HandOut(n, block, SizeNow[block]) /\ size' = SizeNow
    BY <1>5 DEF MallocWhole
  <2>2. SizeNow[block] \in Nat /\ SizeNow[block] <= HeapSize
    BY <1>1, <1>3, HeapSizeAssumption
  <2> HIDE DEF wanted, i, block
  <2>3. SizeNow[block] >= WantedSize(n)
    BY <1>2 DEF wanted
  <2>4. Handed(n, block, SizeNow[block])
    BY <1>3, <1>4, <2>1, <2>2, <2>3, LiveSizesNow DEF Handed
  <2> QED
    BY <2>4
<1>6. CASE MallocSplit(n)
  <2> DEFINE sizes == [SizeNow EXCEPT ![block] = wanted,
                                      ![block + wanted] = SizeNow[block] - wanted]
             B == ToSet(FreeNow) \cup live
  <2>1. /\ HandOut(n, block, wanted) /\ size' = sizes
        /\ SizeNow[block] - wanted > MinimumBlock
    BY <1>6 DEF MallocSplit
  <2> HIDE DEF i, block
  <2>2. SizeNow[block] \in 0..HeapSize
    BY <1>1, <1>3
  <2>3. wanted < SizeNow[block] /\ wanted <= HeapSize
    <3>1. MinimumBlock \in Nat
      BY AlignAssumption DEF MinimumBlock, StructSize
    <3> HIDE DEF wanted
    <3> QED
      BY <1>1, <2>1, <2>2, <3>1, HeapSizeAssumption
  <2>4. /\ B \in SUBSET Addresses /\ Tiled(B, SizeNow) /\ block \in B
    BY <1>1, <1>3, Listed
  <2> HIDE DEF wanted
  <2>5. SplitRight(B, SizeNow, block, wanted, sizes)
    <3>1. \A blocks \in SUBSET Addresses, sz \in [Addresses -> 0..HeapSize] :
            \A b \in blocks, w \in Nat :
              Tiled(blocks, sz) /\ 0 < w /\ w < sz[b] =>
                SplitRight(blocks, sz, b, w, SplitSizes(sz, b, w))
      BY SplitTiles
    <3> HIDE DEF B
    <3>2. SplitRight(B, SizeNow, block, wanted, SplitSizes(SizeNow, block, wanted))
      BY <1>1, <1>2, <2>3, <2>4, <3>1
    <3> QED
      BY <3>2 DEF SplitSizes
  <2> HIDE DEF sizes
  <2>6. size'[block] = wanted /\ \A b \in live : size'[b] = SizeNow[b]
    <3>1. sizes[block] = wanted
      BY <2>5 DEF SplitRight
    <3>2. ASSUME NEW b \in live PROVE sizes[b] = SizeNow[b]
      <4>1. b \in Addresses /\ b # block /\ b # block + wanted
        BY <1>1, <1>3, <2>5 DEF SplitRight
      <4> QED
        BY <2>5, <4>1 DEF SplitRight
    <3> QED
      BY <2>1, <3>1, <3>2
  <2>7. wanted >= WantedSize(n) /\ wanted \in Nat
    BY <1>1 DEF wanted
  <2>8. Handed(n, block, wanted)
    BY <1>3, <1>4, <2>1, <2>3, <2>6, <2>7, LiveSizesNow DEF Handed
  <2> QED
    BY <2>8
<1> QED
  BY <1>5, <1>6 DEF Malloc

(***************************************************************************)
(* With the room of every block: without it a payload could end before it  *)
(* begins, and neither the tags nor the regions would be those of the      *)
(* blocks.                                                                 *)
(***************************************************************************)
OwnerInvariant == HeapInvariant /\ RequestFits

(***************************************************************************)
(* A malloc that fails changes nothing the program can see.                *)
(***************************************************************************)
LEMMA FailureChangesNothing ==
    ASSUME HeapInvariant, NEW n, MallocFails(n)
    PROVE  /\ UNCHANGED <<wordTag, live, asked, color>>
           /\ \A b \in live : size'[b] = size[b]
  BY LiveSizesNow DEF MallocFails, userVars

(***************************************************************************)
(* No step makes a block smaller than what was asked for.                  *)
(***************************************************************************)
LEMMA RequestsFitStill ==
    ASSUME RequestsKeptSmall, OwnerInvariant, [Next]_vars
    PROVE  RequestFits'
<1>1. /\ HeapInvariant /\ TypeOK
      /\ \A b \in live : size[b] >= StructSize + asked[b]
  BY DEF OwnerInvariant, RequestFits, HeapInvariant
<1>2. ASSUME NEW n \in Requests, Malloc(n) PROVE RequestFits'
  <2>1. CASE MallocFails(n)
    BY <1>1, <2>1, FailureChangesNothing DEF RequestFits
  <2>2. CASE ~MallocFails(n)
    <3>1. PICK block, s : Handed(n, block, s)
      BY <1>1, <1>2, <2>2, MallocHands
    <3>2. /\ block \in Addresses /\ block \notin live /\ s \in Nat
          /\ s >= WantedSize(n) /\ n # 0 /\ size'[block] = s
          /\ \A b \in live : size'[b] = size[b]
          /\ live' = live \cup {block}
          /\ asked' = [asked EXCEPT ![block] = n]
      BY <3>1 DEF Handed, HandOut
    <3>3. asked'[block] = n /\ \A b \in live : asked'[b] = asked[b]
      BY <1>1, <3>2 DEF TypeOK
    <3>4. s >= StructSize + n
      <4>1. WantedSize(n) >= n + StructSize /\ WantedSize(n) \in Nat
        BY <3>2, WantedFits, WantedIsNat
      <4>2. n \in Nat /\ StructSize \in Nat
        BY RequestsAssumption, AlignAssumption DEF StructSize
      <4> QED
        BY <3>2, <4>1, <4>2
    <3> QED
      BY <1>1, <3>2, <3>3, <3>4 DEF RequestFits
  <2> QED
    BY <2>1, <2>2
<1>3. ASSUME NEW block \in live, Free(block) PROVE RequestFits'
  <2>1. /\ live' = live \ {block} /\ size' = size
        /\ asked' = [asked EXCEPT ![block] = 0]
    BY <1>3 DEF Free
  <2>2. \A b \in live' : b \in live /\ asked'[b] = asked[b]
    BY <1>1, <2>1 DEF TypeOK
  <2> QED
    BY <1>1, <2>1, <2>2 DEF RequestFits
<1>4. CASE UNCHANGED vars
  BY <1>1, <1>4 DEF vars, RequestFits
<1> QED
  BY <1>2, <1>3, <1>4 DEF Next

(***************************************************************************)
(* In every reachable state the heap is sound and every block has room for *)
(* its header and its request.                                             *)
(***************************************************************************)
LEMMA OwnerInvariantHolds ==
    ASSUME RequestsKeptSmall PROVE Spec => []OwnerInvariant
<1>1. Init => OwnerInvariant
  BY HeapInvariantInit DEF Init, OwnerInvariant, RequestFits
<1>2. OwnerInvariant /\ [Next]_vars => OwnerInvariant'
  BY HeapInvariantStep, RequestsFitStill DEF OwnerInvariant
<1> QED
  BY <1>1, <1>2, PTL DEF Spec

(***************************************************************************)
(* As long as no request wraps size_t, a block has room for its header and *)
(* for the bytes that were asked for (malloc.c:208-209).                   *)
(***************************************************************************)
THEOREM RequestsFit ==
    ASSUME RequestsKeptSmall PROVE Spec => []RequestFits
<1>1. OwnerInvariant => RequestFits
  BY DEF OwnerInvariant
<1> QED
  BY <1>1, OwnerInvariantHolds, PTL

-----------------------------------------------------------------------------
(***************************************************************************)
(* The tags, word by word: the colour of the owner on the payload of a     *)
(* live block, none elsewhere.                                             *)
(***************************************************************************)
Owns(b, w) == b + StructSize <= w /\ w < b + size[b]

Tagged ==
    \A w \in Words :
        /\ \A b \in live : Owns(b, w) => wordTag[w] = color[b]
        /\ (\A b \in live : ~Owns(b, w)) => wordTag[w] = NoColor

TagInvariant == OwnerInvariant /\ Tagged

(***************************************************************************)
(* A word belongs to the payload of at most one block in use.              *)
(***************************************************************************)
LEMMA OneOwner ==
    ASSUME NEW list, NEW sz, NEW used, NEW left, Sound(list, sz, used, left),
           NEW b \in used, NEW c \in used, NEW w \in Words,
           b + StructSize <= w, w < b + sz[b],
           c + StructSize <= w, w < c + sz[c]
    PROVE  b = c
<1>1. /\ b \in Nat /\ c \in Nat /\ w \in Nat /\ StructSize \in Nat
      /\ sz[b] \in Nat /\ sz[c] \in Nat
  BY HeapSizeAssumption, AlignAssumption DEF Sound, Addresses, Words, StructSize
<1>2. /\ b < c => b + sz[b] <= c
      /\ c < b => c + sz[c] <= b
  BY DEF Sound, Tiled
<1> QED
  BY <1>1, <1>2

(***************************************************************************)
(* A block ends inside the heap.                                           *)
(***************************************************************************)
LEMMA TiledWithin ==
    ASSUME NEW list, NEW sz, NEW used, NEW left, Sound(list, sz, used, left),
           NEW b \in used
    PROVE  b + sz[b] <= HeapSize
<1>1. /\ b + sz[b] \in ToSet(list) \cup used \cup {HeapSize}
      /\ ToSet(list) \subseteq Addresses /\ used \subseteq Addresses
  BY Listed DEF Sound, Tiled
<1>2. b + sz[b] \in Addresses \/ b + sz[b] = HeapSize
  BY <1>1
<1>3. HeapSize \in Nat /\ \A a \in Addresses : a <= HeapSize
  BY HeapSizeAssumption DEF Addresses
<1> QED
  BY <1>2, <1>3

(***************************************************************************)
(* The words dover_tag and dover_untag cover are the payload of the block: *)
(* for a block with room for its header the subtraction of the header does *)
(* not wrap.                                                               *)
(***************************************************************************)
LEMMA PayloadIsOwned ==
    ASSUME NEW block \in Addresses, NEW s \in Nat, s >= StructSize,
           s <= HeapSize
    PROVE  PayloadWords(block, s) =
              {w \in Words : block + StructSize <= w /\ w < block + s}
<1>1. StructSize \in Nat /\ block \in Nat /\ \A w \in Words : w \in Nat
  BY AlignAssumption, HeapSizeAssumption DEF StructSize, Addresses, Words
<1>2. SizeT(s - StructSize) = s - StructSize
  BY <1>1, HeapSizeAssumption, SizeMaxAssumption DEF SizeT
<1>3. \A w \in Words : w >= block + StructSize <=> block + StructSize <= w
  BY <1>1
<1>4. \A w \in Words : w < block + StructSize + (s - StructSize) <=> w < block + s
  BY <1>1
<1> QED
  BY <1>2, <1>3, <1>4 DEF PayloadWords

(***************************************************************************)
(* malloc and free tag and untag exactly the words whose owner changes.    *)
(***************************************************************************)
LEMMA TagsStill ==
    ASSUME RequestsKeptSmall, TagInvariant, [Next]_vars PROVE Tagged'
<1>1. OwnerInvariant /\ HeapInvariant /\ TypeOK /\ HeapInvariant'
  BY HeapInvariantStep DEF TagInvariant, OwnerInvariant, HeapInvariant
<1>2. \A w \in Words :
        /\ \A b \in live : Owns(b, w) => wordTag[w] = color[b]
        /\ (\A b \in live : ~Owns(b, w)) => wordTag[w] = NoColor
  BY DEF TagInvariant, Tagged
<1>3. ASSUME NEW n \in Requests, Malloc(n) PROVE Tagged'
  <2>1. CASE MallocFails(n)
    BY <1>1, <1>2, <2>1, FailureChangesNothing DEF Tagged, Owns
  <2>2. CASE ~MallocFails(n)
    <3>1. PICK block, s : Handed(n, block, s)
      BY <1>1, <1>3, <2>2, MallocHands
    <3> DEFINE tag == (tagIndex + 1) % MaxColors
    <3>2. /\ block \in Addresses /\ block \notin live /\ s \in Nat
          /\ s >= WantedSize(n) /\ n # 0 /\ s <= HeapSize
          /\ size'[block] = s /\ \A b \in live : size'[b] = size[b]
          /\ live' = live \cup {block}
          /\ color' = [color EXCEPT ![block] = tag]
          /\ wordTag' = [w \in Words |->
                IF w \in PayloadWords(block, s) THEN tag ELSE wordTag[w]]
      BY <3>1 DEF Handed, HandOut, TagWords
    <3> HIDE DEF tag
    <3>3. color'[block] = tag /\ \A b \in live : color'[b] = color[b]
      BY <1>1, <3>2 DEF TypeOK
    <3>4. s >= StructSize
      <4>1. WantedSize(n) >= n + StructSize /\ WantedSize(n) \in Nat
        BY <3>2, WantedFits, WantedIsNat
      <4>2. n \in Nat /\ StructSize \in Nat
        BY RequestsAssumption, AlignAssumption DEF StructSize
      <4> QED
        BY <3>2, <4>1, <4>2
    <3>5. \A w \in Words : /\ Owns(block, w)' <=> w \in PayloadWords(block, s)
                           /\ \A b \in live : Owns(b, w)' <=> Owns(b, w)
      BY <3>2, <3>4, PayloadIsOwned DEF Owns
    <3> SUFFICES ASSUME NEW w \in Words
                 PROVE  /\ \A b \in live' : Owns(b, w)' => wordTag'[w] = color'[b]
                        /\ (\A b \in live' : ~Owns(b, w)') => wordTag'[w] = NoColor
      BY DEF Tagged
    <3>6. CASE Owns(block, w)'
      <4>1. wordTag'[w] = tag
        BY <3>2, <3>5, <3>6
      <4>2. \A b \in live' : Owns(b, w)' => b = block
        <5>1. block \in live'
          BY <3>2
        <5>2. ASSUME NEW b \in live', Owns(b, w)' PROVE b = block
          <6>1. Sound(free', size', live', freeBytes')
            <7>1. initialised'
              BY <1>3, <2>2
              DEF Malloc, MallocFails, MallocWhole, MallocSplit
            <7> QED
              BY <1>1, <7>1 DEF HeapInvariant
          <6>2. /\ block + StructSize <= w /\ w < block + size'[block]
                /\ b + StructSize <= w /\ w < b + size'[b]
            BY <3>6, <5>2 DEF Owns
          <6> QED
            BY <5>1, <6>1, <6>2, OneOwner
        <5> QED
          BY <5>2
      <4> QED
        BY <3>2, <3>3, <3>6, <4>1, <4>2
    <3>7. CASE ~Owns(block, w)'
      <4>1. wordTag'[w] = wordTag[w]
        BY <3>2, <3>5, <3>7
      <4> QED
        BY <1>2, <3>2, <3>3, <3>5, <3>7, <4>1
    <3> QED
      BY <3>6, <3>7
  <2> QED
    BY <2>1, <2>2
<1>4. ASSUME NEW block \in live, Free(block) PROVE Tagged'
  <2>1. /\ live' = live \ {block} /\ size' = size
        /\ color' = [color EXCEPT ![block] = NoColor]
        /\ wordTag' = [w \in Words |->
              IF w \in PayloadWords(block, size[block]) THEN NoColor
              ELSE wordTag[w]]
    BY <1>4 DEF Free, TagWords
  <2>2. \A b \in live' : b \in live /\ b # block /\ color'[b] = color[b]
    BY <1>1, <2>1 DEF TypeOK
  <2>3. /\ block \in Addresses /\ size[block] \in Nat
        /\ size[block] >= StructSize /\ size[block] <= HeapSize
    <3>1. /\ block \in Addresses /\ size[block] \in 0..HeapSize
          /\ asked[block] \in 0..SizeMax
      BY <1>1 DEF TypeOK
    <3>2. size[block] >= StructSize + asked[block]
      BY <1>1 DEF OwnerInvariant, RequestFits
    <3> QED
      BY <3>1, <3>2, HeapSizeAssumption, SizeMaxAssumption, AlignAssumption
      DEF StructSize
  <2>4. \A w \in Words : /\ Owns(block, w) <=> w \in PayloadWords(block, size[block])
                         /\ \A b \in live' : Owns(b, w)' <=> Owns(b, w)
    BY <2>1, <2>3, PayloadIsOwned DEF Owns
  <2> SUFFICES ASSUME NEW w \in Words
               PROVE  /\ \A b \in live' : Owns(b, w)' => wordTag'[w] = color'[b]
                      /\ (\A b \in live' : ~Owns(b, w)') => wordTag'[w] = NoColor
    BY DEF Tagged
  <2>5. CASE Owns(block, w)
    <3>1. wordTag'[w] = NoColor
      BY <2>1, <2>4, <2>5
    <3>2. ASSUME NEW b \in live', Owns(b, w)' PROVE FALSE
      <4>1. Sound(free, size, live, freeBytes)
        BY <1>1 DEF HeapInvariant, Sound
      <4>2. /\ b \in live /\ b # block /\ Owns(b, w)
        BY <2>2, <2>4, <3>2
      <4>3. /\ block + StructSize <= w /\ w < block + size[block]
            /\ b + StructSize <= w /\ w < b + size[b]
        BY <2>5, <4>2 DEF Owns
      <4> QED
        BY <4>1, <4>2, <4>3, OneOwner
    <3> QED
      BY <3>1, <3>2
  <2>6. CASE ~Owns(block, w)
    <3>1. wordTag'[w] = wordTag[w]
      BY <2>1, <2>4, <2>6
    <3>2. \A b \in live : b # block => b \in live'
      BY <2>1
    <3> QED
      BY <1>2, <2>2, <2>4, <2>6, <3>1, <3>2
  <2> QED
    BY <2>5, <2>6
<1>5. CASE UNCHANGED vars
  BY <1>2, <1>5 DEF vars, Tagged, Owns
<1> QED
  BY <1>3, <1>4, <1>5 DEF Next

(***************************************************************************)
(* In every reachable state the tags say who owns which word.              *)
(***************************************************************************)
LEMMA TagInvariantHolds ==
    ASSUME RequestsKeptSmall PROVE Spec => []TagInvariant
<1>1. Init => Tagged
  BY DEF Init, Tagged
<1>2. TagInvariant /\ [Next]_vars => Tagged'
  BY TagsStill
<1> QED
  BY <1>1, <1>2, OwnerInvariantHolds, PTL DEF Spec, TagInvariant

(***************************************************************************)
(* As long as no request wraps size_t, a word carries a colour exactly     *)
(* while it is payload of a live block, and then that of the block's       *)
(* pointer.                                                                *)
(***************************************************************************)
THEOREM TagsAreTheOwners ==
    ASSUME RequestsKeptSmall PROVE Spec => []TagsFollowOwnership
<1>1. TagInvariant => TagsFollowOwnership
  <2> SUFFICES ASSUME TagInvariant, NEW w \in Words
               PROVE  LET owners == {b \in live : b + StructSize <= w
                                                  /\ w < b + size[b]}
                      IN  wordTag[w] = IF owners = {} THEN NoColor
                                       ELSE color[CHOOSE b \in owners : TRUE]
    BY DEF TagsFollowOwnership
  <2> DEFINE owners == {b \in live : b + StructSize <= w /\ w < b + size[b]}
  <2>1. /\ \A b \in owners : wordTag[w] = color[b]
        /\ owners = {} => wordTag[w] = NoColor
    BY DEF TagInvariant, Tagged, Owns
  <2> HIDE DEF owners
  <2>2. wordTag[w] = IF owners = {} THEN NoColor
                     ELSE color[CHOOSE b \in owners : TRUE]
    BY <2>1
  <2> QED
    BY <2>2 DEF owners
<1> QED
  BY <1>1, TagInvariantHolds, PTL

-----------------------------------------------------------------------------
\* The region of the abstract allocator a live block stands for.
Region(b) == [from |-> b + StructSize, to |-> b + size[b]]
Regions == {Region(b) : b \in live}

(***************************************************************************)
(* As long as no request wraps size_t, malloc.c implements the allocator:  *)
(* a malloc that succeeds allocates a region disjoint from all in use, a   *)
(* free releases its own region and no other, and all else is a stutter.   *)
(***************************************************************************)
THEOREM MallocIsAnAllocator ==
    ASSUME RequestsKeptSmall PROVE Spec => ImplementsAllocator
<1>1. Init => Promise!Init
  BY DEF Init, Promise!Init
<1>2. OwnerInvariant /\ OwnerInvariant' /\ [Next]_vars => [Promise!Next]_Regions
  <2> SUFFICES ASSUME OwnerInvariant, OwnerInvariant', [Next]_vars
               PROVE  [Promise!Next]_Regions
    OBVIOUS
  <2>1. HeapInvariant /\ TypeOK /\ HeapInvariant'
    BY DEF OwnerInvariant, HeapInvariant
  <2>2. ASSUME NEW n \in Requests, Malloc(n) PROVE [Promise!Next]_Regions
    <3>1. CASE MallocFails(n)
      <4>1. live' = live /\ \A b \in live : size'[b] = size[b]
        BY <2>1, <3>1, FailureChangesNothing
      <4>2. Regions' = Regions
        BY <4>1 DEF Regions, Region
      <4> QED
        BY <4>2
    <3>2. CASE ~MallocFails(n)
      <4>1. PICK block, s : Handed(n, block, s)
        BY <2>1, <2>2, <3>2, MallocHands
      <4>2. /\ block \in Addresses /\ block \notin live /\ s \in Nat
            /\ size'[block] = s /\ \A b \in live : size'[b] = size[b]
            /\ live' = live \cup {block}
        BY <4>1 DEF Handed, HandOut
      <4>3. Sound(free', size', live', freeBytes')
        <5>1. initialised'
          BY <2>2 DEF Malloc, MallocFails, MallocWhole, MallocSplit
        <5> QED
          BY <2>1, <5>1 DEF HeapInvariant
      <4> DEFINE r == [from |-> block + StructSize, to |-> block + s]
      <4>4. /\ block \in Nat /\ StructSize \in Nat /\ s >= StructSize
            /\ block + s <= HeapSize
        <5>1. block \in Nat /\ StructSize \in Nat
          BY <4>2, HeapSizeAssumption, AlignAssumption DEF StructSize, Addresses
        <5>2. s >= StructSize
          <6>1. size'[block] >= StructSize + asked'[block]
            BY <4>2 DEF OwnerInvariant, RequestFits
          <6>2. asked'[block] \in Nat
            BY <2>1, <4>2, SizeMaxAssumption DEF HeapInvariant, TypeOK
          <6> QED
            BY <4>2, <5>1, <6>1, <6>2
        <5>3. block + s <= HeapSize
          BY <4>2, <4>3, TiledWithin
        <5> QED
          BY <5>1, <5>2, <5>3
      <4>5. r \in [from : 0 .. HeapSize, to : 0 .. HeapSize] /\ r.from <= r.to
        <5>1. block + StructSize \in 0 .. HeapSize /\ block + s \in 0..HeapSize
          BY <4>2, <4>4, HeapSizeAssumption
        <5> QED
          BY <4>2, <4>4, <5>1
      <4>6. ASSUME NEW b \in live
            PROVE  r.to <= Region(b).from \/ Region(b).to <= r.from
        <5>1. /\ b \in live' /\ block \in live' /\ b # block
              /\ size'[b] = size[b] /\ size'[block] = s
          BY <4>2
        <5>2. /\ b < block => b + size'[b] <= block
              /\ block < b => block + size'[block] <= b
          BY <4>3, <5>1 DEF Sound, Tiled
        <5>3. b \in Nat /\ size[b] \in Nat
          BY <2>1, HeapSizeAssumption DEF TypeOK, Addresses
        <5>4. \/ block + s <= b + StructSize
              \/ b + size[b] <= block + StructSize
          BY <4>2, <4>4, <5>1, <5>2, <5>3
        <5> QED
          BY <5>4 DEF Region
      <4>7. Regions' = Regions \cup {r}
        <5>1. \A b \in live : Region(b)' = Region(b)
          BY <4>2 DEF Region
        <5>2. Region(block)' = r
          BY <4>2 DEF Region
        <5> HIDE DEF r
        <5>3. Regions' = {Region(b)' : b \in live \cup {block}}
          BY <4>2 DEF Regions
        <5> QED
          BY <5>1, <5>2, <5>3 DEF Regions
      <4> HIDE DEF r
      <4>8. Promise!Allocate(r)
        BY <4>5, <4>6, <4>7
        DEF Promise!Allocate, Promise!Disjoint, Regions, Region
      <4> QED
        BY <4>5, <4>8 DEF Promise!Next, Promise!Intervals
    <3> QED
      BY <3>1, <3>2
  <2>3. ASSUME NEW block \in live, Free(block) PROVE [Promise!Next]_Regions
    <3>1. live' = live \ {block} /\ size' = size
      BY <2>3 DEF Free
    <3> DEFINE r == Region(block)
    <3>2. \A b \in live : Region(b)' = Region(b) /\ (Region(b) = r => b = block)
      <4>1. \A b \in live : b \in Nat
        BY <2>1, HeapSizeAssumption DEF TypeOK, Addresses
      <4>2. StructSize \in Nat
        BY AlignAssumption DEF StructSize
      <4>3. ASSUME NEW b \in live, Region(b) = r PROVE b = block
        <5>1. Region(b).from = r.from
          BY <4>3
        <5>2. b + StructSize = block + StructSize
          BY <5>1 DEF Region
        <5> QED
          BY <4>1, <4>2, <5>2
      <4> QED
        BY <3>1, <4>3 DEF Region
    <3>3. r \in Regions /\ Regions' = Regions \ {r}
      <4> HIDE DEF r
      <4>1. Regions' = {Region(b)' : b \in live \ {block}}
        BY <3>1 DEF Regions
      <4>2. r = Region(block)
        BY DEF r
      <4> QED
        BY <3>2, <4>1, <4>2 DEF Regions
    <3>4. r \in [from : 0 .. HeapSize, to : 0 .. HeapSize]
      <4>1. /\ block \in Nat /\ StructSize \in Nat /\ size[block] \in Nat
            /\ asked[block] \in Nat
        BY <2>1, HeapSizeAssumption, SizeMaxAssumption, AlignAssumption
        DEF StructSize, Addresses, TypeOK
      <4>2. size[block] >= StructSize + asked[block]
        BY DEF OwnerInvariant, RequestFits
      <4>3. block + size[block] <= HeapSize
        <5>1. Sound(free, size, live, freeBytes)
          BY <2>1 DEF HeapInvariant, Sound
        <5> QED
          BY <5>1, TiledWithin
      <4>4. block + StructSize \in 0..HeapSize /\ block + size[block] \in 0..HeapSize
        BY <4>1, <4>2, <4>3, HeapSizeAssumption
      <4> QED
        BY <4>4 DEF Region
    <3> HIDE DEF r
    <3>5. PICK q \in [from : 0 .. HeapSize, to : 0 .. HeapSize] : q = r
      BY <3>4
    <3>6. Promise!Release(q)
      BY <3>3, <3>5 DEF Promise!Release, Regions, Region
    <3> QED
      BY <3>6 DEF Promise!Next, Promise!Intervals
  <2>4. CASE UNCHANGED vars
    <3>1. Regions' = Regions
      BY <2>4 DEF vars, Regions, Region
    <3> QED
      BY <3>1
  <2> QED
    BY <2>2, <2>3, <2>4 DEF Next
<1> QED
  BY <1>1, <1>2, OwnerInvariantHolds, PTL
  DEF Spec, ImplementsAllocator, Promise!Spec, Regions, Region

-----------------------------------------------------------------------------
\* What BestFit says of one step.
BestFitHere(n) ==
    LET wanted   == WantedSize(n)
        adequate == {b \in ToSet(FreeNow) : SizeNow[b] >= wanted}
    IN  /\ \A b \in live' \ live :
              asked'[b] = n =>
                 /\ b \in adequate
                 /\ \A c \in adequate : SizeNow[b] <= SizeNow[c]
        /\ MallocFails(n) /\ wanted < HeapSize => adequate = {}

(***************************************************************************)
(* As long as no request wraps size_t, malloc serves a request from a      *)
(* smallest block that is large enough, and refuses one that is smaller    *)
(* than the heap only if no block is: first fit in an ordered list is best *)
(* fit. (A request that wraps to 0 is refused although it is small.)       *)
(***************************************************************************)
THEOREM ServesTheBest ==
    ASSUME RequestsKeptSmall PROVE Spec => BestFit
<1>1. HeapInvariant /\ [Next]_vars => [\A n \in Requests \ {0} : BestFitHere(n)]_vars
  <2> SUFFICES ASSUME HeapInvariant, [Next]_vars, NEW n \in Requests \ {0}
               PROVE  BestFitHere(n) \/ UNCHANGED vars
    OBVIOUS
  <2> DEFINE wanted == WantedSize(n)
             i == Found(wanted)
             adequate == {b \in ToSet(FreeNow) : SizeNow[b] >= wanted}
  <2>1. /\ FreeNow \in Seq(Addresses) /\ SizeNow \in [Addresses -> 0..HeapSize]
        /\ Ordered(FreeNow, SizeNow) /\ wanted \in Nat /\ TypeOK
    BY HeapNow, WantedIsNat DEF Sound, HeapInvariant
  <2>2. 0 < wanted
    <3>1. wanted >= n + StructSize /\ n \in Nat /\ StructSize \in Nat /\ n > 0
      BY WantedFits, RequestsAssumption, AlignAssumption DEF StructSize
    <3> HIDE DEF wanted
    <3> QED
      BY <2>1, <3>1
  <2>3. /\ i \in 0..Len(FreeNow)
        /\ i # 0 => /\ SizeNow[FreeNow[i]] >= wanted
                    /\ \A j \in 1..(i - 1) : SizeNow[FreeNow[j]] < wanted
        /\ i = 0 /\ wanted < HeapSize =>
              \A j \in 1..Len(FreeNow) : SizeNow[FreeNow[j]] < wanted
    BY <2>1, <2>2, FoundFits
  <2> HIDE DEF wanted, i
  <2>4. ASSUME MallocFails(n), wanted < HeapSize PROVE adequate = {}
    <3>1. i = 0
      BY <2>4 DEF MallocFails, wanted, i
    <3>2. ASSUME NEW b \in adequate PROVE FALSE
      <4>1. PICK j \in 1..Len(FreeNow) : b = FreeNow[j]
        BY <2>1, Listed
      <4>2. SizeNow[b] < wanted /\ SizeNow[b] \in Nat
        BY <2>1, <2>3, <2>4, <3>1, <4>1, HeapSizeAssumption
      <4> QED
        BY <2>1, <4>2
    <3> QED
      BY <3>2
  <2>5. ASSUME NEW b \in live' \ live, asked'[b] = n
        PROVE  b \in adequate /\ \A c \in adequate : SizeNow[b] <= SizeNow[c]
    <3>1. i # 0 /\ b = FreeNow[i]
      <4>1. PICK m \in Requests : Malloc(m)
        BY <2>5 DEF Next, Free, vars
      <4>2. ~MallocFails(m)
        BY <2>5 DEF MallocFails, userVars
      <4>3. /\ Found(WantedSize(m)) # 0
            /\ \E s : HandOut(m, FreeNow[Found(WantedSize(m))], s)
        BY <4>1, <4>2 DEF Malloc, MallocWhole, MallocSplit
      <4>4. /\ b = FreeNow[Found(WantedSize(m))]
            /\ asked' = [asked EXCEPT ![b] = m]
        BY <2>5, <4>3 DEF HandOut
      <4>5. b \in Addresses
        <5>1. Found(WantedSize(m)) \in 0..Len(FreeNow) /\ WantedSize(m) \in Nat
          BY FoundFits, WantedIsNat
        <5> QED
          BY <2>1, <4>3, <4>4, <5>1
      <4>6. m = n
        BY <2>1, <2>5, <4>4, <4>5 DEF TypeOK
      <4> QED
        BY <4>3, <4>4, <4>6 DEF wanted, i
    <3>2. b \in adequate
      BY <2>1, <2>3, <3>1, Listed
    <3>3. ASSUME NEW c \in adequate PROVE SizeNow[b] <= SizeNow[c]
      <4>1. PICK j \in 1..Len(FreeNow) : c = FreeNow[j]
        BY <2>1, Listed
      <4>2. SizeNow[c] \in Int /\ SizeNow[b] \in Int /\ SizeNow[c] >= wanted
        BY <2>1, <3>2, Listed
      <4>3. ~(j < i)
        BY <2>1, <2>3, <3>1, <4>1, <4>2
      <4>4. j = i \/ i < j
        BY <2>3, <4>3
      <4> QED
        BY <2>1, <2>3, <3>1, <4>1, <4>2, <4>4 DEF Ordered
    <3> QED
      BY <3>2, <3>3
  <2> QED
    BY <2>4, <2>5 DEF BestFitHere, wanted
<1>2. BestFit <=> [][\A n \in Requests \ {0} : BestFitHere(n)]_vars
  BY DEF BestFit, BestFitHere
<1> QED
  BY <1>1, <1>2, HeapInvariantHolds, PTL DEF Spec
=============================================================================
