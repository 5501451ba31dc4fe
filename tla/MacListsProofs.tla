--------------------------- MODULE MacListsProofs ---------------------------
(***************************************************************************)
(* What the list operations of MacLists return, for every list; and what a   *)
(* table of neighbor entries with a list each, as both MAC drivers keep one,  *)
(* owes to an address.                                                       *)
(***************************************************************************)
EXTENDS MacLists, FiniteSets, FiniteSetTheorems, SequenceTheorems, WellFoundedInduction, TLAPS

\* The position IndexOf finds is one of the element.
LEMMA IndexOfFinds ==
  ASSUME NEW s, NEW p, \E i \in 1..Len(s) : s[i] = p
  PROVE  IndexOf(s, p) \in 1..Len(s) /\ s[IndexOf(s, p)] = p
BY DEF IndexOf

\* RemoveAt takes out one position and closes the gap.
LEMMA RemoveAtShifts ==
  ASSUME NEW S, NEW s \in Seq(S), NEW i \in 1..Len(s)
  PROVE  /\ RemoveAt(s, i) \in Seq(S)
         /\ Len(RemoveAt(s, i)) = Len(s) - 1
         /\ \A j \in 1..(Len(s) - 1) :
              RemoveAt(s, i)[j] = IF j < i THEN s[j] ELSE s[j + 1]
<1> DEFINE front == SubSeq(s, 1, i - 1)
           back == SubSeq(s, i + 1, Len(s))
<1>1. front \in Seq(S) /\ Len(front) = i - 1 /\ \A j \in 1..(i - 1) : front[j] = s[j]
  OBVIOUS
<1>2. back \in Seq(S) /\ Len(back) = Len(s) - i
      /\ \A j \in 1..(Len(s) - i) : back[j] = s[i + j]
  OBVIOUS
<1>3. RemoveAt(s, i) = front \o back
  BY DEF RemoveAt
<1> HIDE DEF front, back
<1>4. front \o back \in Seq(S) /\ Len(front \o back) = Len(s) - 1
  BY <1>1, <1>2
<1>5. ASSUME NEW j \in 1..(Len(s) - 1)
      PROVE  (front \o back)[j] = IF j < i THEN s[j] ELSE s[j + 1]
  <2>1. CASE j < i
    BY <1>1, <1>2, <2>1
  <2>2. CASE j >= i
    <3>1. (front \o back)[j] = back[j - Len(front)]
      BY <1>1, <1>2, <2>2
    <3> DEFINE k == j - (i - 1)
    <3>2. k \in 1..(Len(s) - i) /\ i + k = j + 1 /\ k = j - Len(front)
      BY <1>1, <2>2
    <3> HIDE DEF k
    <3>3. back[k] = s[i + k]
      BY <1>2, <3>2
    <3>4. (front \o back)[j] = s[j + 1]
      BY <3>1, <3>2, <3>3
    <3>5. ~(j < i)
      BY <2>2
    <3> QED BY <3>4, <3>5
  <2>3. j < i \/ j >= i
    OBVIOUS
  <2> QED BY <2>1, <2>2, <2>3
<1> QED BY <1>3, <1>4, <1>5

\* list_remove takes exactly one element out of a list without duplicates.
LEMMA ListRemoveTakesOne ==
  ASSUME NEW S, NEW s \in Seq(S), Distinct(s), NEW p \in ToSet(s)
  PROVE  /\ ListRemove(s, p) \in Seq(S)
         /\ Len(ListRemove(s, p)) = Len(s) - 1
         /\ ToSet(ListRemove(s, p)) = ToSet(s) \ {p}
         /\ Distinct(ListRemove(s, p))
<1> DEFINE i == IndexOf(s, p)
           r == RemoveAt(s, i)
<1>1. \E k \in 1..Len(s) : s[k] = p
  BY DEF ToSet
<1>2. i \in 1..Len(s) /\ s[i] = p
  BY <1>1, IndexOfFinds
<1>3. ListRemove(s, p) = r
  BY <1>1 DEF ListRemove
<1> HIDE DEF i
<1>4. /\ r \in Seq(S)
      /\ Len(r) = Len(s) - 1
      /\ \A j \in 1..(Len(s) - 1) : r[j] = IF j < i THEN s[j] ELSE s[j + 1]
  BY <1>2, RemoveAtShifts
<1> HIDE DEF r
<1>5. ASSUME NEW x \in ToSet(r) PROVE x \in ToSet(s) \ {p}
  <2>1. PICK j \in 1..(Len(s) - 1) : x = r[j]
    BY <1>4 DEF ToSet
  <2>2. PICK k \in 1..Len(s) : k /= i /\ x = s[k]
    BY <2>1, <1>2, <1>4
  <2> QED BY <2>2, <1>2 DEF ToSet, Distinct
<1>6. ASSUME NEW x \in ToSet(s) \ {p} PROVE x \in ToSet(r)
  <2>1. PICK k \in 1..Len(s) : x = s[k]
    BY DEF ToSet
  <2>2. k /= i
    BY <2>1, <1>2
  <2>3. CASE k < i
    <3>1. k \in 1..Len(r) /\ r[k] = x
      BY <2>1, <2>3, <1>2, <1>4
    <3> QED BY <3>1, <1>4 DEF ToSet
  <2>4. CASE k > i
    <3>1. k - 1 \in 1..Len(r) /\ r[k - 1] = x
      BY <2>1, <2>4, <1>2, <1>4
    <3> QED BY <3>1, <1>4 DEF ToSet
  <2> QED BY <2>2, <2>3, <2>4, <1>2
<1>7. Distinct(r)
  <2> SUFFICES ASSUME NEW j \in 1..Len(r), NEW k \in 1..Len(r), r[j] = r[k]
               PROVE  j = k
    BY DEF Distinct
  <2> DEFINE old(n) == IF n < i THEN n ELSE n + 1
  <2>1. /\ old(j) \in 1..Len(s) /\ s[old(j)] = r[j]
        /\ old(k) \in 1..Len(s) /\ s[old(k)] = r[k]
    BY <1>2, <1>4
  <2>2. old(j) = old(k)
    BY <2>1 DEF Distinct
  <2> QED BY <2>2, <1>2, <1>4
<1> QED BY <1>3, <1>4, <1>5, <1>6, <1>7

\* list_add and list_push put one new element into a list.
LEMMA AppendAddsOne ==
  ASSUME NEW S, NEW s \in Seq(S), Distinct(s), NEW p \in S, p \notin ToSet(s)
  PROVE  /\ Append(s, p) \in Seq(S)
         /\ Len(Append(s, p)) = Len(s) + 1
         /\ ToSet(Append(s, p)) = ToSet(s) \cup {p}
         /\ Distinct(Append(s, p))
<1> DEFINE r == Append(s, p)
<1>1. /\ r \in Seq(S) /\ Len(r) = Len(s) + 1
      /\ \A j \in 1..Len(s) : r[j] = s[j]
      /\ r[Len(s) + 1] = p
  OBVIOUS
<1> HIDE DEF r
<1>2. \A j \in 1..Len(r) : j \in 1..Len(s) \/ j = Len(s) + 1
  BY <1>1
<1>3. \A x \in ToSet(r) : x \in ToSet(s) \cup {p}
  BY <1>1, <1>2 DEF ToSet
<1>4. \A x \in ToSet(s) : x \in ToSet(r)
  <2> SUFFICES ASSUME NEW j \in 1..Len(s) PROVE s[j] \in ToSet(r)
    BY DEF ToSet
  <2>1. j \in 1..Len(r) /\ r[j] = s[j]
    BY <1>1
  <2> QED BY <2>1, <1>1 DEF ToSet
<1>5. p \in ToSet(r)
  <2>1. Len(s) + 1 \in 1..Len(r)
    BY <1>1
  <2> QED BY <2>1, <1>1 DEF ToSet
<1>6. Distinct(r)
  <2> SUFFICES ASSUME NEW j \in 1..Len(r), NEW k \in 1..Len(r), r[j] = r[k]
               PROVE  j = k
    BY DEF Distinct
  <2>1. \A m \in 1..Len(s) : s[m] \in ToSet(s)
    BY DEF ToSet
  <2>2. CASE j \in 1..Len(s) /\ k \in 1..Len(s)
    BY <1>1, <2>2 DEF Distinct
  <2> QED BY <1>1, <1>2, <2>1, <2>2
<1> QED BY <1>1, <1>3, <1>4, <1>5, <1>6 DEF r

\* Pushing a new element adds it, and only it, at the head.
LEMMA ListPushAddsOne ==
  ASSUME NEW S, NEW s \in Seq(S), Distinct(s), NEW p \in S, p \notin ToSet(s)
  PROVE  /\ ListPush(s, p) \in Seq(S)
         /\ Len(ListPush(s, p)) = Len(s) + 1
         /\ ListPush(s, p)[1] = p
         /\ ToSet(ListPush(s, p)) = ToSet(s) \cup {p}
         /\ Distinct(ListPush(s, p))
<1> DEFINE r == ListPush(s, p)
<1>1. /\ r \in Seq(S) /\ Len(r) = Len(s) + 1
      /\ r[1] = p
      /\ \A j \in 1..Len(s) : r[j + 1] = s[j]
  BY DEF ListPush
<1> HIDE DEF r
<1>2. \A j \in 2..Len(r) : j - 1 \in 1..Len(s) /\ r[j] = s[j - 1]
  BY <1>1
<1>3. \A x \in ToSet(r) : x \in ToSet(s) \cup {p}
  <2> SUFFICES ASSUME NEW j \in 1..Len(r) PROVE r[j] \in ToSet(s) \cup {p}
    BY <1>1 DEF ToSet
  <2>1. j = 1 \/ j \in 2..Len(r)
    BY <1>1
  <2> QED BY <1>1, <1>2, <2>1 DEF ToSet
<1>4. \A x \in ToSet(s) : x \in ToSet(r)
  <2> SUFFICES ASSUME NEW j \in 1..Len(s) PROVE s[j] \in ToSet(r)
    BY DEF ToSet
  <2>1. j + 1 \in 1..Len(r) /\ r[j + 1] = s[j]
    BY <1>1
  <2> QED BY <2>1, <1>1 DEF ToSet
<1>5. p \in ToSet(r)
  <2>1. 1 \in 1..Len(r)
    BY <1>1
  <2> QED BY <2>1, <1>1 DEF ToSet
<1>6. Distinct(r)
  <2> SUFFICES ASSUME NEW j \in 1..Len(r), NEW k \in 1..Len(r), r[j] = r[k]
               PROVE  j = k
    BY DEF Distinct
  <2>1. \A m \in 1..Len(s) : s[m] \in ToSet(s)
    BY DEF ToSet
  <2>2. CASE j \in 2..Len(r) /\ k \in 2..Len(r)
    <3>1. s[j - 1] = s[k - 1] /\ j - 1 \in 1..Len(s) /\ k - 1 \in 1..Len(s)
      BY <1>2, <2>2
    <3>2. j - 1 = k - 1
      BY <3>1 DEF Distinct
    <3> QED BY <3>2
  <2>3. \A m \in 1..Len(r) : m = 1 \/ m \in 2..Len(r)
    BY <1>1
  <2>4. CASE j = 1 /\ k \in 2..Len(r)
    <3>1. r[k] \in ToSet(s) /\ r[j] = p
      BY <1>1, <1>2, <2>1, <2>4
    <3> QED BY <3>1
  <2>5. CASE j \in 2..Len(r) /\ k = 1
    <3>1. r[j] \in ToSet(s) /\ r[k] = p
      BY <1>1, <1>2, <2>1, <2>5
    <3> QED BY <3>1
  <2> QED BY <2>2, <2>3, <2>4, <2>5
<1> QED BY <1>1, <1>3, <1>4, <1>5, <1>6 DEF r

\* list_item_next yields another element of the list, or NULL.
LEMMA ItemNextIsAnother ==
  ASSUME NEW S, NEW s \in Seq(S), Distinct(s), NEW p \in ToSet(s), NEW none
  PROVE  \/ ItemNext(s, p, none) = none
         \/ ItemNext(s, p, none) \in ToSet(s) \ {p}
<1>1. IndexOf(s, p) \in 1..Len(s) /\ s[IndexOf(s, p)] = p
  BY IndexOfFinds DEF ToSet
<1> QED BY <1>1 DEF ItemNext, ToSet, Distinct

\* The first of a list and the one behind it: what list_remove of the head and
\* list_item_next behind the head yield.
LEMMA HeadAndNext ==
  ASSUME NEW S, NEW s \in Seq(S), Distinct(s), s /= <<>>, NEW none
  PROVE  /\ ItemNext(s, s[1], none) = IF Len(s) > 1 THEN s[2] ELSE none
         /\ Len(s) > 1 => ListRemove(s, s[1])[1] = s[2]
<1>1. Len(s) \in Nat \ {0}
  OBVIOUS
<1>2. 1 \in 1..Len(s)
  BY <1>1
<1> DEFINE i == IndexOf(s, s[1])
<1>3. i \in 1..Len(s) /\ s[i] = s[1]
  BY <1>2, IndexOfFinds
<1>4. i = 1
  BY <1>2, <1>3 DEF Distinct
<1>5. ItemNext(s, s[1], none) = IF Len(s) > 1 THEN s[2] ELSE none
  BY <1>4 DEF ItemNext
<1>6. ListRemove(s, s[1]) = RemoveAt(s, 1)
  BY <1>2, <1>4 DEF ListRemove
<1>7. ASSUME Len(s) > 1 PROVE RemoveAt(s, 1)[1] = s[2]
  <2>1. \A j \in 1..(Len(s) - 1) : RemoveAt(s, 1)[j] = IF j < 1 THEN s[j] ELSE s[j + 1]
    BY <1>2, RemoveAtShifts
  <2>2. 1 \in 1..(Len(s) - 1)
    BY <1>1, <1>7
  <2> QED BY <2>1, <2>2
<1> QED BY <1>5, <1>6, <1>7

\* Removing the head leaves the tail.
LEMMA RemoveHeadIsTail ==
  ASSUME NEW S, NEW s \in Seq(S), Distinct(s), s /= <<>>
  PROVE  ListRemove(s, s[1]) = Tail(s)
<1>1. Len(s) \in Nat \ {0} /\ 1 \in 1..Len(s)
  OBVIOUS
<1>2. IndexOf(s, s[1]) = 1
  BY <1>1, IndexOfFinds DEF Distinct
<1>3. ListRemove(s, s[1]) = RemoveAt(s, 1)
  BY <1>1, <1>2 DEF ListRemove
<1> DEFINE r == RemoveAt(s, 1)
<1>4. /\ r \in Seq(S) /\ Len(r) = Len(s) - 1
      /\ \A j \in 1..(Len(s) - 1) : r[j] = IF j < 1 THEN s[j] ELSE s[j + 1]
  BY <1>1, RemoveAtShifts
<1> HIDE DEF r
<1>5. /\ Tail(s) \in Seq(S) /\ Len(Tail(s)) = Len(s) - 1
      /\ \A j \in 1..Len(Tail(s)) : Tail(s)[j] = s[j + 1]
  BY HeadTailProperties
<1>6. \A j \in 1..Len(r) : r[j] = Tail(s)[j]
  <2> SUFFICES ASSUME NEW j \in 1..Len(r) PROVE r[j] = Tail(s)[j]
    OBVIOUS
  <2>1. j \in 1..(Len(s) - 1) /\ j \in 1..Len(Tail(s)) /\ ~(j < 1)
    BY <1>1, <1>4, <1>5
  <2> QED BY <2>1, <1>4, <1>5
<1>7. r = Tail(s)
  BY <1>4, <1>5, <1>6, SeqEqual
<1> QED BY <1>3, <1>7 DEF r

-----------------------------------------------------------------------------
(* Only, by induction over the numbers of a set: the library states induction   *)
(* for an operator, which the provers cannot instantiate, but also that the    *)
(* numbers are well-founded.                                                  *)

\* A set of numbers that is not empty has a least one.
LEMMA LeastNumber ==
  ASSUME NEW T \in SUBSET Nat, T # {}
  PROVE  \E m \in T : \A k \in T : m <= k
<1> DEFINE R == OpToRel(<, Nat)
           Q == {ss \in Nat \X Nat : ss[1] < ss[2]}
<1>1. IsWellFoundedOn(R, Nat)
  BY NatLessThanWellFounded
<1>2. R = Q
  BY DEF OpToRel
<1>3. \A x, y \in Nat : x < y => <<x, y>> \in Q
  OBVIOUS
<1> HIDE DEF R, Q
<1>4. \E x \in T : \A y \in T : ~(<<y, x>> \in R)
  BY <1>1, WFMin
<1>5. PICK x \in T : \A y \in T : ~(<<y, x>> \in Q)
  BY <1>4, <1>2
<1>6. \A y \in T : ~(y < x)
  BY <1>5, <1>3
<1> QED BY <1>5, <1>6

\* Induction: a set with 0, and with the next number of each of its own.
LEMMA NumbersIn ==
  ASSUME NEW G \in SUBSET Nat, 0 \in G, \A n \in G : n + 1 \in G
  PROVE  \A n \in Nat : n \in G
<1> SUFFICES ASSUME Nat \ G /= {} PROVE FALSE
  OBVIOUS
<1> DEFINE T == Nat \ G
<1>1. T \in SUBSET Nat /\ T # {}
  OBVIOUS
<1> HIDE DEF T
<1>2. PICK m \in T : \A k \in T : m <= k
  BY <1>1, LeastNumber
<1>3. m \in Nat /\ m \notin G
  BY <1>2 DEF T
<1>4. m /= 0
  BY <1>3
<1>5. m - 1 \in Nat /\ m - 1 \notin T
  BY <1>2, <1>3, <1>4
<1>6. m - 1 \in G
  BY <1>5 DEF T
<1>7. (m - 1) + 1 = m
  BY <1>3
<1> QED BY <1>3, <1>6, <1>7

\* f is what the definition of Only computes for the prefixes of s of up to n.
Filters(f, s, S, n, T) ==
  /\ f \in [0..n -> Seq(T)]
  /\ f[0] = <<>>
  /\ \A i \in 1..n : f[i] = IF s[i] \in S THEN Append(f[i - 1], s[i]) ELSE f[i - 1]

LEMMA FiltersExist ==
  ASSUME NEW T, NEW s \in Seq(T), NEW S
  PROVE  \A n \in 0..Len(s) : \E f : Filters(f, s, S, n, T)
<1> DEFINE G == {n \in Nat : n <= Len(s) => \E f : Filters(f, s, S, n, T)}
<1>1. 0 \in G
  <2>1. Filters([i \in 0..0 |-> <<>>], s, S, 0, T)
    BY DEF Filters
  <2> QED BY <2>1
<1>2. ASSUME NEW n \in G PROVE n + 1 \in G
  <2> SUFFICES ASSUME n + 1 <= Len(s) PROVE \E f : Filters(f, s, S, n + 1, T)
    OBVIOUS
  <2>0. n \in Nat /\ n + 1 \in 1..Len(s) /\ s[n + 1] \in T
    OBVIOUS
  <2>1. PICK f : Filters(f, s, S, n, T)
    BY <2>0
  <2>2. f[n] \in Seq(T)
    BY <2>0, <2>1 DEF Filters
  <2>3. PICK v \in Seq(T) : v = IF s[n + 1] \in S THEN Append(f[n], s[n + 1]) ELSE f[n]
    BY <2>0, <2>2, AppendProperties
  <2> DEFINE g == [i \in 0..(n + 1) |-> IF i = n + 1 THEN v ELSE f[i]]
  <2>4. g \in [0..(n + 1) -> Seq(T)] /\ g[0] = <<>> /\ g[n + 1] = v /\ \A i \in 0..n : g[i] = f[i]
    <3>1. f \in [0..n -> Seq(T)] /\ f[0] = <<>>
      BY <2>1 DEF Filters
    <3>2. \A i \in 0..(n + 1) : i = n + 1 \/ i \in 0..n
      BY <2>0
    <3>3. \A i \in 0..(n + 1) : (IF i = n + 1 THEN v ELSE f[i]) \in Seq(T)
      BY <3>1, <3>2
    <3>4. \A i \in 0..n : i \in 0..(n + 1) /\ i /= n + 1
      BY <2>0
    <3>5. g[n + 1] = v /\ \A i \in 0..n : g[i] = f[i]
      BY <2>0, <3>4
    <3>6. g[0] = <<>>
      BY <2>0, <3>1, <3>5
    <3> QED BY <3>3, <3>5, <3>6
  <2> HIDE DEF g
  <2>5. ASSUME NEW i \in 1..(n + 1)
        PROVE  g[i] = IF s[i] \in S THEN Append(g[i - 1], s[i]) ELSE g[i - 1]
    <3>1. CASE i = n + 1
      <4>1. i - 1 = n /\ g[i - 1] = f[n]
        BY <2>0, <2>4, <3>1
      <4> QED BY <2>3, <2>4, <3>1, <4>1
    <3>2. CASE i /= n + 1
      <4>1. i \in 1..n /\ i \in 0..n /\ i - 1 \in 0..n
        BY <2>0, <3>2
      <4>2. f[i] = IF s[i] \in S THEN Append(f[i - 1], s[i]) ELSE f[i - 1]
        BY <2>1, <4>1 DEF Filters
      <4> QED BY <2>4, <4>1, <4>2
    <3> QED BY <3>1, <3>2
  <2>6. Filters(g, s, S, n + 1, T)
    BY <2>4, <2>5 DEF Filters
  <2> QED BY <2>6
<1>3. G \in SUBSET Nat
  OBVIOUS
<1> HIDE DEF G
<1>4. \A n \in Nat : n \in G
  BY <1>1, <1>2, <1>3, NumbersIn
<1> QED BY <1>4 DEF G

\* What Only computes, prefix by prefix.
LEMMA OnlyFilters ==
  ASSUME NEW T, NEW s \in Seq(T), NEW S
  PROVE  \E f : Filters(f, s, S, Len(s), T) /\ Only(s, S) = f[Len(s)]
<1> DEFINE step(f) == [i \in 0..Len(s) |->
                         IF i = 0 THEN <<>>
                         ELSE IF s[i] \in S THEN Append(f[i - 1], s[i]) ELSE f[i - 1]]
           F == CHOOSE f : f = step(f)
<1>1. PICK g : Filters(g, s, S, Len(s), T)
  <2>1. Len(s) \in 0..Len(s)
    OBVIOUS
  <2> QED BY <2>1, FiltersExist
<1>2. g = step(g)
  <2>1. g = [i \in 0..Len(s) |-> g[i]]
    BY <1>1 DEF Filters
  <2>2. \A i \in 0..Len(s) : i = 0 \/ i \in 1..Len(s)
    OBVIOUS
  <2>3. \A i \in 0..Len(s) :
          g[i] = IF i = 0 THEN <<>>
                 ELSE IF s[i] \in S THEN Append(g[i - 1], s[i]) ELSE g[i - 1]
    BY <1>1, <2>2 DEF Filters
  <2> QED BY <2>1, <2>3
<1>3. F = step(F)
  <2> HIDE DEF step
  <2> QED BY <1>2
<1>4. Only(s, S) = F[Len(s)]
  BY DEF Only
<1> HIDE DEF F
<1>5. F[0] = <<>> /\ \A i \in 1..Len(s) : F[i] = IF s[i] \in S THEN Append(F[i - 1], s[i]) ELSE F[i - 1]
  <2>1. PICK h : h = step(F)
    OBVIOUS
  <2>2. h[0] = <<>>
    BY <2>1
  <2>3. \A i \in 1..Len(s) : i \in 0..Len(s) /\ i /= 0
    OBVIOUS
  <2>4. \A i \in 1..Len(s) : h[i] = IF s[i] \in S THEN Append(F[i - 1], s[i]) ELSE F[i - 1]
    BY <2>1, <2>3
  <2>5. h = F
    <3> HIDE DEF step
    <3> QED BY <1>3, <2>1
  <2> QED BY <2>2, <2>4, <2>5
<1>6. DOMAIN F = 0..Len(s) /\ F = [i \in 0..Len(s) |-> F[i]]
  <2>1. PICK h : h = step(F)
    OBVIOUS
  <2>2. DOMAIN h = 0..Len(s) /\ h = [i \in 0..Len(s) |-> h[i]]
    BY <2>1
  <2> HIDE DEF step
  <2> QED BY <1>3, <2>1, <2>2
<1>7. \A i \in 0..Len(s) : F[i] = g[i]
  <2> DEFINE G == {i \in Nat : i <= Len(s) => F[i] = g[i]}
  <2>1. 0 \in G
    BY <1>1, <1>5 DEF Filters
  <2>2. ASSUME NEW n \in G PROVE n + 1 \in G
    <3> SUFFICES ASSUME n + 1 <= Len(s) PROVE F[n + 1] = g[n + 1]
      OBVIOUS
    <3>1. n + 1 \in 1..Len(s) /\ (n + 1) - 1 = n /\ F[n] = g[n]
      OBVIOUS
    <3>2. F[n + 1] = IF s[n + 1] \in S THEN Append(F[n], s[n + 1]) ELSE F[n]
      BY <1>5, <3>1
    <3>3. g[n + 1] = IF s[n + 1] \in S THEN Append(g[n], s[n + 1]) ELSE g[n]
      BY <1>1, <3>1 DEF Filters
    <3> QED BY <3>1, <3>2, <3>3
  <2>3. G \in SUBSET Nat
    OBVIOUS
  <2> HIDE DEF G
  <2>4. \A n \in Nat : n \in G
    BY <2>1, <2>2, <2>3, NumbersIn
  <2> QED BY <2>4 DEF G
<1>8. F = g
  <2>1. g = [i \in 0..Len(s) |-> g[i]]
    BY <1>1 DEF Filters
  <2> QED BY <1>6, <1>7, <2>1
<1> QED BY <1>1, <1>4, <1>8

\* An element behind a concatenation is one behind its second part.  The two
\* operations have names here, for the provers to see them as relations.
IsConcat(r, s, t) == r = s \o t
IsAppend(r, s, x) == r = Append(s, x)

LEMMA AppendToConcat ==
  ASSUME NEW T, NEW s \in Seq(T), NEW t \in Seq(T), NEW x \in T,
         NEW u, IsConcat(u, s, t), NEW v, IsAppend(v, t, x)
  PROVE  \E w : IsAppend(w, u, x) /\ IsConcat(w, s, v)
<1>1. <<x>> \in Seq(T) /\ s \o t \in Seq(T)
  OBVIOUS
<1>2. Append(s \o t, x) = (s \o t) \o <<x>> /\ Append(t, x) = t \o <<x>>
  BY <1>1, AppendIsConcat
<1>3. (s \o t) \o <<x>> = s \o (t \o <<x>>)
  BY <1>1, ConcatAssociative
<1> QED BY <1>2, <1>3 DEF IsConcat, IsAppend

\* An element put behind one part stands in front of the other.
LEMMA AppendInFront ==
  ASSUME NEW T, NEW s \in Seq(T), NEW x \in T, NEW t \in Seq(T),
         NEW r, IsAppend(r, s, x), NEW y, IsConcat(y, <<x>>, t)
  PROVE  \E w : IsConcat(w, r, t) /\ IsConcat(w, s, y)
<1>1. <<x>> \in Seq(T)
  OBVIOUS
<1>2. Append(s, x) = s \o <<x>>
  BY AppendIsConcat
<1>3. (s \o <<x>>) \o t = s \o (<<x>> \o t)
  BY <1>1, ConcatAssociative
<1> QED BY <1>2, <1>3 DEF IsAppend, IsConcat

\* The elements of a concatenation, with its lengths named.
Lengths(s, t, n, m) == n = Len(s) /\ m = Len(t)

LEMMA ConcatOf ==
  ASSUME NEW T, NEW s \in Seq(T), NEW t \in Seq(T), NEW r, IsConcat(r, s, t),
         NEW n \in Nat, NEW m \in Nat, Lengths(s, t, n, m)
  PROVE  /\ r \in Seq(T) /\ Len(r) = n + m
         /\ \A i \in 1..(n + m) : r[i] = IF i <= n THEN s[i] ELSE t[i - n]
<1>1. /\ s \o t \in Seq(T) /\ Len(s \o t) = Len(s) + Len(t)
      /\ \A i \in 1..(Len(s) + Len(t)) :
           (s \o t)[i] = IF i <= Len(s) THEN s[i] ELSE t[i - Len(s)]
  BY ConcatProperties
<1> QED BY <1>1 DEF IsConcat, Lengths

\* Taking the first off a concatenation takes it off the first part.
LEMMA TailOfConcat ==
  ASSUME NEW T, NEW s \in Seq(T), NEW t \in Seq(T), s /= <<>>
  PROVE  s \o t /= <<>> /\ Tail(s \o t) = Tail(s) \o t
<1>1. PICK r \in Seq(T) : r = s \o t
  BY ConcatProperties
<1>2. PICK n \in Nat : n = Len(s) /\ n /= 0
  OBVIOUS
<1>3. PICK m \in Nat : m = Len(t)
  OBVIOUS
<1>4. /\ Len(r) = n + m
      /\ \A i \in 1..(n + m) : r[i] = IF i <= n THEN s[i] ELSE t[i - n]
  BY <1>1, <1>2, <1>3, ConcatProperties
<1>5. r /= <<>>
  BY <1>2, <1>4
<1>6. PICK u \in Seq(T) : u = Tail(r)
  BY <1>5, HeadTailProperties
<1>7. Len(u) = n + m - 1 /\ \A i \in 1..(n + m - 1) : u[i] = r[i + 1]
  BY <1>4, <1>5, <1>6, HeadTailProperties
<1>8. PICK v \in Seq(T) : v = Tail(s)
  BY HeadTailProperties
<1>9. Len(v) = n - 1 /\ \A i \in 1..(n - 1) : v[i] = s[i + 1]
  BY <1>2, <1>8, HeadTailProperties
<1>0. PICK k \in Nat : k = n - 1 /\ k = Len(v)
  <2>1. n - 1 \in Nat
    BY <1>2
  <2>2. Len(v) = n - 1
    BY <1>9
  <2> QED BY <2>1, <2>2
<1>10. PICK w \in Seq(T) :
         /\ w = v \o t /\ Len(w) = k + m
         /\ \A i \in 1..(k + m) : w[i] = IF i <= k THEN v[i] ELSE t[i - k]
  <2>1. Lengths(v, t, k, m)
    BY <1>0, <1>3 DEF Lengths
  <2>2. PICK w : IsConcat(w, v, t)
    BY DEF IsConcat
  <2>3. /\ w \in Seq(T) /\ Len(w) = k + m
        /\ \A i \in 1..(k + m) : w[i] = IF i <= k THEN v[i] ELSE t[i - k]
    BY <2>1, <2>2, ConcatOf
  <2> QED BY <2>2, <2>3 DEF IsConcat
<1>11. /\ Len(w) = n - 1 + m
       /\ \A i \in 1..(n - 1 + m) : w[i] = IF i <= n - 1 THEN v[i] ELSE t[i - (n - 1)]
  BY <1>0, <1>10
<1>12. \A i \in 1..(n + m - 1) : u[i] = w[i]
  <2> SUFFICES ASSUME NEW i \in 1..(n + m - 1) PROVE u[i] = w[i]
    OBVIOUS
  <2>1. PICK j \in 1..(n + m) : j = i + 1
    BY <1>2
  <2>2. u[i] = IF j <= n THEN s[j] ELSE t[j - n]
    BY <1>4, <1>7, <2>1
  <2>3. w[i] = IF i <= n - 1 THEN v[i] ELSE t[i - (n - 1)]
    BY <1>2, <1>11
  <2>4. CASE j <= n
    <3>1. i \in 1..(n - 1) /\ i <= n - 1
      BY <1>2, <2>1, <2>4
    <3> QED BY <1>9, <2>1, <2>2, <2>3, <2>4, <3>1
  <2>5. CASE ~(j <= n)
    <3>1. ~(i <= n - 1) /\ i - (n - 1) = j - n
      BY <1>2, <2>1, <2>5
    <3> QED BY <2>2, <2>3, <2>5, <3>1
  <2> QED BY <2>4, <2>5
<1>13. Len(u) = Len(w) /\ \A i \in 1..Len(u) : u[i] = w[i]
  <2>1. Len(u) = n + m - 1
    BY <1>7
  <2>2. Len(w) = n + m - 1
    BY <1>2, <1>11
  <2> QED BY <1>12, <2>1, <2>2
<1>14. u = w
  BY <1>13, SeqEqual
<1> QED BY <1>1, <1>5, <1>6, <1>8, <1>10, <1>14

LEMMA TailOfAppend ==
  ASSUME NEW T, NEW s \in Seq(T), s /= <<>>, NEW x \in T
  PROVE  Tail(Append(s, x)) = Append(Tail(s), x)
<1>1. <<x>> \in Seq(T) /\ Tail(s) \in Seq(T)
  BY HeadTailProperties
<1>2. Append(s, x) = s \o <<x>> /\ Append(Tail(s), x) = Tail(s) \o <<x>>
  BY <1>1, AppendIsConcat
<1>3. Tail(s \o <<x>>) = Tail(s) \o <<x>>
  BY <1>1, TailOfConcat
<1> QED BY <1>2, <1>3

\* Two lists without a common element make one.
LEMMA ConcatOfDistinct ==
  ASSUME NEW T, NEW s \in Seq(T), NEW t \in Seq(T), Distinct(s), Distinct(t),
         ToSet(s) \cap ToSet(t) = {}
  PROVE  /\ s \o t \in Seq(T) /\ Distinct(s \o t)
         /\ ToSet(s \o t) = ToSet(s) \cup ToSet(t)
<1>1. PICK r \in Seq(T) : r = s \o t
  BY ConcatProperties
<1>2. PICK n \in Nat, m \in Nat : n = Len(s) /\ m = Len(t)
  OBVIOUS
<1>4. /\ Len(r) = n + m
      /\ \A i \in 1..(n + m) : r[i] = IF i <= n THEN s[i] ELSE t[i - n]
  BY <1>1, <1>2, ConcatProperties
<1>5. \A i \in 1..n : i \in 1..(n + m) /\ r[i] = s[i] /\ r[i] \in ToSet(s)
  BY <1>2, <1>4 DEF ToSet
<1>6. \A i \in 1..(n + m) : i \in 1..n \/ (i - n \in 1..m /\ r[i] = t[i - n] /\ r[i] \in ToSet(t))
  <2> SUFFICES ASSUME NEW i \in 1..(n + m), i \notin 1..n
               PROVE  i - n \in 1..m /\ r[i] = t[i - n] /\ r[i] \in ToSet(t)
    OBVIOUS
  <2>1. i - n \in 1..m /\ ~(i <= n)
    OBVIOUS
  <2>2. PICK j \in 1..m : j = i - n
    BY <2>1
  <2>3. r[i] = t[j]
    BY <1>4, <2>1, <2>2
  <2>4. t[j] \in ToSet(t)
    BY <1>2 DEF ToSet
  <2> QED BY <2>2, <2>3, <2>4
<1>7. Distinct(r)
  <2> SUFFICES ASSUME NEW i \in 1..(n + m), NEW j \in 1..(n + m), r[i] = r[j] PROVE i = j
    BY <1>4 DEF Distinct
  <2>1. CASE i \in 1..n /\ j \in 1..n
    BY <1>2, <1>5, <2>1 DEF Distinct
  <2>2. CASE i \in 1..n /\ j \notin 1..n
    BY <1>5, <1>6, <2>2
  <2>3. CASE i \notin 1..n /\ j \in 1..n
    BY <1>5, <1>6, <2>3
  <2>4. CASE i \notin 1..n /\ j \notin 1..n
    <3>1. i - n \in 1..m /\ j - n \in 1..m /\ t[i - n] = t[j - n]
      BY <1>6, <2>4
    <3>2. i - n = j - n
      BY <1>2, <3>1 DEF Distinct
    <3> QED BY <3>2
  <2> QED BY <2>1, <2>2, <2>3, <2>4
<1>8. \A x \in ToSet(t) : x \in ToSet(r)
  <2> SUFFICES ASSUME NEW j \in 1..m PROVE t[j] \in ToSet(r)
    BY <1>2 DEF ToSet
  <2>1. PICK i \in 1..(n + m) : i = n + j
    OBVIOUS
  <2>2. ~(i <= n) /\ i - n = j
    BY <2>1
  <2>3. r[i] = t[j]
    BY <1>4, <2>2
  <2>4. i \in 1..Len(r)
    BY <1>4
  <2>5. r[i] \in ToSet(r)
    BY <2>4 DEF ToSet
  <2> QED BY <2>3, <2>5
<1>9. \A x \in ToSet(s) : x \in ToSet(r)
  BY <1>2, <1>4, <1>5 DEF ToSet
<1>10. \A x \in ToSet(r) : x \in ToSet(s) \cup ToSet(t)
  BY <1>4, <1>5, <1>6 DEF ToSet
<1> QED BY <1>1, <1>7, <1>8, <1>9, <1>10

\* A list without duplicates is no longer than the set of its elements.
LEMMA DistinctIsShort ==
  ASSUME NEW S, IsFiniteSet(S), NEW s \in Seq(S), Distinct(s)
  PROVE  Len(s) <= Cardinality(S) /\ Cardinality(S) \in Nat
<1>1. PICK n \in Nat : n = Len(s)
  OBVIOUS
<1>2. s \in [1..n -> S] /\ \A i, j \in 1..n : s[i] = s[j] => i = j
  BY <1>1, LenProperties DEF Distinct
<1>3. s \in Injection(1..n, S)
  BY <1>2 DEF Injection, IsInjective
<1>4. Cardinality(1..n) <= Cardinality(S)
  BY <1>3, FS_Injection
<1>5. Cardinality(1..n) = n
  <2>1. Cardinality(1..n) = IF 1 > n THEN 0 ELSE n - 1 + 1
    BY FS_Interval
  <2> QED BY <2>1
<1> QED BY <1>1, <1>4, <1>5, FS_CardinalityType

\* f goes through the prefixes of s, as the definition of Only does.
Runs(f, s, S, n) ==
  /\ f[0] = <<>>
  /\ \A i \in 1..n : f[i] = IF s[i] \in S THEN Append(f[i - 1], s[i]) ELSE f[i - 1]

\* Only looks at the elements, and at which of them are in S.
LEMMA RunsAgree ==
  ASSUME NEW n \in Nat, NEW f, NEW g, NEW s, NEW t, NEW S, NEW U,
         Runs(f, s, S, n), Runs(g, t, U, n),
         \A i \in 1..n : s[i] = t[i] /\ (s[i] \in S <=> t[i] \in U)
  PROVE  \A i \in 0..n : f[i] = g[i]
<1> DEFINE G == {i \in Nat : i <= n => f[i] = g[i]}
<1>1. 0 \in G
  BY DEF Runs
<1>2. ASSUME NEW m \in G PROVE m + 1 \in G
  <2> SUFFICES ASSUME m + 1 <= n PROVE f[m + 1] = g[m + 1]
    OBVIOUS
  <2>1. m + 1 \in 1..n /\ (m + 1) - 1 = m /\ f[m] = g[m]
    OBVIOUS
  <2>2. f[m + 1] = IF s[m + 1] \in S THEN Append(f[m], s[m + 1]) ELSE f[m]
    BY <2>1 DEF Runs
  <2>3. g[m + 1] = IF t[m + 1] \in U THEN Append(g[m], t[m + 1]) ELSE g[m]
    BY <2>1 DEF Runs
  <2> QED BY <2>1, <2>2, <2>3
<1>3. G \in SUBSET Nat
  OBVIOUS
<1> HIDE DEF G
<1>4. \A i \in Nat : i \in G
  BY <1>1, <1>2, <1>3, NumbersIn
<1> QED BY <1>4 DEF G

LEMMA OnlyRuns ==
  ASSUME NEW T, NEW s \in Seq(T), NEW S
  PROVE  \E f : /\ Runs(f, s, S, Len(s)) /\ Only(s, S) = f[Len(s)]
                /\ \A i \in 0..Len(s) : f[i] \in Seq(T)
<1>1. PICK f : Filters(f, s, S, Len(s), T) /\ Only(s, S) = f[Len(s)]
  BY OnlyFilters
<1>2. \A i \in 0..Len(s) : f[i] \in Seq(T)
  BY <1>1 DEF Filters
<1> QED BY <1>1, <1>2 DEF Filters, Runs

LEMMA OnlyOfEmpty == \A S : Only(<<>>, S) = <<>>
<1> SUFFICES ASSUME NEW S PROVE Only(<<>>, S) = <<>>
  OBVIOUS
<1>1. <<>> \in Seq({}) /\ Len(<<>>) = 0
  OBVIOUS
<1>2. PICK f : Runs(f, <<>>, S, 0) /\ Only(<<>>, S) = f[0]
  BY <1>1, OnlyRuns
<1> QED BY <1>2 DEF Runs

LEMMA OnlySame ==
  ASSUME NEW T, NEW s \in Seq(T), NEW S, NEW U, \A x \in ToSet(s) : x \in S <=> x \in U
  PROVE  Only(s, S) = Only(s, U)
<1>1. PICK f : Runs(f, s, S, Len(s)) /\ Only(s, S) = f[Len(s)]
  BY OnlyRuns
<1>2. PICK g : Runs(g, s, U, Len(s)) /\ Only(s, U) = g[Len(s)]
  BY OnlyRuns
<1>3. \A i \in 1..Len(s) : s[i] = s[i] /\ (s[i] \in S <=> s[i] \in U)
  BY DEF ToSet
<1>4. Len(s) \in Nat /\ Len(s) \in 0..Len(s)
  OBVIOUS
<1>5. \A i \in 0..Len(s) : f[i] = g[i]
  BY <1>1, <1>2, <1>3, <1>4, RunsAgree
<1> QED BY <1>1, <1>2, <1>4, <1>5

LEMMA OnlyOfAppend ==
  ASSUME NEW T, NEW s \in Seq(T), NEW x \in T, NEW S
  PROVE  Only(Append(s, x), S) = IF x \in S THEN Append(Only(s, S), x) ELSE Only(s, S)
<1>1. PICK t \in Seq(T) : t = Append(s, x)
  BY AppendProperties
<1>2. PICK n \in Nat : n = Len(s)
  OBVIOUS
<1>3. /\ Len(t) = n + 1 /\ t[n + 1] = x
      /\ \A i \in 1..n : t[i] = s[i]
  BY <1>1, <1>2, AppendProperties
<1>4. PICK f : Runs(f, s, S, n) /\ Only(s, S) = f[n]
  BY <1>2, OnlyRuns
<1>5. PICK g : Runs(g, t, S, n + 1) /\ Only(t, S) = g[n + 1]
  <2>1. PICK k \in Nat : k = n + 1
    OBVIOUS
  <2>2. k = Len(t)
    BY <1>3, <2>1
  <2>3. PICK g : Runs(g, t, S, k) /\ Only(t, S) = g[k]
    BY <2>2, OnlyRuns
  <2> QED BY <2>1, <2>3
<1>6. Runs(g, t, S, n)
  <2>1. \A i \in 1..n : i \in 1..(n + 1)
    OBVIOUS
  <2> QED BY <1>5, <2>1 DEF Runs
<1>7. g[n] = f[n]
  <2>1. \A i \in 0..n : g[i] = f[i]
    BY <1>3, <1>4, <1>6, RunsAgree
  <2> QED BY <2>1
<1>8. g[n + 1] = IF x \in S THEN Append(g[n], x) ELSE g[n]
  <2>1. n + 1 \in 1..(n + 1) /\ (n + 1) - 1 = n
    OBVIOUS
  <2>2. g[n + 1] = IF t[n + 1] \in S THEN Append(g[n], t[n + 1]) ELSE g[n]
    BY <1>5, <2>1 DEF Runs
  <2> QED BY <1>3, <2>2
<1> QED BY <1>1, <1>4, <1>5, <1>7, <1>8

\* The first element of s comes first, or not at all.
LEMMA OnlyOfTail ==
  ASSUME NEW T, NEW s \in Seq(T), s /= <<>>, NEW S
  PROVE  Only(s, S) = (IF Head(s) \in S THEN <<Head(s)>> ELSE <<>>) \o Only(Tail(s), S)
<1>1. PICK t \in Seq(T) : t = Tail(s)
  BY HeadTailProperties
<1>2. PICK n \in Nat : n = Len(t)
  OBVIOUS
<1>3. Len(s) = n + 1 /\ \A i \in 1..n : t[i] = s[i + 1]
  BY <1>1, <1>2, HeadTailProperties
<1>4. Head(s) = s[1] /\ s[1] \in T
  BY <1>3
<1>5. PICK first \in Seq(T) : first = IF s[1] \in S THEN <<s[1]>> ELSE <<>>
  <2>1. <<s[1]>> \in Seq(T) /\ <<>> \in Seq(T)
    BY <1>4
  <2> QED BY <2>1
<1>6. PICK f : Runs(f, s, S, n + 1) /\ Only(s, S) = f[n + 1]
  <2>1. PICK k \in Nat : k = n + 1
    OBVIOUS
  <2>2. k = Len(s)
    BY <1>3, <2>1
  <2>3. PICK f : Runs(f, s, S, k) /\ Only(s, S) = f[k]
    BY <2>2, OnlyRuns
  <2> QED BY <2>1, <2>3
<1>7. PICK g : /\ Runs(g, t, S, n) /\ Only(t, S) = g[n]
               /\ \A i \in 0..n : g[i] \in Seq(T)
  BY <1>2, OnlyRuns
<1> DEFINE G == {i \in Nat : i <= n => f[i + 1] = first \o g[i]}
<1>8. 0 \in G
  <2>1. f[1] = IF s[1] \in S THEN Append(f[0], s[1]) ELSE f[0]
    <3>1. 1 \in 1..(n + 1) /\ 1 - 1 = 0
      OBVIOUS
    <3> QED BY <1>6, <3>1 DEF Runs
  <2>2. f[0] = <<>> /\ g[0] = <<>>
    BY <1>6, <1>7 DEF Runs
  <2>3. Append(<<>>, s[1]) = <<s[1]>>
    BY <1>4
  <2>4. f[1] = first
    BY <1>5, <2>1, <2>2, <2>3
  <2>5. first \o <<>> = first
    BY ConcatEmptySeq
  <2> QED BY <2>2, <2>4, <2>5
<1>9. ASSUME NEW m \in G PROVE m + 1 \in G
  <2> SUFFICES ASSUME m + 1 <= n PROVE f[(m + 1) + 1] = first \o g[m + 1]
    OBVIOUS
  <2>1. /\ m + 1 \in 1..n /\ (m + 1) - 1 = m /\ m \in 0..n
        /\ (m + 1) + 1 \in 1..(n + 1) /\ ((m + 1) + 1) - 1 = m + 1
    OBVIOUS
  <2>2. PICK x \in T : x = s[(m + 1) + 1]
    BY <1>3, <2>1
  <2>3. t[m + 1] = x
    BY <1>3, <2>1, <2>2
  <2>4. f[(m + 1) + 1] = IF x \in S THEN Append(f[m + 1], x) ELSE f[m + 1]
    BY <1>6, <2>1, <2>2 DEF Runs
  <2>5. g[m + 1] = IF x \in S THEN Append(g[m], x) ELSE g[m]
    BY <1>7, <2>1, <2>3 DEF Runs
  <2>6. f[m + 1] = first \o g[m] /\ g[m] \in Seq(T)
    BY <1>7, <2>1
  <2>7. Append(first \o g[m], x) = first \o Append(g[m], x)
    <3>1. PICK h \in Seq(T) : h = g[m]
      BY <2>6
    <3>2. IsConcat(first \o h, first, h) /\ IsAppend(Append(h, x), h, x)
      BY DEF IsConcat, IsAppend
    <3>3. PICK w : IsAppend(w, first \o h, x) /\ IsConcat(w, first, Append(h, x))
      BY <3>2, AppendToConcat
    <3> QED BY <3>1, <3>3 DEF IsConcat, IsAppend
  <2> QED BY <2>4, <2>5, <2>6, <2>7
<1>10. G \in SUBSET Nat
  OBVIOUS
<1> HIDE DEF G
<1>11. \A i \in Nat : i \in G
  BY <1>8, <1>9, <1>10, NumbersIn
<1>12. f[n + 1] = first \o g[n]
  BY <1>11 DEF G
<1> QED BY <1>1, <1>4, <1>5, <1>6, <1>7, <1>12

\* What is left of a list without duplicates is a list of those that are in S.
LEMMA OnlyKeeps ==
  ASSUME NEW T, NEW s \in Seq(T), Distinct(s), NEW S
  PROVE  /\ Only(s, S) \in Seq(T) /\ Distinct(Only(s, S))
         /\ ToSet(Only(s, S)) = ToSet(s) \cap S
<1>1. PICK n \in Nat : n = Len(s)
  OBVIOUS
<1>2. PICK f : /\ Runs(f, s, S, n) /\ Only(s, S) = f[n]
               /\ \A i \in 0..n : f[i] \in Seq(T)
  BY <1>1, OnlyRuns
<1> DEFINE Upto(i) == {s[k] : k \in 1..i}
           G == {i \in Nat : i <= n => Distinct(f[i]) /\ ToSet(f[i]) = Upto(i) \cap S}
<1>3. 0 \in G
  <2>1. f[0] = <<>>
    BY <1>2 DEF Runs
  <2> QED BY <2>1 DEF Distinct, ToSet
<1>4. ASSUME NEW m \in G PROVE m + 1 \in G
  <2> SUFFICES ASSUME m + 1 <= n
               PROVE  Distinct(f[m + 1]) /\ ToSet(f[m + 1]) = Upto(m + 1) \cap S
    OBVIOUS
  <2>1. m + 1 \in 1..n /\ (m + 1) - 1 = m /\ m \in 0..n
    OBVIOUS
  <2>2. PICK x \in T : x = s[m + 1]
    BY <1>1, <2>1
  <2>3. PICK q \in Seq(T) : q = f[m] /\ Distinct(q) /\ ToSet(q) = Upto(m) \cap S
    BY <1>2, <2>1
  <2>4. f[m + 1] = IF x \in S THEN Append(q, x) ELSE q
    BY <1>2, <2>1, <2>2, <2>3 DEF Runs
  <2>5. \A k \in 1..(m + 1) : k \in 1..m \/ k = m + 1
    OBVIOUS
  <2>6. Upto(m + 1) = Upto(m) \cup {x}
    BY <2>1, <2>2, <2>5
  <2>7. x \notin Upto(m)
    BY <1>1, <2>1, <2>2 DEF Distinct
  <2> HIDE DEF Upto
  <2>8. CASE x \in S
    BY <2>3, <2>4, <2>6, <2>7, <2>8, AppendAddsOne
  <2>9. CASE x \notin S
    BY <2>3, <2>4, <2>6, <2>9
  <2> QED BY <2>8, <2>9
<1>5. G \in SUBSET Nat
  OBVIOUS
<1>6. ToSet(s) = Upto(n)
  BY <1>1 DEF ToSet
<1> HIDE DEF G
<1>7. n \in G
  BY <1>3, <1>4, <1>5, NumbersIn
<1>8. Distinct(f[n]) /\ ToSet(f[n]) = Upto(n) \cap S
  BY <1>7 DEF G
<1> QED BY <1>2, <1>6, <1>8

-----------------------------------------------------------------------------
(* Neighbor entries: B are the blocks, ad their addresses, qu their lists.    *)

\* What the entries owe to each address: the list of its entry, if it has one.
OwedBy(A, B, ad, qu) ==
  [a \in A |-> IF \E b \in B : ad[b] = a
               THEN qu[CHOOSE b \in B : ad[b] = a] ELSE <<>>]

\* An entry is in use while its list holds packets, one for an address.
EntriesOK(A, B, P, none, ad, qu) ==
  /\ none \notin A
  /\ ad \in [B -> A \cup {none}]
  /\ qu \in [B -> Seq(P)]
  /\ \A b \in B : ad[b] = none <=> qu[b] = <<>>
  /\ \A b, c \in B : ad[b] = ad[c] /\ ad[b] /= none => b = c
  /\ \A b, c \in B : b /= c => ToSet(qu[b]) \cap ToSet(qu[c]) = {}
  /\ \A b \in B : Distinct(qu[b])

\* An address is owed the list of its entry, and nothing when it has none.
LEMMA OwedByEntry ==
  ASSUME NEW A, NEW B, NEW P, NEW none, NEW ad, NEW qu, EntriesOK(A, B, P, none, ad, qu)
  PROVE  /\ \A b \in B : ad[b] /= none => OwedBy(A, B, ad, qu)[ad[b]] = qu[b]
         /\ \A a \in A : (\A b \in B : ad[b] /= a) => OwedBy(A, B, ad, qu)[a] = <<>>
<1>1. ASSUME NEW b \in B, ad[b] /= none
      PROVE  OwedBy(A, B, ad, qu)[ad[b]] = qu[b]
  <2>1. ad[b] \in A
    BY <1>1 DEF EntriesOK
  <2>2. (CHOOSE c \in B : ad[c] = ad[b]) = b
    BY <1>1 DEF EntriesOK
  <2> QED BY <2>1, <2>2 DEF OwedBy
<1> QED BY <1>1 DEF OwedBy

\* A step that touches one entry changes what one address is owed.
LEMMA OwedByStep ==
  ASSUME NEW A, NEW B, NEW P, NEW none, NEW ad, NEW qu, NEW ad2, NEW qu2,
         EntriesOK(A, B, P, none, ad, qu), EntriesOK(A, B, P, none, ad2, qu2),
         NEW b \in B, NEW a \in A,
         ad[b] = a \/ (ad[b] = none /\ \A c \in B : ad[c] /= a),
         ad2[b] \in {a, none},
         \A c \in B \ {b} : ad2[c] = ad[c] /\ qu2[c] = qu[c]
  PROVE  /\ OwedBy(A, B, ad, qu)[a] = qu[b]
         /\ OwedBy(A, B, ad2, qu2) = [OwedBy(A, B, ad, qu) EXCEPT ![a] = qu2[b]]
<1>1. a /= none
  BY DEF EntriesOK
<1>2. OwedBy(A, B, ad, qu)[a] = qu[b]
  <2>1. CASE ad[b] = a
    BY <2>1, <1>1, OwedByEntry
  <2>2. CASE ad[b] = none /\ \A c \in B : ad[c] /= a
    <3>1. OwedBy(A, B, ad, qu)[a] = <<>>
      BY <2>2, OwedByEntry
    <3>2. qu[b] = <<>>
      BY <2>2 DEF EntriesOK
    <3> QED BY <3>1, <3>2
  <2> QED BY <2>1, <2>2
<1>3. \A c \in B \ {b} : ad[c] /= a /\ ad2[c] /= a
  BY <1>1 DEF EntriesOK
<1>4. OwedBy(A, B, ad2, qu2)[a] = qu2[b]
  <2>1. CASE ad2[b] = a
    BY <2>1, <1>1, OwedByEntry
  <2>2. CASE ad2[b] = none
    <3>1. \A c \in B : ad2[c] /= a
      BY <2>2, <1>1, <1>3
    <3>2. qu2[b] = <<>>
      BY <2>2 DEF EntriesOK
    <3> QED BY <3>1, <3>2, OwedByEntry
  <2> QED BY <2>1, <2>2
<1>5. ASSUME NEW x \in A, x /= a
      PROVE  OwedBy(A, B, ad2, qu2)[x] = OwedBy(A, B, ad, qu)[x]
  <2>1. x /= none /\ ad[b] /= x /\ ad2[b] /= x
    BY <1>5 DEF EntriesOK
  <2>2. CASE \E c \in B : ad[c] = x
    <3>1. PICK c \in B : ad[c] = x
      BY <2>2
    <3>2. c /= b
      BY <2>1, <3>1
    <3>3. ad2[c] = x /\ qu2[c] = qu[c]
      BY <3>1, <3>2
    <3> QED BY <2>1, <3>1, <3>3, OwedByEntry
  <2>3. CASE \A c \in B : ad[c] /= x
    <3>1. \A c \in B : ad2[c] /= x
      BY <2>1, <2>3
    <3> QED BY <2>3, <3>1, OwedByEntry
  <2> QED BY <2>2, <2>3
<1>6. \A x \in A : OwedBy(A, B, ad2, qu2)[x] = [OwedBy(A, B, ad, qu) EXCEPT ![a] = qu2[b]][x]
  BY <1>4, <1>5 DEF OwedBy
<1> QED BY <1>2, <1>6 DEF OwedBy

\* While an entry is free, fewer addresses are owed something than there are entries.
LEMMA FreeEntryLeaves ==
  ASSUME NEW A, NEW B, NEW P, NEW none, NEW ad, NEW qu, EntriesOK(A, B, P, none, ad, qu),
         IsFiniteSet(B), NEW b \in B, ad[b] = none
  PROVE  Cardinality({a \in A : OwedBy(A, B, ad, qu)[a] /= <<>>}) < Cardinality(B)
<1> DEFINE Open == {a \in A : OwedBy(A, B, ad, qu)[a] /= <<>>}
           entry == [a \in Open |-> CHOOSE c \in B : ad[c] = a]
<1>1. ASSUME NEW a \in Open PROVE entry[a] \in B \ {b} /\ ad[entry[a]] = a
  <2>1. \E c \in B : ad[c] = a
    BY OwedByEntry
  <2>2. entry[a] \in B /\ ad[entry[a]] = a
    BY <2>1
  <2>3. a /= none
    BY DEF EntriesOK
  <2> QED BY <2>2, <2>3
<1>2. entry \in [Open -> B \ {b}]
  BY <1>1
<1>3. \A x, y \in Open : entry[x] = entry[y] => x = y
  BY <1>1
<1> HIDE DEF entry, Open
<1>4. entry \in Injection(Open, B \ {b})
  BY <1>2, <1>3 DEF Injection, IsInjective
<1>5. IsFiniteSet(B \ {b}) /\ Cardinality(B \ {b}) = Cardinality(B) - 1
  BY FS_RemoveElement
<1>6. IsFiniteSet(Open) /\ Cardinality(Open) <= Cardinality(B \ {b})
  BY <1>4, <1>5, FS_Injection
<1>7. Cardinality(Open) \in Nat /\ Cardinality(B) \in Nat
  BY <1>6, FS_CardinalityType
<1>8. Cardinality(Open) < Cardinality(B)
  BY <1>5, <1>6, <1>7
<1> QED BY <1>8 DEF Open

\* No address is owed a packet that no list holds.
LEMMA OwedByHolds ==
  ASSUME NEW A, NEW B, NEW P, NEW none, NEW ad, NEW qu, EntriesOK(A, B, P, none, ad, qu),
         NEW p, \A b \in B : p \notin ToSet(qu[b])
  PROVE  \A a \in A : p \notin ToSet(OwedBy(A, B, ad, qu)[a])
<1> SUFFICES ASSUME NEW a \in A PROVE p \notin ToSet(OwedBy(A, B, ad, qu)[a])
  OBVIOUS
<1>1. CASE \E b \in B : ad[b] = a
  <2>1. PICK b \in B : ad[b] = a
    BY <1>1
  <2>2. OwedBy(A, B, ad, qu)[a] = qu[b]
    BY <2>1, OwedByEntry DEF EntriesOK
  <2> QED BY <2>2
<1>2. CASE \A b \in B : ad[b] /= a
  <2>1. OwedBy(A, B, ad, qu)[a] = <<>>
    BY <1>2, OwedByEntry
  <2> QED BY <2>1 DEF ToSet
<1> QED BY <1>1, <1>2
=============================================================================
