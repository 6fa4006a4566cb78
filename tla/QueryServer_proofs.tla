-------------------------- MODULE QueryServer_proofs -------------------------
(***************************************************************************)
(* Proofs about the answers of find, refs and context, for any graphs,     *)
(* questions, servers and commands.                                        *)
(***************************************************************************)
EXTENDS QueryServer, FiniteSetTheorems, FunctionTheorems, SequenceTheorems,
        WellFoundedInduction, TLAPS

(* Induction and smallest elements, for sets of numbers.                   *)
Smaller == {p \in Nat \X Nat : p[1] < p[2]}

LEMMA SmallerWellFounded == IsWellFoundedOn(Smaller, Nat)
  <1>1. Smaller = OpToRel(<, Nat)
    BY DEF OpToRel, Smaller
  <1> QED
    BY <1>1, NatLessThanWellFounded

LEMMA Least ==
  ASSUME NEW S \in SUBSET Nat, S # {}
  PROVE  \E x \in S : \A y \in S : x <= y
  <1>1. PICK x \in S : \A y \in S : <<y, x>> \notin Smaller
    BY SmallerWellFounded, WFMin
  <1>2. ASSUME NEW y \in S, y < x PROVE FALSE
    <2>1. <<y, x>> \in Nat \X Nat
      OBVIOUS
    <2>2. <<y, x>> \in Smaller
      BY <1>2, <2>1 DEF Smaller
    <2> QED
      BY <1>1, <2>2
  <1> QED
    BY <1>2

LEMMA Induction ==
  ASSUME NEW n \in Nat, NEW S \in SUBSET Nat, 0 \in S,
         \A k \in S : k < n => k + 1 \in S
  PROVE  \A k \in 0..n : k \in S
  <1> DEFINE Bad == {k \in 0..n : k \notin S}
  <1> SUFFICES ASSUME Bad # {} PROVE FALSE
    OBVIOUS
  <1>1. Bad \in SUBSET Nat
    OBVIOUS
  <1>2. PICK k \in Bad : \A j \in Bad : k <= j
    BY <1>1, Least
  <1>3. k - 1 \in 0..n /\ k - 1 \notin Bad
    BY <1>2
  <1> QED
    BY <1>2, <1>3

-----------------------------------------------------------------------------
(* Tuples of numbers of one length are in one order.                       *)
LEMMA BelowIrreflexive ==
  ASSUME NEW a \in Seq(Int)
  PROVE  ~Below(a, a)
  BY DEF Below

LEMMA BelowTransitive ==
  ASSUME NEW m \in Nat, NEW a \in Seq(Int), NEW b \in Seq(Int), NEW c \in Seq(Int),
         Len(a) = m, Len(b) = m, Len(c) = m, Below(a, b), Below(b, c)
  PROVE  Below(a, c)
  <1>1. PICK k \in 1..m : a[k] < b[k] /\ \A l \in 1..k - 1 : a[l] = b[l]
    BY DEF Below
  <1>2. PICK j \in 1..m : b[j] < c[j] /\ \A l \in 1..j - 1 : b[l] = c[l]
    BY DEF Below
  <1>3. DOMAIN a = 1..m /\ \A l \in 1..m : a[l] \in Int /\ b[l] \in Int /\ c[l] \in Int
    OBVIOUS
  <1>4. CASE k <= j
    <2>1. a[k] < c[k] /\ \A l \in 1..k - 1 : a[l] = c[l]
      BY <1>1, <1>2, <1>3, <1>4
    <2> QED
      BY <1>3, <2>1 DEF Below
  <1>5. CASE j < k
    <2>1. a[j] < c[j] /\ \A l \in 1..j - 1 : a[l] = c[l]
      BY <1>1, <1>2, <1>3, <1>5
    <2> QED
      BY <1>3, <2>1 DEF Below
  <1> QED
    BY <1>4, <1>5

LEMMA BelowTotal ==
  ASSUME NEW m \in Nat, NEW a \in Seq(Int), NEW b \in Seq(Int), Len(a) = m, Len(b) = m, a # b
  PROVE  Below(a, b) \/ Below(b, a)
  <1> DEFINE D == {k \in 1..m : a[k] # b[k]}
  <1>1. D # {}
    BY SeqEqual
  <1>2. D \in SUBSET Nat
    OBVIOUS
  <1>3. PICK k \in D : \A j \in D : k <= j
    BY <1>1, <1>2, Least
  <1>4. k \in 1..m /\ a[k] # b[k] /\ \A l \in 1..k - 1 : a[l] = b[l]
    BY <1>3
  <1>5. a[k] \in Int /\ b[k] \in Int /\ DOMAIN a = 1..m /\ DOMAIN b = 1..m
    BY <1>4
  <1>6. CASE a[k] < b[k]
    BY <1>4, <1>5, <1>6 DEF Below
  <1>7. CASE b[k] < a[k]
    BY <1>4, <1>5, <1>7 DEF Below
  <1> QED
    BY <1>4, <1>5, <1>6, <1>7

(* Keys that tell the arguments apart put them in an order: InOrder lists  *)
(* each of them once.                                                      *)
Keys(S, m) ==
  {key \in [S -> Seq(Int)] : /\ \A x \in S : Len(key[x]) = m
                             /\ \A x, y \in S : key[x] = key[y] => x = y}

LEMMA InOrderIs ==
  ASSUME NEW S, IsFiniteSet(S), NEW m \in Nat, NEW key \in Keys(S, m)
  PROVE  InOrder(key) \in Bijection(1..Cardinality(S), S)
  <1> DEFINE n == Cardinality(S)
             before(x) == {y \in S : Below(key[y], key[x])}
             rank == [x \in S |-> Cardinality(before(x))]
  <1>1. /\ key \in [S -> Seq(Int)] /\ DOMAIN key = S /\ \A x \in S : Len(key[x]) = m
        /\ \A x, y \in S : key[x] = key[y] => x = y
    BY DEF Keys
  <1>0. n \in Nat
    BY FS_CardinalityType
  <1>2. n \in Nat /\ IsFiniteSet(0..n - 1) /\ Cardinality(0..n - 1) = n
    <2> HIDE DEF n
    <2>1. n - 1 \in Int
      BY <1>0
    <2>2. IsFiniteSet(0..n - 1) /\ Cardinality(0..n - 1) = IF 0 > n - 1 THEN 0 ELSE (n - 1) - 0 + 1
      BY <2>1, FS_Interval
    <2> QED
      BY <1>0, <2>2
  <1>3. \A x \in S : before(x) \in SUBSET S /\ x \notin before(x)
    BY <1>1, BelowIrreflexive
  <1>4. \A x \in S : IsFiniteSet(before(x)) /\ Cardinality(before(x)) \in Nat
    BY <1>3, FS_Subset, FS_CardinalityType
  <1>5. \A x \in S : rank[x] \in 0..n - 1
    <2> SUFFICES ASSUME NEW x \in S PROVE rank[x] \in 0..n - 1
      OBVIOUS
    <2>1. Cardinality(before(x)) <= n /\ Cardinality(before(x)) # n
      BY <1>3, FS_Subset
    <2> QED
      BY <1>2, <1>4, <2>1
  <1>6. ASSUME NEW x \in S, NEW y \in S, Below(key[x], key[y])
        PROVE  rank[x] < rank[y]
    <2>1. before(x) \in SUBSET before(y)
      <3> SUFFICES ASSUME NEW z \in S, Below(key[z], key[x]) PROVE Below(key[z], key[y])
        OBVIOUS
      <3> QED
        BY <1>1, <1>6, BelowTransitive
    <2>2. x \in before(y)
      BY <1>6
    <2>3. before(x) # before(y)
      BY <1>3, <2>2
    <2>4. Cardinality(before(x)) <= Cardinality(before(y)) /\ Cardinality(before(x)) # Cardinality(before(y))
      BY <1>4, <2>1, <2>3, FS_Subset
    <2>5. rank[x] = Cardinality(before(x)) /\ rank[y] = Cardinality(before(y))
      OBVIOUS
    <2>6. Cardinality(before(x)) \in Nat /\ Cardinality(before(y)) \in Nat
      BY <1>4
    <2> HIDE DEF before, rank
    <2> QED
      BY <2>4, <2>5, <2>6
  <1>7. rank \in Injection(S, 0..n - 1)
    <2>1. rank \in [S -> 0..n - 1]
      BY <1>5
    <2>2. ASSUME NEW x \in S, NEW y \in S, x # y PROVE rank[x] # rank[y]
      <3>1. Below(key[x], key[y]) \/ Below(key[y], key[x])
        BY <1>1, <2>2, BelowTotal
      <3>2. rank[x] < rank[y] \/ rank[y] < rank[x]
        BY <1>6, <3>1
      <3>3. rank[x] \in 0..n - 1 /\ rank[y] \in 0..n - 1
        BY <1>5
      <3> HIDE DEF rank
      <3> QED
        BY <1>2, <3>2, <3>3
    <2> QED
      BY <2>1, <2>2 DEF Injection, IsInjective
  <1>8. rank \in Surjection(S, 0..n - 1)
    <2> HIDE DEF rank
    <2> QED
      BY <1>2, <1>7, FS_Injection
  <1>9. InOrder(key) = [i \in 1..n |-> CHOOSE x \in S : Cardinality(before(x)) = i - 1]
    BY <1>1 DEF InOrder
  <1>10. \A i \in 1..n : \E x \in S : Cardinality(before(x)) = i - 1
    <2>1. \A x \in S : rank[x] = Cardinality(before(x))
      OBVIOUS
    <2> HIDE DEF before, rank
    <2>2. \A i \in 1..n : i - 1 \in 0..n - 1
      BY <1>2
    <2> QED
      BY <1>8, <2>1, <2>2 DEF Surjection
  <1>a. \A i \in 1..n : InOrder(key)[i] \in S /\ Cardinality(before(InOrder(key)[i])) = i - 1
    <2> HIDE DEF before, rank
    <2> QED
      BY <1>9, <1>10
  <1>b. \A x \in S : rank[x] = Cardinality(before(x))
    OBVIOUS
  <1> HIDE DEF rank, before
  <1>11. \A i \in 1..n : InOrder(key)[i] \in S /\ rank[InOrder(key)[i]] = i - 1
    BY <1>a, <1>b
  <1>12. InOrder(key) \in [1..n -> S]
    BY <1>9, <1>11
  <1>13. \A i, j \in 1..n : InOrder(key)[i] = InOrder(key)[j] => i = j
    BY <1>2, <1>11
  <1>14. \A x \in S : \E i \in 1..n : InOrder(key)[i] = x
    <2> SUFFICES ASSUME NEW x \in S PROVE \E i \in 1..n : InOrder(key)[i] = x
      OBVIOUS
    <2>1. rank[x] \in 0..n - 1
      BY <1>7 DEF Injection
    <2>2. rank[x] + 1 \in 1..n
      BY <1>2, <2>1
    <2>3. rank[InOrder(key)[rank[x] + 1]] = rank[x] /\ InOrder(key)[rank[x] + 1] \in S
      BY <1>11, <2>1, <2>2
    <2>4. InOrder(key)[rank[x] + 1] = x
      BY <1>7, <2>3 DEF Injection, IsInjective
    <2> QED
      BY <2>2, <2>4
  <1> HIDE DEF n
  <1> QED
    BY <1>12, <1>13, <1>14 DEF Bijection, Injection, Surjection, IsInjective, n

-----------------------------------------------------------------------------
Elements(seq, places) == {seq[i] : i \in places}

(* A sequence that has the elements of another at some places, each once.  *)
Arranged(out, seq, places) ==
  \E f \in Bijection(1..Cardinality(places), places) :
    out = [k \in 1..Cardinality(places) |-> seq[f[k]]]

LEMMA IntervalFinite ==
  ASSUME NEW n \in Nat
  PROVE  IsFiniteSet(1..n) /\ Cardinality(1..n) = n
  <1>1. IsFiniteSet(1..n) /\ Cardinality(1..n) = IF 1 > n THEN 0 ELSE n - 1 + 1
    BY FS_Interval
  <1> QED
    BY <1>1

LEMMA PlacesFinite ==
  ASSUME NEW X, NEW seq \in Seq(X), NEW places \in SUBSET DOMAIN seq
  PROVE  IsFiniteSet(places) /\ Cardinality(places) \in Nat
  <1>1. Len(seq) \in Nat /\ DOMAIN seq = 1..Len(seq)
    OBVIOUS
  <1>2. IsFiniteSet(DOMAIN seq)
    BY <1>1, IntervalFinite
  <1> QED
    BY <1>2, FS_Subset, FS_CardinalityType

LEMMA ArrangedIs ==
  ASSUME NEW X, NEW seq \in Seq(X), NEW places \in SUBSET DOMAIN seq, NEW out,
         Arranged(out, seq, places)
  PROVE  /\ out \in Seq(X) /\ Len(out) = Cardinality(places)
         /\ DOMAIN out = 1..Cardinality(places)
         /\ IsFiniteSet(places) /\ Cardinality(places) \in Nat
         /\ ToSet(out) = Elements(seq, places)
  <1> DEFINE n == Cardinality(places)
  <1>1. PICK f \in Bijection(1..n, places) : out = [k \in 1..n |-> seq[f[k]]]
    BY DEF Arranged
  <1>2. Len(seq) \in Nat /\ DOMAIN seq = 1..Len(seq) /\ \A i \in places : seq[i] \in X
    OBVIOUS
  <1>3. IsFiniteSet(places) /\ n \in Nat
    BY PlacesFinite
  <1> HIDE DEF n
  <1>4. f \in [1..n -> places] /\ \A i \in places : \E k \in 1..n : f[k] = i
    BY <1>1 DEF Bijection, Surjection
  <1>5. out \in [1..n -> X]
    BY <1>1, <1>2, <1>4
  <1>6. out \in Seq(X) /\ Len(out) = n /\ DOMAIN out = 1..n
    BY <1>3, <1>5
  <1>7. ToSet(out) = Elements(seq, places)
    BY <1>1, <1>4, <1>6 DEF ToSet, Elements
  <1> QED
    BY <1>3, <1>6, <1>7 DEF n

(* How many of a sequence's elements at some places are in T.              *)
CountAt(seq, places, T) == Cardinality({i \in places : seq[i] \in T})

LEMMA ArrangedCount ==
  ASSUME NEW X, NEW seq \in Seq(X), NEW places \in SUBSET DOMAIN seq, NEW out,
         Arranged(out, seq, places), NEW T
  PROVE  CountAt(out, DOMAIN out, T) = CountAt(seq, places, T)
  <1> DEFINE n == Cardinality(places)
             K == {k \in 1..n : out[k] \in T}
             I == {i \in places : seq[i] \in T}
  <1>1. PICK f \in Bijection(1..n, places) : out = [k \in 1..n |-> seq[f[k]]]
    BY DEF Arranged
  <1>2. DOMAIN out = 1..n /\ IsFiniteSet(places) /\ n \in Nat
    BY ArrangedIs
  <1>3. IsFiniteSet(K) /\ IsFiniteSet(I)
    <2>1. IsFiniteSet(1..n) /\ K \in SUBSET (1..n) /\ I \in SUBSET places
      BY <1>2, IntervalFinite
    <2> HIDE DEF K, I
    <2> QED
      BY <1>2, <2>1, FS_Subset
  <1> HIDE DEF n
  <1> DEFINE h == [k \in K |-> f[k]]
  <1>4. /\ f \in [1..n -> places] /\ \A i \in places : \E k \in 1..n : f[k] = i
        /\ \A j, k \in 1..n : f[j] = f[k] => j = k
    BY <1>1 DEF Bijection, Surjection, Injection, IsInjective
  <1>5. \A k \in 1..n : out[k] = seq[f[k]]
    BY <1>1
  <1>6. h \in [K -> I] /\ \A i \in I : \E k \in K : h[k] = i
    BY <1>4, <1>5
  <1>7. \A j, k \in K : h[j] = h[k] => j = k
    BY <1>4
  <1> HIDE DEF h, K, I
  <1>8. h \in Bijection(K, I)
    BY <1>6, <1>7 DEF Bijection, Surjection, Injection, IsInjective
  <1>9. ExistsBijection(K, I)
    BY <1>8 DEF ExistsBijection
  <1>10. Cardinality(I) = Cardinality(K)
    BY <1>3, <1>9, FS_Bijection
  <1> QED
    BY <1>2, <1>10 DEF K, I, CountAt

LEMMA PickedIs ==
  ASSUME NEW seq, NEW places \in SUBSET Int, IsFiniteSet(places)
  PROVE  Arranged(Picked(seq, places), seq, places)
  <1> DEFINE key == [i \in places |-> << i >>]
             order == InOrder(key)
  <1>1. \A i \in places : << i >> \in Seq(Int) /\ Len(<< i >>) = 1 /\ << i >>[1] = i
    OBVIOUS
  <1>2. key \in [places -> Seq(Int)] /\ \A i \in places : Len(key[i]) = 1 /\ key[i][1] = i
    BY <1>1
  <1> HIDE DEF key
  <1>3. key \in Keys(places, 1)
    BY <1>2 DEF Keys
  <1>4. order \in Bijection(1..Cardinality(places), places)
    BY <1>3, InOrderIs
  <1>5. DOMAIN order = 1..Cardinality(places)
    BY <1>4 DEF Bijection, Injection
  <1>6. Picked(seq, places) = [k \in DOMAIN order |-> seq[order[k]]]
    BY DEF Picked, key
  <1> HIDE DEF order
  <1> QED
    BY <1>4, <1>5, <1>6 DEF Arranged

(* The same, of places in the sequence.                                    *)
LEMMA PickedAre ==
  ASSUME NEW X, NEW seq \in Seq(X), NEW places \in SUBSET DOMAIN seq
  PROVE  /\ Arranged(Picked(seq, places), seq, places)
         /\ Picked(seq, places) \in Seq(X)
         /\ Len(Picked(seq, places)) = Cardinality(places)
         /\ ToSet(Picked(seq, places)) = Elements(seq, places)
  <1>1. Len(seq) \in Nat /\ DOMAIN seq = 1..Len(seq) /\ places \in SUBSET Int
    OBVIOUS
  <1>2. IsFiniteSet(places)
    BY PlacesFinite
  <1>3. Arranged(Picked(seq, places), seq, places)
    BY <1>1, <1>2, PickedIs
  <1> QED
    BY <1>3, ArrangedIs

LEMMA PermutedIs ==
  ASSUME NEW X, NEW seq \in Seq(X), NEW out, Arranged(out, seq, DOMAIN seq)
  PROVE  out \in Seq(X) /\ Len(out) = Len(seq) /\ ToSet(out) = ToSet(seq)
  <1> DEFINE places == DOMAIN seq
  <1>1. places \in SUBSET DOMAIN seq /\ Arranged(out, seq, places)
    OBVIOUS
  <1>2. Cardinality(places) = Len(seq)
    BY IntervalFinite
  <1>3. ToSet(seq) = Elements(seq, places)
    BY DEF ToSet, Elements
  <1> HIDE DEF places
  <1>4. out \in Seq(X) /\ Len(out) = Cardinality(places) /\ ToSet(out) = Elements(seq, places)
    BY <1>1, ArrangedIs
  <1> QED
    BY <1>2, <1>3, <1>4

LEMMA TakeIs ==
  ASSUME NEW X, NEW seq \in Seq(X), NEW n \in Nat
  PROVE  /\ Take(seq, n) \in Seq(X)
         /\ Len(Take(seq, n)) \in Nat /\ Len(Take(seq, n)) <= n /\ Len(Take(seq, n)) <= Len(seq)
         /\ \A i \in DOMAIN Take(seq, n) : i \in DOMAIN seq /\ Take(seq, n)[i] = seq[i]
         /\ Len(Take(seq, n)) = Len(seq) => Take(seq, n) = seq
  <1> DEFINE m == IF n < Len(seq) THEN n ELSE Len(seq)
  <1>1. m \in 0..Len(seq) /\ m <= n /\ m <= Len(seq) /\ Len(seq) \in Nat
    OBVIOUS
  <1> HIDE DEF m
  <1>2. SubSeq(seq, 1, m) \in Seq(X) /\ Len(SubSeq(seq, 1, m)) = m
    BY <1>1
  <1>3. \A i \in 1..m : i \in 1..Len(seq) /\ SubSeq(seq, 1, m)[i] = seq[i]
    BY <1>1
  <1>4. m = Len(seq) => SubSeq(seq, 1, m) = seq
    BY <1>2, <1>3, SeqEqual
  <1>5. Take(seq, n) = SubSeq(seq, 1, m)
    BY DEF Take, m
  <1> QED
    BY <1>1, <1>2, <1>3, <1>4, <1>5

LEMMA ConcatIs ==
  ASSUME NEW X, NEW a \in Seq(X), NEW b \in Seq(X)
  PROVE  /\ a \o b \in Seq(X) /\ Len(a \o b) = Len(a) + Len(b)
         /\ DOMAIN (a \o b) = 1..Len(a) + Len(b)
         /\ \A i \in 1..Len(a) : (a \o b)[i] = a[i]
         /\ \A i \in 1..Len(b) : (a \o b)[Len(a) + i] = b[i]
         /\ ToSet(a \o b) = ToSet(a) \union ToSet(b)
  <1> DEFINE c == a \o b
  <1>1. Len(a) \in Nat /\ Len(b) \in Nat /\ DOMAIN a = 1..Len(a) /\ DOMAIN b = 1..Len(b)
    OBVIOUS
  <1>2. c \in Seq(X) /\ Len(c) = Len(a) + Len(b) /\ DOMAIN c = 1..Len(a) + Len(b)
    OBVIOUS
  <1>3. \A i \in 1..Len(a) : c[i] = a[i]
    OBVIOUS
  <1>4. \A i \in 1..Len(b) : c[Len(a) + i] = b[i]
    OBVIOUS
  <1> HIDE DEF c
  <1>5. ToSet(c) = ToSet(a) \union ToSet(b)
    <2>1. ASSUME NEW i \in 1..Len(a) + Len(b) PROVE c[i] \in ToSet(a) \union ToSet(b)
      <3>1. CASE i <= Len(a)
        BY <1>1, <1>3, <3>1 DEF ToSet
      <3>2. CASE i > Len(a)
        <4>1. i - Len(a) \in 1..Len(b) /\ i = Len(a) + (i - Len(a))
          BY <1>1, <3>2
        <4>2. c[i] = b[i - Len(a)]
          BY <1>4, <4>1
        <4> QED
          BY <1>1, <4>1, <4>2 DEF ToSet
      <3> QED
        BY <1>1, <3>1, <3>2
    <2>2. ASSUME NEW i \in 1..Len(a) PROVE a[i] \in ToSet(c)
      <3>1. i \in 1..Len(a) + Len(b)
        BY <1>1
      <3> QED
        BY <1>2, <1>3, <3>1 DEF ToSet
    <2>3. ASSUME NEW i \in 1..Len(b) PROVE b[i] \in ToSet(c)
      <3>1. Len(a) + i \in 1..Len(a) + Len(b)
        BY <1>1
      <3> QED
        BY <1>2, <1>4, <3>1 DEF ToSet
    <2>4. \A x : x \in ToSet(c) => x \in ToSet(a) \union ToSet(b)
      BY <1>2, <2>1 DEF ToSet
    <2>5. \A x : x \in ToSet(a) \union ToSet(b) => x \in ToSet(c)
      <3> HIDE DEF ToSet
      <3>1. ToSet(a) = {a[i] : i \in 1..Len(a)} /\ ToSet(b) = {b[i] : i \in 1..Len(b)}
        BY <1>1 DEF ToSet
      <3> QED
        BY <2>2, <2>3, <3>1
    <2> QED
      BY <2>4, <2>5
  <1> QED
    BY <1>2, <1>3, <1>4, <1>5 DEF c

LEMMA ConcatCount ==
  ASSUME NEW X, NEW a \in Seq(X), NEW b \in Seq(X), NEW T
  PROVE  CountAt(a \o b, DOMAIN (a \o b), T) = CountAt(a, DOMAIN a, T) + CountAt(b, DOMAIN b, T)
  <1> DEFINE c == a \o b
             A == {i \in 1..Len(a) : a[i] \in T}
             B == {i \in 1..Len(b) : b[i] \in T}
             C == {i \in 1..Len(a) + Len(b) : c[i] \in T}
             D == {i \in C : i > Len(a)}
             h == [i \in B |-> Len(a) + i]
  <1>1. Len(a) \in Nat /\ Len(b) \in Nat /\ DOMAIN a = 1..Len(a) /\ DOMAIN b = 1..Len(b)
    OBVIOUS
  <1>2. /\ DOMAIN c = 1..Len(a) + Len(b) /\ \A i \in 1..Len(a) : c[i] = a[i]
        /\ \A i \in 1..Len(b) : c[Len(a) + i] = b[i]
    BY ConcatIs
  <1> HIDE DEF c
  <1>3. IsFiniteSet(A) /\ Cardinality(A) \in Nat /\ IsFiniteSet(B) /\ Cardinality(B) \in Nat
    BY <1>1, PlacesFinite
  <1>4. h \in [B -> D] /\ \A i, j \in B : h[i] = h[j] => i = j
    <2>1. \A i \in B : Len(a) + i \in D
      BY <1>1, <1>2
    <2> QED
      BY <1>1, <2>1
  <1>5. \A i \in D : \E j \in B : h[j] = i
    <2> SUFFICES ASSUME NEW i \in 1..Len(a) + Len(b), c[i] \in T, i > Len(a)
                 PROVE  \E j \in B : h[j] = i
      OBVIOUS
    <2>1. i - Len(a) \in 1..Len(b) /\ i = Len(a) + (i - Len(a))
      BY <1>1
    <2>2. i - Len(a) \in B
      BY <1>2, <2>1
    <2> QED
      BY <2>1, <2>2
  <1>6. C = A \union D /\ A \intersect D = {}
    BY <1>1, <1>2
  <1> HIDE DEF A, B, C, D, h
  <1>7. ExistsBijection(B, D)
    BY <1>4, <1>5 DEF ExistsBijection, Bijection, Injection, Surjection, IsInjective
  <1>8. IsFiniteSet(D) /\ Cardinality(D) = Cardinality(B)
    BY <1>3, <1>7, FS_Bijection
  <1>9. Cardinality(C) = Cardinality(A) + Cardinality(D) - Cardinality({})
    BY <1>3, <1>6, <1>8, FS_Union
  <1>10. Cardinality(C) = Cardinality(A) + Cardinality(B)
    BY <1>3, <1>8, <1>9, FS_EmptySet
  <1> QED
    BY <1>1, <1>2, <1>10 DEF A, B, C, c, CountAt

-----------------------------------------------------------------------------
(* The edges of a node.  Near and Far are the ends of an edge that a row   *)
(* in a direction is from and to.                                          *)
Near(e, dir) == IF dir = "outgoing" THEN e.source ELSE e.target
Far(e, dir) == IF dir = "outgoing" THEN e.target ELSE e.source
EdgesOf(g, n, dir) == IF dir = "outgoing" THEN Outs(g, n) ELSE Ins(g, n)
PlacesOf(g, n, dir) == {i \in DOMAIN g.edges : Near(g.edges[i], dir) = n}

(* How many edges of a graph have this end, this relation and another end  *)
(* in T.                                                                   *)
EdgeCount(g, n, dir, r, T) ==
  Cardinality({i \in DOMAIN g.edges : /\ Near(g.edges[i], dir) = n
                                      /\ g.edges[i].relation = r /\ Far(g.edges[i], dir) \in T})

EdgeRows ==
  [direction : Directions, relation : Relations, other : Nodes, from : Nodes, depth : Nat]

LEMMA EdgesOfIs ==
  ASSUME NEW g \in Graphs, NEW n, NEW dir \in Directions
  PROVE  /\ Arranged(EdgesOf(g, n, dir), g.edges, PlacesOf(g, n, dir))
         /\ EdgesOf(g, n, dir) \in Seq(Edges)
         /\ ToSet(EdgesOf(g, n, dir)) = {e \in ToSet(g.edges) : Near(e, dir) = n}
  <1>1. g.edges \in Seq(Edges)
    BY DEF Graphs
  <1>2. EdgesOf(g, n, dir) = Picked(g.edges, PlacesOf(g, n, dir))
    <2>1. CASE dir = "outgoing"
      BY <2>1 DEF EdgesOf, PlacesOf, Outs, Near
    <2>2. CASE dir = "incoming"
      BY <2>2 DEF EdgesOf, PlacesOf, Ins, Near
    <2> QED
      BY <2>1, <2>2 DEF Directions
  <1>3. PlacesOf(g, n, dir) \in SUBSET DOMAIN g.edges
    BY DEF PlacesOf
  <1>4. /\ Arranged(EdgesOf(g, n, dir), g.edges, PlacesOf(g, n, dir))
        /\ EdgesOf(g, n, dir) \in Seq(Edges)
        /\ ToSet(EdgesOf(g, n, dir)) = Elements(g.edges, PlacesOf(g, n, dir))
    BY <1>1, <1>2, <1>3, PickedAre
  <1>5. Elements(g.edges, PlacesOf(g, n, dir)) = {e \in ToSet(g.edges) : Near(e, dir) = n}
    BY DEF PlacesOf, ToSet, Elements
  <1> QED
    BY <1>4, <1>5

LEMMA EdgesOfCount ==
  ASSUME NEW g \in Graphs, NEW n, NEW dir \in Directions, NEW r, NEW T
  PROVE  Cardinality({k \in DOMAIN EdgesOf(g, n, dir) :
           EdgesOf(g, n, dir)[k].relation = r /\ Far(EdgesOf(g, n, dir)[k], dir) \in T})
             = EdgeCount(g, n, dir, r, T)
  <1> DEFINE es == EdgesOf(g, n, dir)
             E == {e \in Edges : e.relation = r /\ Far(e, dir) \in T}
  <1>1. g.edges \in Seq(Edges) /\ PlacesOf(g, n, dir) \in SUBSET DOMAIN g.edges
    BY DEF Graphs, PlacesOf
  <1>2. Arranged(es, g.edges, PlacesOf(g, n, dir)) /\ es \in Seq(Edges)
    BY EdgesOfIs
  <1> HIDE DEF es
  <1>3. Cardinality({k \in DOMAIN es : es[k] \in E}) = Cardinality({i \in PlacesOf(g, n, dir) : g.edges[i] \in E})
    <2>1. CountAt(es, DOMAIN es, E) = CountAt(g.edges, PlacesOf(g, n, dir), E)
      BY <1>1, <1>2, ArrangedCount
    <2> QED
      BY <2>1 DEF CountAt
  <1>4. {k \in DOMAIN es : es[k] \in E} = {k \in DOMAIN es : es[k].relation = r /\ Far(es[k], dir) \in T}
    <2>1. \A k \in DOMAIN es : es[k] \in Edges
      BY <1>2
    <2> QED
      BY <2>1
  <1>5. {i \in PlacesOf(g, n, dir) : g.edges[i] \in E}
          = {i \in DOMAIN g.edges : /\ Near(g.edges[i], dir) = n
                                    /\ g.edges[i].relation = r /\ Far(g.edges[i], dir) \in T}
    <2>1. \A i \in DOMAIN g.edges : g.edges[i] \in Edges
      BY <1>1
    <2> QED
      BY <2>1 DEF PlacesOf
  <1> HIDE DEF E
  <1> QED
    BY <1>3, <1>4, <1>5 DEF EdgeCount, es

LEMMA RowsAre ==
  ASSUME NEW g \in Graphs, NEW n \in Nodes, NEW dir \in Directions, NEW level \in Nat
  PROVE  LET rows == Rows(g, n, dir, level) IN
         /\ rows \in Seq(EdgeRows) /\ DOMAIN rows = DOMAIN EdgesOf(g, n, dir)
         /\ \A i \in DOMAIN rows :
              /\ rows[i].direction = dir /\ rows[i].from = n /\ rows[i].depth = level
              /\ rows[i].relation = EdgesOf(g, n, dir)[i].relation
              /\ rows[i].other = Far(EdgesOf(g, n, dir)[i], dir)
  <1> DEFINE rows == Rows(g, n, dir, level)
             es == EdgesOf(g, n, dir)
             row(e) == [direction |-> dir, relation |-> e.relation, other |-> Far(e, dir),
                        from |-> n, depth |-> level]
  <1>1. es \in Seq(Edges)
    BY EdgesOfIs
  <1>2. rows = [i \in DOMAIN es |-> row(es[i])]
    BY DEF Rows, EdgesOf, Far
  <1>3. \A e \in Edges : row(e) \in EdgeRows
    BY DEF EdgeRows, Edges, Far
  <1>4. Len(es) \in Nat /\ DOMAIN es = 1..Len(es) /\ \A i \in 1..Len(es) : es[i] \in Edges
    BY <1>1
  <1>5. rows \in Seq(EdgeRows)
    <2> HIDE DEF rows, es, row
    <2> QED
      BY <1>2, <1>3, <1>4
  <1>6. DOMAIN rows = DOMAIN es /\ \A i \in DOMAIN rows : rows[i] = row(es[i])
    <2> HIDE DEF rows, es, row
    <2> QED
      BY <1>2
  <1>7. \A i \in DOMAIN rows :
          /\ rows[i].direction = dir /\ rows[i].from = n /\ rows[i].depth = level
          /\ rows[i].relation = es[i].relation /\ rows[i].other = Far(es[i], dir)
    <2> HIDE DEF rows, es
    <2> QED
      BY <1>6
  <1> QED
    BY <1>5, <1>6, <1>7

(* gather: what passes the filters, of one direction and then the other.   *)
Side(g, n, q, level, dir) == IF dir \in q.directions THEN Rows(g, n, dir, level) ELSE <<>>
Sides(g, n, q, level) == Side(g, n, q, level, "outgoing") \o Side(g, n, q, level, "incoming")
Passing(rows, g, q) ==
  {i \in DOMAIN rows : rows[i].relation \in q.relations /\ rows[i].other \in g.nodes \intersect q.only}

LEMMA SidesAre ==
  ASSUME NEW g \in Graphs, NEW n \in Nodes, NEW q, NEW level \in Nat
  PROVE  /\ \A dir \in Directions : Side(g, n, q, level, dir) \in Seq(EdgeRows)
         /\ Sides(g, n, q, level) \in Seq(EdgeRows)
         /\ Gather(g, n, q, level) = Picked(Sides(g, n, q, level), Passing(Sides(g, n, q, level), g, q))
         /\ Gather(g, n, q, level) \in Seq(EdgeRows)
         /\ Arranged(Gather(g, n, q, level), Sides(g, n, q, level), Passing(Sides(g, n, q, level), g, q))
         /\ ToSet(Gather(g, n, q, level))
              = Elements(Sides(g, n, q, level), Passing(Sides(g, n, q, level), g, q))
  <1>1. \A dir \in Directions : Side(g, n, q, level, dir) \in Seq(EdgeRows)
    BY RowsAre DEF Side
  <1>2. Sides(g, n, q, level) \in Seq(EdgeRows)
    <2>1. "outgoing" \in Directions /\ "incoming" \in Directions
      BY DEF Directions
    <2> QED
      BY <1>1, <2>1, ConcatIs DEF Sides
  <1>3. Gather(g, n, q, level) = Picked(Sides(g, n, q, level), Passing(Sides(g, n, q, level), g, q))
    BY DEF Gather, Sides, Side, Passing
  <1>4. Passing(Sides(g, n, q, level), g, q) \in SUBSET DOMAIN Sides(g, n, q, level)
    BY DEF Passing
  <1> QED
    BY <1>1, <1>2, <1>3, <1>4, PickedAre

(* The rows of a node are of its links that were asked for, and all of     *)
(* them but for their directions.                                          *)
Links(g, q, n) == {<< n, l[3], l[2] >> : l \in Wanted(g, q, n)}
LinksOf(g, q, S) == UNION {Links(g, q, n) : n \in S}
KeysOf(rows) == {EdgeKey(row) : row \in ToSet(rows)}
Sound(g, q, row) == << row.direction, row.relation, row.other >> \in Wanted(g, q, row.from)

Neighbours(g, q, n) == {l[3] : l \in Wanted(g, q, n)}
NeighboursOf(g, q, S) == UNION {Neighbours(g, q, n) : n \in S}
Others(rows) == {row.other : row \in ToSet(rows)}

LEMMA KeysTell ==
  ASSUME NEW g, NEW q, NEW rows, NEW S, KeysOf(rows) = LinksOf(g, q, S)
  PROVE  Others(rows) = NeighboursOf(g, q, S)
  <1>1. ASSUME NEW row \in ToSet(rows) PROVE row.other \in NeighboursOf(g, q, S)
    <2>1. EdgeKey(row) \in LinksOf(g, q, S)
      BY DEF KeysOf
    <2>2. PICK n \in S : EdgeKey(row) \in Links(g, q, n)
      BY <2>1 DEF LinksOf
    <2>3. PICK l \in Wanted(g, q, n) : EdgeKey(row) = << n, l[3], l[2] >>
      BY <2>2 DEF Links
    <2>4. row.other = l[3]
      BY <2>3 DEF EdgeKey
    <2> QED
      BY <2>4 DEF NeighboursOf, Neighbours
  <1>2. ASSUME NEW n \in S, NEW l \in Wanted(g, q, n) PROVE \E row \in ToSet(rows) : row.other = l[3]
    <2>1. << n, l[3], l[2] >> \in KeysOf(rows)
      BY DEF LinksOf, Links
    <2>2. PICK row \in ToSet(rows) : EdgeKey(row) = << n, l[3], l[2] >>
      BY <2>1 DEF KeysOf
    <2> QED
      BY <2>2 DEF EdgeKey
  <1> QED
    BY <1>1, <1>2 DEF Others, NeighboursOf, Neighbours

LEMMA GatherIs ==
  ASSUME NEW g \in Graphs, NEW n \in Nodes, NEW q \in Questions, NEW level \in Nat
  PROVE  /\ KeysOf(Gather(g, n, q, level)) = Links(g, q, n)
         /\ \A row \in ToSet(Gather(g, n, q, level)) :
              row \in EdgeRows /\ row.depth = level /\ Sound(g, q, row)
  <1> DEFINE sides == Sides(g, n, q, level)
             side(dir) == Side(g, n, q, level, dir)
             G == ToSet(Gather(g, n, q, level))
             pass(x) == x.relation \in q.relations /\ x.other \in g.nodes \intersect q.only
  <1>1. "outgoing" \in Directions /\ "incoming" \in Directions /\ q.directions \in SUBSET Directions
    BY DEF Directions, Questions
  <1>2. side("outgoing") \in Seq(EdgeRows) /\ side("incoming") \in Seq(EdgeRows) /\ sides \in Seq(EdgeRows)
    BY <1>1, SidesAre
  <1>3. ToSet(sides) = ToSet(side("outgoing")) \union ToSet(side("incoming"))
    BY <1>2, ConcatIs DEF Sides
  <1>4. G = {x \in ToSet(sides) : pass(x)}
    <2>1. G = Elements(sides, Passing(sides, g, q))
      BY SidesAre
    <2> QED
      BY <2>1 DEF Passing, ToSet, Elements
  <1>5. ASSUME NEW dir \in Directions, NEW x \in ToSet(side(dir))
        PROVE  /\ x \in EdgeRows /\ x.depth = level /\ x.from = n /\ x.direction = dir /\ dir \in q.directions
               /\ \E e \in ToSet(g.edges) : Near(e, dir) = n /\ e.relation = x.relation /\ Far(e, dir) = x.other
    <2>1. CASE dir \in q.directions
      <3> DEFINE rows == Rows(g, n, dir, level)
                 es == EdgesOf(g, n, dir)
      <3>1. side(dir) = rows
        BY <2>1 DEF Side
      <3>2. PICK i \in DOMAIN rows : x = rows[i]
        BY <1>5, <3>1 DEF ToSet
      <3>3. /\ rows \in Seq(EdgeRows) /\ i \in DOMAIN es /\ rows[i].depth = level
            /\ rows[i].direction = dir /\ rows[i].from = n
            /\ rows[i].relation = es[i].relation /\ rows[i].other = Far(es[i], dir)
        BY RowsAre
      <3>4. es[i] \in ToSet(es)
        BY <3>3 DEF ToSet
      <3>5. es[i] \in ToSet(g.edges) /\ Near(es[i], dir) = n
        BY <3>4, EdgesOfIs
      <3> HIDE DEF rows, es
      <3> QED
        BY <2>1, <3>2, <3>3, <3>5
    <2>2. CASE dir \notin q.directions
      BY <1>5, <2>2 DEF Side, ToSet
    <2> QED
      BY <2>1, <2>2
  <1>6. ASSUME NEW dir \in q.directions, NEW e \in ToSet(g.edges), Near(e, dir) = n
        PROVE  \E x \in ToSet(side(dir)) : x.from = n /\ x.relation = e.relation /\ x.other = Far(e, dir)
    <2> DEFINE rows == Rows(g, n, dir, level)
               es == EdgesOf(g, n, dir)
    <2>0. dir \in Directions
      BY <1>1
    <2>1. e \in ToSet(es)
      BY <1>6, <2>0, EdgesOfIs
    <2>2. PICK i \in DOMAIN es : e = es[i]
      BY <2>1 DEF ToSet
    <2>3. /\ i \in DOMAIN rows /\ rows[i].from = n
          /\ rows[i].relation = es[i].relation /\ rows[i].other = Far(es[i], dir)
      BY <2>0, RowsAre
    <2>4. rows[i] \in ToSet(rows)
      BY <2>3 DEF ToSet
    <2>5. side(dir) = rows
      BY DEF Side
    <2> HIDE DEF rows, es, side
    <2> QED
      BY <2>2, <2>3, <2>4, <2>5
  <1>7. ASSUME NEW l
        PROVE  l \in Wanted(g, q, n) <=>
                 \E dir \in q.directions, e \in ToSet(g.edges) :
                    /\ Near(e, dir) = n /\ l = << dir, e.relation, Far(e, dir) >>
                    /\ e.relation \in q.relations /\ Far(e, dir) \in g.nodes \intersect q.only
    <2>1. ASSUME l \in Wanted(g, q, n)
          PROVE  \E dir \in q.directions, e \in ToSet(g.edges) :
                    /\ Near(e, dir) = n /\ l = << dir, e.relation, Far(e, dir) >>
                    /\ e.relation \in q.relations /\ Far(e, dir) \in g.nodes \intersect q.only
      BY <2>1 DEF Wanted, Linked, Near, Far
    <2>2. ASSUME NEW dir \in q.directions, NEW e \in ToSet(g.edges), Near(e, dir) = n,
                 e.relation \in q.relations, Far(e, dir) \in g.nodes \intersect q.only
          PROVE  << dir, e.relation, Far(e, dir) >> \in Wanted(g, q, n)
      <3>1. dir \in {"outgoing", "incoming"}
        BY <1>1 DEF Directions
      <3>2. << dir, e.relation, Far(e, dir) >> \in Linked(g, q, n)
        BY <2>2, <3>1 DEF Linked, Near, Far
      <3> QED
        BY <2>2, <3>2 DEF Wanted
    <2> QED
      BY <2>1, <2>2
  <1> HIDE DEF sides, side, G
  <1>8. ASSUME NEW x \in G PROVE x \in EdgeRows /\ x.depth = level /\ x.from = n /\ Sound(g, q, x)
    <2>1. PICK dir \in Directions : x \in ToSet(side(dir)) /\ pass(x)
      BY <1>1, <1>3, <1>4
    <2>2. << x.direction, x.relation, x.other >> \in Wanted(g, q, n)
      BY <1>5, <1>7, <2>1
    <2> QED
      BY <1>5, <2>1, <2>2 DEF Sound
  <1>9. KeysOf(Gather(g, n, q, level)) = Links(g, q, n)
    <2>1. ASSUME NEW x \in G PROVE EdgeKey(x) \in Links(g, q, n)
      <3>1. x.from = n /\ << x.direction, x.relation, x.other >> \in Wanted(g, q, n)
        BY <1>8, <2>1 DEF Sound
      <3> QED
        BY <3>1 DEF EdgeKey, Links
    <2>2. ASSUME NEW l \in Wanted(g, q, n) PROVE \E x \in G : EdgeKey(x) = << n, l[3], l[2] >>
      <3>1. PICK dir \in q.directions, e \in ToSet(g.edges) :
              /\ Near(e, dir) = n /\ l = << dir, e.relation, Far(e, dir) >>
              /\ e.relation \in q.relations /\ Far(e, dir) \in g.nodes \intersect q.only
        BY <1>7
      <3>2. PICK x \in ToSet(side(dir)) : x.from = n /\ x.relation = e.relation /\ x.other = Far(e, dir)
        BY <1>6, <3>1
      <3>3. dir \in {"outgoing", "incoming"}
        BY <1>1 DEF Directions
      <3>4. x \in ToSet(sides)
        BY <1>3, <3>3
      <3>5. x \in G
        BY <1>4, <3>1, <3>2, <3>4
      <3>6. EdgeKey(x) = << n, l[3], l[2] >>
        BY <3>1, <3>2 DEF EdgeKey
      <3> QED
        BY <3>5, <3>6
    <2> QED
      BY <2>1, <2>2 DEF KeysOf, Links, G
  <1> QED
    BY <1>8, <1>9 DEF G

-----------------------------------------------------------------------------
(* Iterations: a function defined from its value one before exists.        *)
Iterates(f, n, X, start, F) ==
  /\ f \in [0..n -> X] /\ f[0] = start
  /\ \A k \in 1..n : f[k] = F[<< f[k - 1], k >>]

LEMMA IterationExists ==
  ASSUME NEW n \in Nat, NEW X, NEW start \in X, NEW F \in [X \X (1..n) -> X]
  PROVE  \E f : Iterates(f, n, X, start, F)
  <1> DEFINE Good == {m \in Nat : m <= n /\ \E f : Iterates(f, m, X, start, F)}
  <1>1. 0 \in Good
    <2>1. Iterates([k \in 0..0 |-> start], 0, X, start, F)
      BY DEF Iterates
    <2> QED
      BY <2>1
  <1>2. ASSUME NEW m \in Good, m < n PROVE m + 1 \in Good
    <2>1. m \in Nat /\ m + 1 \in Nat /\ m + 1 <= n
      BY <1>2
    <2>2. PICK f : Iterates(f, m, X, start, F)
      OBVIOUS
    <2> DEFINE v == F[<< f[m], m + 1 >>]
               h == [k \in 0..m + 1 |-> IF k = m + 1 THEN v ELSE f[k]]
    <2>3. f \in [0..m -> X] /\ f[0] = start /\ \A k \in 1..m : f[k] = F[<< f[k - 1], k >>]
      BY <2>2 DEF Iterates
    <2>4. v \in X
      <3>1. << f[m], m + 1 >> \in X \X (1..n)
        BY <2>1, <2>3
      <3> QED
        BY <3>1
    <2> HIDE DEF v
    <2>5. \A k \in 0..m : k # m + 1 /\ k \in 0..m + 1
      BY <2>1
    <2>6. \A k \in 0..m + 1 : k = m + 1 \/ k \in 0..m
      BY <2>1
    <2>7. h \in [0..m + 1 -> X]
      BY <2>3, <2>4, <2>6
    <2>8. h[m + 1] = v /\ \A k \in 0..m : h[k] = f[k]
      BY <2>1, <2>5
    <2> HIDE DEF h
    <2>9. h[0] = start
      BY <2>1, <2>3, <2>8
    <2>10. \A k \in 1..m + 1 : h[k] = F[<< h[k - 1], k >>]
      <3> SUFFICES ASSUME NEW k \in 1..m + 1 PROVE h[k] = F[<< h[k - 1], k >>]
        OBVIOUS
      <3>1. CASE k = m + 1
        <4>1. k - 1 = m /\ m \in 0..m
          BY <2>1, <3>1
        <4> QED
          BY <2>8, <3>1, <4>1 DEF v
      <3>2. CASE k # m + 1
        <4>1. k \in 1..m /\ k \in 0..m /\ k - 1 \in 0..m
          BY <2>1, <3>2
        <4> QED
          BY <2>3, <2>8, <4>1
      <3> QED
        BY <3>1, <3>2
    <2>11. Iterates(h, m + 1, X, start, F)
      BY <2>7, <2>9, <2>10 DEF Iterates
    <2> QED
      BY <2>1, <2>11
  <1> HIDE DEF Good
  <1>3. Good \in SUBSET Nat
    BY DEF Good
  <1>4. n \in Good
    <2>1. \A k \in 0..n : k \in Good
      BY <1>1, <1>2, <1>3, Induction
    <2> QED
      BY <2>1
  <1> QED
    BY <1>4 DEF Good

(* A list of lists, end to end.                                            *)
LEMMA FlattenIs ==
  ASSUME NEW X, NEW seqs \in Seq(Seq(X))
  PROVE  FlattenSeq(seqs) \in Seq(X) /\ ToSet(FlattenSeq(seqs)) = UNION {ToSet(seqs[i]) : i \in DOMAIN seqs}
  <1> DEFINE n == Len(seqs)
  <1>1. n \in Nat /\ DOMAIN seqs = 1..n /\ \A i \in 1..n : seqs[i] \in Seq(X)
    OBVIOUS
  <1>2. CASE n = 0
    <2>1. FlattenSeq(seqs) = seqs /\ seqs = <<>>
      BY <1>2 DEF FlattenSeq
    <2> QED
      BY <2>1 DEF ToSet
  <1>3. CASE n > 0
    <2> DEFINE F == [p \in Seq(X) \X (1..n) |-> p[1] \o seqs[p[2]]]
    <2>1. F \in [Seq(X) \X (1..n) -> Seq(X)]
      <3>1. \A p \in Seq(X) \X (1..n) : p[1] \o seqs[p[2]] \in Seq(X)
        <4> SUFFICES ASSUME NEW p \in Seq(X) \X (1..n) PROVE p[1] \o seqs[p[2]] \in Seq(X)
          OBVIOUS
        <4>1. p[1] \in Seq(X) /\ seqs[p[2]] \in Seq(X)
          BY <1>1
        <4> QED
          BY <4>1, ConcatIs
      <3> QED
        BY <3>1
    <2>2. << >> \in Seq(X)
      OBVIOUS
    <2>3. \A a \in Seq(X), k \in 1..n : F[<< a, k >>] = a \o seqs[k]
      OBVIOUS
    <2> HIDE DEF F, n
    <2>4. PICK h : Iterates(h, n, Seq(X), << >>, F)
      BY <1>1, <2>1, <2>2, IterationExists
    <2>5. h \in [0..n -> Seq(X)] /\ h[0] = << >> /\ \A k \in 1..n : h[k] = h[k - 1] \o seqs[k]
      <3>1. h \in [0..n -> Seq(X)] /\ h[0] = << >> /\ \A k \in 1..n : h[k] = F[<< h[k - 1], k >>]
        BY <2>4 DEF Iterates
      <3>2. \A k \in 1..n : k - 1 \in 0..n
        BY <1>1
      <3> QED
        BY <2>3, <3>1, <3>2
    <2> DEFINE Steps(f) == [i \in 1..n |-> IF i = 1 THEN seqs[i] ELSE f[i - 1] \o seqs[i]]
               flat == CHOOSE f : f = Steps(f)
    <2>6. FlattenSeq(seqs) = flat[n]
      BY <1>3 DEF FlattenSeq, n
    <2>7. flat = Steps(flat)
      <3> DEFINE f == [i \in 1..n |-> h[i]]
      <3>1. h[1] = seqs[1]
        <4>1. 1 \in 1..n /\ 1 - 1 = 0
          BY <1>1, <1>3
        <4>2. h[1] = h[0] \o seqs[1] /\ h[0] = << >> /\ seqs[1] \in Seq(X)
          BY <1>1, <2>5, <4>1
        <4>3. h[1] = << >> \o seqs[1]
          BY <4>2
        <4>4. << >> \o seqs[1] = seqs[1]
          BY <4>2, ConcatEmptySeq
        <4> QED
          BY <4>3, <4>4
      <3>2. \A i \in 1..n : i # 1 => i - 1 \in 1..n
        BY <1>1
      <3>3. \A i \in 1..n : f[i] = IF i = 1 THEN seqs[i] ELSE f[i - 1] \o seqs[i]
        BY <2>5, <3>1, <3>2
      <3>4. f = Steps(f)
        BY <3>3
      <3> QED
        BY <3>4
    <2> HIDE DEF flat
    <2>8. \A i \in 1..n : flat[i] = IF i = 1 THEN seqs[i] ELSE flat[i - 1] \o seqs[i]
      BY <2>7
    <2> DEFINE Part(k) == UNION {ToSet(seqs[i]) : i \in 1..k}
               Good == {k \in Nat : k + 1 <= n => flat[k + 1] \in Seq(X) /\ ToSet(flat[k + 1]) = Part(k + 1)}
    <2>9. 0 \in Good
      <3>1. flat[1] = seqs[1] /\ seqs[1] \in Seq(X)
        BY <1>1, <1>3, <2>8
      <3>2. Part(1) = ToSet(seqs[1])
        OBVIOUS
      <3> QED
        BY <3>1, <3>2
    <2>10. ASSUME NEW k \in Good PROVE k + 1 \in Good
      <3>1. k \in Nat
        OBVIOUS
      <3>2. SUFFICES ASSUME k + 2 <= n
            PROVE  flat[k + 2] \in Seq(X) /\ ToSet(flat[k + 2]) = Part(k + 2)
        <4>1. k + 1 \in Nat /\ (k + 1) + 1 = k + 2
          BY <3>1
        <4> HIDE DEF Part
        <4> QED
          BY <3>2, <4>1
      <3>3. flat[k + 1] \in Seq(X) /\ ToSet(flat[k + 1]) = Part(k + 1)
        BY <1>1, <3>1, <3>2
      <3>4. k + 2 \in 1..n /\ k + 2 # 1 /\ (k + 2) - 1 = k + 1
        BY <1>1, <3>1, <3>2
      <3>5. flat[k + 2] = flat[k + 1] \o seqs[k + 2] /\ seqs[k + 2] \in Seq(X)
        BY <1>1, <2>8, <3>4
      <3>6. flat[k + 2] \in Seq(X) /\ ToSet(flat[k + 2]) = ToSet(flat[k + 1]) \union ToSet(seqs[k + 2])
        BY <3>3, <3>5, ConcatIs
      <3>7. 1..k + 2 = (1..k + 1) \union {k + 2}
        BY <3>1
      <3>8. Part(k + 2) = Part(k + 1) \union ToSet(seqs[k + 2])
        BY <3>7
      <3> QED
        BY <3>3, <3>6, <3>8
    <2>11. Good \in SUBSET Nat
      OBVIOUS
    <2> HIDE DEF Good
    <2>12. n - 1 \in Good
      <3>1. \A k \in 0..n : k \in Good
        BY <1>1, <2>9, <2>10, <2>11, Induction
      <3>2. n - 1 \in 0..n
        BY <1>1, <1>3
      <3> QED
        BY <3>1, <3>2
    <2>13. flat[n] \in Seq(X) /\ ToSet(flat[n]) = Part(n)
      <3>1. (n - 1) + 1 = n
        BY <1>1
      <3> QED
        BY <1>1, <2>12, <3>1 DEF Good
    <2> QED
      BY <1>1, <2>6, <2>13
  <1> QED
    BY <1>1, <1>2, <1>3

-----------------------------------------------------------------------------
(* The sorts of rows change their order only.                              *)
LEMMA NumbersAssumed ==
  /\ Nodes \subseteq Int /\ Relations \subseteq Int /\ NOBODY \notin Nodes
  /\ Length \in [Nodes -> Int] /\ Name \in [Nodes -> Int]
  /\ Path \in [Nodes -> Int] /\ Line \in [Nodes -> Int]
  <1>1. {Length, Name, Path, Line} \subseteq [Nodes -> Nat]
    BY QueriesAssumption DEF QueriesAssumption
  <1>2. Nodes \subseteq Nat /\ Relations \subseteq Nat /\ NOBODY \notin Nodes
    BY QueriesAssumption DEF QueriesAssumption
  <1>3. \A f \in [Nodes -> Nat] : f \in [Nodes -> Int]
    OBVIOUS
  <1> QED
    BY <1>1, <1>2, <1>3

LEMMA SortedIs ==
  ASSUME NEW rows \in Seq(EdgeRows)
  PROVE  Arranged(Sorted(rows), rows, DOMAIN rows)
  <1> DEFINE P == DOMAIN rows
             rank(d) == IF d = "incoming" THEN 0 ELSE 1
             tuple(i) == << rank(rows[i].direction), rows[i].relation, Name[rows[i].other], i >>
             key == [i \in P |-> tuple(i)]
             order == InOrder(key)
  <1>1. IsFiniteSet(P) /\ \A i \in P : i \in Int /\ rows[i] \in EdgeRows
    BY PlacesFinite
  <1>2. \A i \in P : tuple(i) \in Seq(Int) /\ Len(tuple(i)) = 4 /\ tuple(i)[4] = i
    <2> SUFFICES ASSUME NEW i \in P PROVE tuple(i) \in Seq(Int) /\ Len(tuple(i)) = 4 /\ tuple(i)[4] = i
      OBVIOUS
    <2>1. rank(rows[i].direction) \in Int
      OBVIOUS
    <2>2. rows[i].relation \in Int /\ Name[rows[i].other] \in Int /\ i \in Int
      BY <1>1, NumbersAssumed DEF EdgeRows
    <2> HIDE DEF rank
    <2> QED
      BY <2>1, <2>2
  <1>3. key \in [P -> Seq(Int)] /\ \A i \in P : key[i] = tuple(i)
    <2> HIDE DEF tuple, P
    <2> QED
      BY <1>2
  <1> HIDE DEF key, tuple
  <1>4. key \in Keys(P, 4)
    BY <1>2, <1>3 DEF Keys
  <1>5. order \in Bijection(1..Cardinality(P), P)
    BY <1>1, <1>4, InOrderIs
  <1>6. DOMAIN order = 1..Cardinality(P)
    BY <1>5 DEF Bijection, Injection
  <1>7. Sorted(rows) = [i \in DOMAIN order |-> rows[order[i]]]
    BY DEF Sorted, key, tuple
  <1> HIDE DEF order
  <1> QED
    BY <1>5, <1>6, <1>7 DEF Arranged

LEMMA ByPathIs ==
  ASSUME NEW rows \in Seq(EdgeRows)
  PROVE  Arranged(ByPath(rows), rows, DOMAIN rows)
  <1> DEFINE P == DOMAIN rows
             tuple(i) == << Path[rows[i].other], i >>
             key == [i \in P |-> tuple(i)]
             order == InOrder(key)
  <1>1. IsFiniteSet(P) /\ \A i \in P : i \in Int /\ rows[i] \in EdgeRows
    BY PlacesFinite
  <1>2. \A i \in P : tuple(i) \in Seq(Int) /\ Len(tuple(i)) = 2 /\ tuple(i)[2] = i
    <2> SUFFICES ASSUME NEW i \in P PROVE tuple(i) \in Seq(Int) /\ Len(tuple(i)) = 2 /\ tuple(i)[2] = i
      OBVIOUS
    <2>2. Path[rows[i].other] \in Int /\ i \in Int
      BY <1>1, NumbersAssumed DEF EdgeRows
    <2> QED
      BY <2>2
  <1>3. key \in [P -> Seq(Int)] /\ \A i \in P : key[i] = tuple(i)
    <2> HIDE DEF tuple, P
    <2> QED
      BY <1>2
  <1> HIDE DEF key, tuple
  <1>4. key \in Keys(P, 2)
    BY <1>2, <1>3 DEF Keys
  <1>5. order \in Bijection(1..Cardinality(P), P)
    BY <1>1, <1>4, InOrderIs
  <1>6. DOMAIN order = 1..Cardinality(P)
    BY <1>5 DEF Bijection, Injection
  <1>7. ByPath(rows) = [i \in DOMAIN order |-> rows[order[i]]]
    BY DEF ByPath, key, tuple
  <1> HIDE DEF order
  <1> QED
    BY <1>5, <1>6, <1>7 DEF Arranged

(* What seen_edge drops has the key of a row that was kept.                *)
LEMMA UnseenIs ==
  ASSUME NEW rows \in Seq(EdgeRows)
  PROVE  /\ Unseen(rows) \in Seq(EdgeRows)
         /\ ToSet(Unseen(rows)) \subseteq ToSet(rows)
         /\ KeysOf(Unseen(rows)) = KeysOf(rows)
  <1> DEFINE P == {i \in DOMAIN rows : \A j \in 1..i - 1 : EdgeKey(rows[j]) # EdgeKey(rows[i])}
  <1>1. P \in SUBSET DOMAIN rows /\ Unseen(rows) = Picked(rows, P)
    BY DEF Unseen
  <1>2. DOMAIN rows = 1..Len(rows) /\ Len(rows) \in Nat
    OBVIOUS
  <1>3. ASSUME NEW i \in DOMAIN rows PROVE \E j \in P : EdgeKey(rows[j]) = EdgeKey(rows[i])
    <2> DEFINE Same == {j \in DOMAIN rows : EdgeKey(rows[j]) = EdgeKey(rows[i])}
    <2>1. Same \in SUBSET Nat /\ i \in Same
      BY <1>2
    <2>2. PICK j \in Same : \A k \in Same : j <= k
      <3> HIDE DEF Same
      <3> QED
        BY <2>1, Least
    <2>3. j \in DOMAIN rows /\ EdgeKey(rows[j]) = EdgeKey(rows[i])
      OBVIOUS
    <2>4. ASSUME NEW k \in 1..j - 1 PROVE EdgeKey(rows[k]) # EdgeKey(rows[j])
      <3>1. k \in DOMAIN rows /\ k < j
        BY <1>2, <2>3
      <3> QED
        BY <1>2, <2>2, <2>3, <3>1
    <2> QED
      BY <2>3, <2>4
  <1> HIDE DEF P
  <1>4. Unseen(rows) \in Seq(EdgeRows) /\ ToSet(Unseen(rows)) = Elements(rows, P)
    BY <1>1, PickedAre
  <1>5. \A x \in ToSet(rows) : \E y \in ToSet(Unseen(rows)) : EdgeKey(y) = EdgeKey(x)
    BY <1>3, <1>4 DEF ToSet, Elements
  <1>6. ToSet(Unseen(rows)) \subseteq ToSet(rows)
    BY <1>1, <1>4 DEF ToSet, Elements
  <1> QED
    BY <1>4, <1>5, <1>6 DEF KeysOf

(* What a frontier is linked to.                                           *)
LEMMA FoundIs ==
  ASSUME NEW g \in Graphs, NEW q \in Questions, NEW frontier \in Seq(Nodes), NEW level \in Nat
  PROVE  /\ Found(g, q, frontier, level) \in Seq(EdgeRows)
         /\ \A row \in ToSet(Found(g, q, frontier, level)) : row.depth = level /\ Sound(g, q, row)
         /\ KeysOf(Found(g, q, frontier, level)) = LinksOf(g, q, ToSet(frontier))
         /\ Others(Found(g, q, frontier, level)) = NeighboursOf(g, q, ToSet(frontier))
  <1> DEFINE each == [i \in DOMAIN frontier |-> Gather(g, frontier[i], q, level)]
             flat == FlattenSeq(each)
             unseen == Unseen(flat)
             found == Sorted(unseen)
  <1>1. Len(frontier) \in Nat /\ DOMAIN frontier = 1..Len(frontier) /\ \A i \in DOMAIN frontier : frontier[i] \in Nodes
    OBVIOUS
  <1>2. each \in Seq(Seq(EdgeRows)) /\ DOMAIN each = DOMAIN frontier
    <2>1. \A i \in DOMAIN frontier : Gather(g, frontier[i], q, level) \in Seq(EdgeRows)
      BY <1>1, SidesAre
    <2> QED
      BY <1>1, <2>1
  <1>3. \A i \in DOMAIN frontier : each[i] = Gather(g, frontier[i], q, level)
    OBVIOUS
  <1> HIDE DEF each
  <1>4. flat \in Seq(EdgeRows) /\ ToSet(flat) = UNION {ToSet(each[i]) : i \in DOMAIN each}
    BY <1>2, FlattenIs
  <1>5. \A x \in ToSet(flat) : x.depth = level /\ Sound(g, q, x)
    BY <1>1, <1>2, <1>3, <1>4, GatherIs
  <1>6. KeysOf(flat) = LinksOf(g, q, ToSet(frontier))
    <2>1. \A i \in DOMAIN frontier : KeysOf(each[i]) = Links(g, q, frontier[i])
      BY <1>1, <1>3, GatherIs
    <2>2. ASSUME NEW o PROVE o \in KeysOf(flat) <=> \E i \in DOMAIN frontier : o \in KeysOf(each[i])
      BY <1>2, <1>4 DEF KeysOf
    <2>3. ToSet(frontier) = {frontier[i] : i \in DOMAIN frontier}
      BY DEF ToSet
    <2> QED
      BY <2>1, <2>2, <2>3 DEF LinksOf
  <1> HIDE DEF flat
  <1>7. /\ unseen \in Seq(EdgeRows) /\ ToSet(unseen) \subseteq ToSet(flat)
        /\ KeysOf(unseen) = KeysOf(flat)
    BY <1>4, UnseenIs
  <1> HIDE DEF unseen
  <1>8. Arranged(found, unseen, DOMAIN unseen)
    BY <1>7, SortedIs
  <1>9. found \in Seq(EdgeRows) /\ ToSet(found) = ToSet(unseen)
    BY <1>7, <1>8, PermutedIs
  <1>10. Found(g, q, frontier, level) = found
    BY DEF Found, found, unseen, flat, each
  <1> HIDE DEF found
  <1>11. KeysOf(found) = LinksOf(g, q, ToSet(frontier))
    BY <1>6, <1>7, <1>9 DEF KeysOf
  <1>12. Others(found) = NeighboursOf(g, q, ToSet(frontier))
    BY <1>11, KeysTell
  <1> QED
    BY <1>5, <1>7, <1>9, <1>10, <1>11, <1>12

(* The neighbours that are met for the first time.                         *)
LEMMA FirstMetIs ==
  ASSUME NEW rows \in Seq(EdgeRows), NEW visited
  PROVE  /\ FirstMet(rows, visited) \in Seq(Nodes)
         /\ ToSet(FirstMet(rows, visited)) = Others(rows) \ visited
  <1> DEFINE P == {i \in DOMAIN rows : /\ rows[i].other \notin visited
                                       /\ \A j \in 1..i - 1 : rows[j].other # rows[i].other}
             met == Picked(rows, P)
             first == [i \in DOMAIN met |-> met[i].other]
  <1>1. P \in SUBSET DOMAIN rows
    OBVIOUS
  <1>2. DOMAIN rows = 1..Len(rows) /\ Len(rows) \in Nat
    OBVIOUS
  <1>3. ASSUME NEW i \in DOMAIN rows, rows[i].other \notin visited
        PROVE  \E j \in P : rows[j].other = rows[i].other
    <2> DEFINE Same == {j \in DOMAIN rows : rows[j].other = rows[i].other}
    <2>1. Same \in SUBSET Nat /\ i \in Same
      BY <1>2
    <2>2. PICK j \in Same : \A k \in Same : j <= k
      <3> HIDE DEF Same
      <3> QED
        BY <2>1, Least
    <2>3. j \in DOMAIN rows /\ rows[j].other = rows[i].other
      OBVIOUS
    <2>4. ASSUME NEW k \in 1..j - 1 PROVE rows[k].other # rows[j].other
      <3>1. k \in DOMAIN rows /\ k < j
        BY <1>2, <2>3
      <3> QED
        BY <1>2, <2>2, <2>3, <3>1
    <2> QED
      BY <1>3, <2>3, <2>4
  <1>4. \A j \in P : rows[j].other \notin visited
    OBVIOUS
  <1> HIDE DEF P
  <1>5. met \in Seq(EdgeRows) /\ ToSet(met) = Elements(rows, P)
    BY <1>1, PickedAre
  <1>6. FirstMet(rows, visited) = first
    BY DEF FirstMet, P
  <1> HIDE DEF met
  <1>7. Len(met) \in Nat /\ DOMAIN met = 1..Len(met) /\ \A i \in DOMAIN met : met[i] \in EdgeRows
    BY <1>5
  <1>8. first \in Seq(Nodes) /\ DOMAIN first = DOMAIN met
    <2>1. \A i \in DOMAIN met : met[i].other \in Nodes
      BY <1>7 DEF EdgeRows
    <2> QED
      BY <1>7, <2>1
  <1>9. ToSet(first) = {row.other : row \in ToSet(met)}
    BY DEF ToSet
  <1>10. {row.other : row \in ToSet(met)} = Others(rows) \ visited
    <2>1. ASSUME NEW i \in P PROVE rows[i].other \in Others(rows) \ visited
      BY <1>1, <1>4, <2>1 DEF Others, ToSet
    <2>2. ASSUME NEW o \in Others(rows) \ visited PROVE \E i \in P : rows[i].other = o
      <3>1. PICK i \in DOMAIN rows : o = rows[i].other
        BY <2>2 DEF Others, ToSet
      <3> QED
        BY <1>3, <2>2, <3>1
    <2> QED
      BY <1>5, <2>1, <2>2 DEF Elements
  <1> QED
    BY <1>6, <1>8, <1>9, <1>10

-----------------------------------------------------------------------------
(* The walk of refs, level by level.                                       *)
WalkStates ==
  [edges : Seq(EdgeRows), total : Nat, visited : SUBSET (Nodes \union {NOBODY}), frontier : Seq(Nodes)]

(* What a level found that is not in the answer.                           *)
Missing(w) == w.total - Len(w.edges)
DepthRows(rows, k) == {row \in ToSet(rows) : row.depth = k}
KeysAt(rows, k) == {EdgeKey(row) : row \in DepthRows(rows, k)}
AllSound(g, q, rows) == \A row \in ToSet(rows) : Sound(g, q, row)

LEMMA StartIs ==
  ASSUME NEW s \in Nodes \union {NOBODY}
  PROVE  /\ Start(s) \in WalkStates /\ Missing(Start(s)) = 0 /\ Start(s).edges = <<>>
         /\ Start(s).visited = {s} /\ (s # NOBODY => ToSet(Start(s).frontier) = {s})
  <1>1. s # NOBODY => << s >> \in Seq(Nodes) /\ ToSet(<< s >>) = {s}
    <2> SUFFICES ASSUME s \in Nodes PROVE << s >> \in Seq(Nodes) /\ ToSet(<< s >>) = {s}
      OBVIOUS
    <2>1. << s >> \in Seq(Nodes) /\ DOMAIN << s >> = {1} /\ << s >>[1] = s
      OBVIOUS
    <2> QED
      BY <2>1 DEF ToSet
  <1>2. << >> \in Seq(Nodes) /\ << >> \in Seq(EdgeRows) /\ Len(<< >>) = 0
    OBVIOUS
  <1>3. {s} \in SUBSET (Nodes \union {NOBODY})
    OBVIOUS
  <1> QED
    BY <1>1, <1>2, <1>3 DEF Start, WalkStates, Missing

LEMMA LevelIs ==
  ASSUME NEW g \in Graphs, NEW q \in Questions, NEW w \in WalkStates, NEW k \in Nat
  PROVE  LET next == Level(g, q, w, k)
             linked == NeighboursOf(g, q, ToSet(w.frontier)) IN
         /\ next \in WalkStates
         /\ Len(next.edges) <= Len(w.edges) + q.limit
         /\ AllSound(g, q, w.edges) => AllSound(g, q, next.edges)
         /\ Missing(next) >= Missing(w)
         /\ Missing(next) = Missing(w) =>
              /\ next.visited = w.visited \union linked
              /\ ToSet(next.frontier) = linked \ w.visited
              /\ \A row \in ToSet(next.edges) : row \in ToSet(w.edges) \/ row.depth = k
              /\ \A j \in Nat \ {k} : DepthRows(next.edges, j) = DepthRows(w.edges, j)
              /\ (\A row \in ToSet(w.edges) : row.depth # k) =>
                   KeysAt(next.edges, k) = LinksOf(g, q, ToSet(w.frontier))
  <1> DEFINE found == Found(g, q, w.frontier, k)
             taken == Take(found, q.limit)
             next == Level(g, q, w, k)
             linked == NeighboursOf(g, q, ToSet(w.frontier))
             links == LinksOf(g, q, ToSet(w.frontier))
  <1>1. /\ w.edges \in Seq(EdgeRows) /\ w.total \in Nat /\ w.visited \in SUBSET (Nodes \union {NOBODY})
        /\ w.frontier \in Seq(Nodes) /\ q.limit \in Nat
    BY DEF WalkStates, Questions
  <1>2. /\ found \in Seq(EdgeRows) /\ \A row \in ToSet(found) : row.depth = k /\ Sound(g, q, row)
        /\ Others(found) = linked /\ KeysOf(found) = links
    <2>1. KeysOf(found) = links
      BY <1>1, FoundIs
    <2>2. Others(found) = linked
      BY <1>1, FoundIs
    <2>3. found \in Seq(EdgeRows) /\ \A row \in ToSet(found) : row.depth = k /\ Sound(g, q, row)
      BY <1>1, FoundIs
    <2> QED
      BY <2>1, <2>2, <2>3
  <1>3. /\ next.edges = w.edges \o taken /\ next.total = w.total + Len(found)
        /\ next.visited = w.visited \union {taken[i].other : i \in DOMAIN taken}
        /\ next.frontier = FirstMet(taken, w.visited)
        /\ next = [edges |-> next.edges, total |-> next.total, visited |-> next.visited,
                   frontier |-> next.frontier]
    BY DEF Level
  <1> HIDE DEF next, found
  <1>4. /\ taken \in Seq(EdgeRows) /\ Len(taken) \in Nat /\ Len(taken) <= q.limit
        /\ Len(taken) <= Len(found) /\ (Len(taken) = Len(found) => taken = found)
        /\ \A i \in DOMAIN taken : i \in DOMAIN found /\ taken[i] = found[i]
    BY <1>1, <1>2, TakeIs
  <1> HIDE DEF taken, linked, links
  <1>5. /\ FirstMet(taken, w.visited) \in Seq(Nodes)
        /\ ToSet(FirstMet(taken, w.visited)) = Others(taken) \ w.visited
    BY <1>4, FirstMetIs
  <1>6. /\ next.edges \in Seq(EdgeRows) /\ Len(next.edges) = Len(w.edges) + Len(taken)
        /\ ToSet(next.edges) = ToSet(w.edges) \union ToSet(taken)
    BY <1>1, <1>3, <1>4, ConcatIs
  <1>7. {taken[i].other : i \in DOMAIN taken} = Others(taken)
    BY DEF Others, ToSet
  <1>8. Others(taken) \in SUBSET Nodes
    <2>1. \A i \in DOMAIN taken : taken[i] \in EdgeRows
      BY <1>4
    <2> QED
      BY <1>7, <2>1 DEF EdgeRows
  <1>9. Len(found) \in Nat /\ Len(w.edges) \in Nat
    BY <1>1, <1>2
  <1>10. next \in WalkStates
    <2>1. next.total \in Nat
      BY <1>1, <1>3, <1>9
    <2>2. next.visited \in SUBSET (Nodes \union {NOBODY})
      BY <1>1, <1>3, <1>7, <1>8
    <2> QED
      BY <1>3, <1>5, <1>6, <2>1, <2>2 DEF WalkStates
  <1>11. Missing(next) = Missing(w) + (Len(found) - Len(taken))
    BY <1>1, <1>3, <1>4, <1>6, <1>9 DEF Missing
  <1>12. Missing(w) \in Int /\ Missing(next) >= Missing(w) /\ (Missing(next) = Missing(w) => taken = found)
    <2>1. Missing(w) \in Int
      BY <1>1, <1>9 DEF Missing
    <2> HIDE DEF Missing
    <2> QED
      BY <1>4, <1>9, <1>11, <2>1
  <1>13. ASSUME taken = found
         PROVE  /\ next.visited = w.visited \union linked
                /\ ToSet(next.frontier) = linked \ w.visited
                /\ \A row \in ToSet(next.edges) : row \in ToSet(w.edges) \/ row.depth = k
                /\ \A j \in Nat \ {k} : DepthRows(next.edges, j) = DepthRows(w.edges, j)
                /\ (\A row \in ToSet(w.edges) : row.depth # k) =>
                     KeysAt(next.edges, k) = links
    <2>1. next.visited = w.visited \union linked /\ ToSet(next.frontier) = linked \ w.visited
      BY <1>2, <1>3, <1>5, <1>7, <1>13
    <2>2. \A row \in ToSet(next.edges) : row \in ToSet(w.edges) \/ row.depth = k
      BY <1>2, <1>6, <1>13
    <2>3. \A j \in Nat \ {k} : DepthRows(next.edges, j) = DepthRows(w.edges, j)
      BY <1>2, <1>6, <1>13 DEF DepthRows
    <2>4. ASSUME \A row \in ToSet(w.edges) : row.depth # k
          PROVE  KeysAt(next.edges, k) = links
      <3>1. DepthRows(next.edges, k) = ToSet(found)
        BY <1>2, <1>6, <1>13, <2>4 DEF DepthRows
      <3> QED
        BY <1>2, <3>1 DEF KeysOf, KeysAt
    <2> QED
      BY <2>1, <2>2, <2>3, <2>4
  <1>14. Len(next.edges) <= Len(w.edges) + q.limit
    BY <1>1, <1>4, <1>6, <1>9
  <1>15. AllSound(g, q, w.edges) => AllSound(g, q, next.edges)
    <2>1. ToSet(taken) \subseteq ToSet(found)
      BY <1>4 DEF ToSet
    <2> QED
      BY <1>2, <1>6, <2>1 DEF AllSound
  <1> QED
    BY <1>10, <1>12, <1>13, <1>14, <1>15 DEF next, linked, links

LEMMA WalkIs ==
  ASSUME NEW g \in Graphs, NEW q \in Questions, NEW s \in Nodes \union {NOBODY}
  PROVE  /\ Walk(g, q, s) \in [0..q.depth -> WalkStates] /\ Walk(g, q, s)[0] = Start(s)
         /\ \A k \in 1..q.depth : Walk(g, q, s)[k] = Level(g, q, Walk(g, q, s)[k - 1], k)
  <1> DEFINE n == q.depth
             F == [p \in WalkStates \X (1..n) |-> Level(g, q, p[1], p[2])]
             Steps(f) == [k \in 0..n |-> IF k = 0 THEN Start(s) ELSE Level(g, q, f[k - 1], k)]
  <1>1. n \in Nat
    BY DEF Questions
  <1> HIDE DEF n
  <1>2. F \in [WalkStates \X (1..n) -> WalkStates]
    <2> SUFFICES ASSUME NEW p \in WalkStates \X (1..n) PROVE Level(g, q, p[1], p[2]) \in WalkStates
      OBVIOUS
    <2>1. p[1] \in WalkStates /\ p[2] \in Nat
      BY <1>1
    <2> QED
      BY <2>1, LevelIs
  <1>3. \A w \in WalkStates, k \in 1..n : F[<< w, k >>] = Level(g, q, w, k)
    OBVIOUS
  <1> HIDE DEF F
  <1>4. PICK h : Iterates(h, n, WalkStates, Start(s), F)
    BY <1>1, <1>2, StartIs, IterationExists
  <1>5. h \in [0..n -> WalkStates] /\ h[0] = Start(s) /\ \A k \in 1..n : h[k] = Level(g, q, h[k - 1], k)
    <2>1. h \in [0..n -> WalkStates] /\ h[0] = Start(s) /\ \A k \in 1..n : h[k] = F[<< h[k - 1], k >>]
      BY <1>4 DEF Iterates
    <2>2. \A k \in 1..n : k - 1 \in 0..n
      BY <1>1
    <2> QED
      BY <1>3, <2>1, <2>2
  <1>6. h = Steps(h)
    <2>1. \A k \in 0..n : k = 0 \/ k \in 1..n
      BY <1>1
    <2>2. \A k \in 0..n : h[k] = IF k = 0 THEN Start(s) ELSE Level(g, q, h[k - 1], k)
      BY <1>5, <2>1
    <2>3. h = [k \in 0..n |-> h[k]]
      BY <1>5
    <2> QED
      BY <2>2, <2>3
  <1> DEFINE walk == CHOOSE f : f = Steps(f)
  <1>7. Walk(g, q, s) = walk
    BY DEF Walk, Levels, n
  <1>8. walk = Steps(walk)
    BY <1>6
  <1> HIDE DEF walk
  <1>9. walk[0] = Start(s) /\ \A k \in 1..n : walk[k] = Level(g, q, walk[k - 1], k)
    <2>1. 0 \in 0..n /\ \A k \in 1..n : k \in 0..n /\ k # 0
      BY <1>1
    <2>2. \A k \in 0..n : walk[k] = IF k = 0 THEN Start(s) ELSE Level(g, q, walk[k - 1], k)
      BY <1>8
    <2> QED
      BY <2>1, <2>2
  <1>10. \A k \in 0..n : walk[k] = h[k]
    <2> DEFINE Good == {k \in Nat : k <= n => walk[k] = h[k]}
    <2>1. Good \in SUBSET Nat /\ 0 \in Good
      BY <1>5, <1>9
    <2>2. ASSUME NEW k \in Good PROVE k + 1 \in Good
      <3>1. k \in Nat /\ k + 1 \in Nat
        OBVIOUS
      <3>2. SUFFICES ASSUME k + 1 <= n PROVE walk[k + 1] = h[k + 1]
        BY <3>1
      <3>3. walk[k] = h[k] /\ k + 1 \in 1..n /\ (k + 1) - 1 = k
        BY <1>1, <3>1, <3>2
      <3> QED
        BY <1>5, <1>9, <3>3
    <2> HIDE DEF Good
    <2>3. \A k \in 0..n : k \in Good
      BY <1>1, <2>1, <2>2, Induction
    <2> QED
      BY <1>1, <2>3 DEF Good
  <1>11. walk = [k \in 0..n |-> walk[k]]
    BY <1>8
  <1>12. walk = h
    BY <1>5, <1>10, <1>11
  <1> QED
    BY <1>5, <1>7, <1>12 DEF n

-----------------------------------------------------------------------------
(* What is within reach, and the walk that left nothing out.               *)
LEMMA NeighboursTyped ==
  ASSUME NEW g \in Graphs, NEW q, NEW S
  PROVE  NeighboursOf(g, q, S) \in SUBSET Nodes
  <1>1. g.nodes \in SUBSET Nodes
    BY DEF Graphs
  <1> QED
    BY <1>1 DEF NeighboursOf, Neighbours, Wanted

LEMMA WithinIs ==
  ASSUME NEW g \in Graphs, NEW q \in Questions, NEW s \in Nodes
  PROVE  /\ Within(g, q, s)[0] = {s}
         /\ \A k \in 1..q.depth :
              Within(g, q, s)[k] = Within(g, q, s)[k - 1] \union NeighboursOf(g, q, Within(g, q, s)[k - 1])
  <1> DEFINE n == q.depth
             F == [p \in (SUBSET Nodes) \X (1..n) |-> p[1] \union NeighboursOf(g, q, p[1])]
             Steps(f) == [k \in 0..n |-> IF k = 0 THEN {s} ELSE f[k - 1] \union
                            UNION {{l[3] : l \in Wanted(g, q, m)} : m \in f[k - 1]}]
  <1>1. n \in Nat
    BY DEF Questions
  <1> HIDE DEF n
  <1>2. F \in [(SUBSET Nodes) \X (1..n) -> SUBSET Nodes]
    <2> SUFFICES ASSUME NEW p \in (SUBSET Nodes) \X (1..n)
                 PROVE  p[1] \union NeighboursOf(g, q, p[1]) \in SUBSET Nodes
      OBVIOUS
    <2>1. p[1] \in SUBSET Nodes
      OBVIOUS
    <2> QED
      BY <2>1, NeighboursTyped
  <1>3. \A S \in SUBSET Nodes, k \in 1..n : F[<< S, k >>] = S \union NeighboursOf(g, q, S)
    OBVIOUS
  <1> HIDE DEF F
  <1>4. PICK h : Iterates(h, n, SUBSET Nodes, {s}, F)
    <2>1. {s} \in SUBSET Nodes
      OBVIOUS
    <2> QED
      BY <1>1, <1>2, <2>1, IterationExists
  <1>5. /\ h \in [0..n -> SUBSET Nodes] /\ h[0] = {s}
        /\ \A k \in 1..n : h[k] = h[k - 1] \union NeighboursOf(g, q, h[k - 1])
    <2>1. h \in [0..n -> SUBSET Nodes] /\ h[0] = {s} /\ \A k \in 1..n : h[k] = F[<< h[k - 1], k >>]
      BY <1>4 DEF Iterates
    <2>2. \A k \in 1..n : k - 1 \in 0..n
      BY <1>1
    <2>3. \A k \in 1..n : h[k] = h[k - 1] \union NeighboursOf(g, q, h[k - 1])
      BY <1>3, <2>1, <2>2
    <2> QED
      BY <2>1, <2>3
  <1>6. h = Steps(h)
    <2>1. \A k \in 0..n : k = 0 \/ k \in 1..n
      BY <1>1
    <2>2. \A k \in 0..n : h[k] = IF k = 0 THEN {s} ELSE h[k - 1] \union
                            UNION {{l[3] : l \in Wanted(g, q, m)} : m \in h[k - 1]}
      BY <1>5, <2>1 DEF NeighboursOf, Neighbours
    <2>3. h = [k \in 0..n |-> h[k]]
      BY <1>5
    <2> QED
      BY <2>2, <2>3
  <1> DEFINE reach == CHOOSE f : f = Steps(f)
  <1>7. Within(g, q, s) = reach
    BY DEF Within, n
  <1>8. reach = Steps(reach)
    BY <1>6
  <1> HIDE DEF reach
  <1>9. /\ reach[0] = {s}
        /\ \A k \in 1..n : reach[k] = reach[k - 1] \union NeighboursOf(g, q, reach[k - 1])
    <2>1. 0 \in 0..n /\ \A k \in 1..n : k \in 0..n /\ k # 0
      BY <1>1
    <2>2. \A k \in 0..n : reach[k] = IF k = 0 THEN {s} ELSE reach[k - 1] \union
                            UNION {{l[3] : l \in Wanted(g, q, m)} : m \in reach[k - 1]}
      BY <1>8
    <2> QED
      BY <2>1, <2>2 DEF NeighboursOf, Neighbours
  <1> QED
    BY <1>7, <1>9 DEF n

(* What is missing never gets less, so a walk that misses nothing at its   *)
(* end missed nothing on the way; no level shows more than the limit, and  *)
(* none what was not asked for.                                            *)
LEMMA WalkBounded ==
  ASSUME NEW g \in Graphs, NEW q \in Questions, NEW s \in Nodes \union {NOBODY}
  PROVE  LET w == Walk(g, q, s) IN
         /\ Len(w[q.depth].edges) <= q.limit * q.depth /\ AllSound(g, q, w[q.depth].edges)
         /\ Missing(w[q.depth]) = 0 => \A k \in 0..q.depth : Missing(w[k]) = 0
  <1> DEFINE w == Walk(g, q, s)
             n == q.depth
  <1>1. n \in Nat /\ q.limit \in Nat
    BY DEF Questions
  <1>2. /\ w \in [0..n -> WalkStates] /\ w[0] = Start(s)
        /\ \A k \in 1..n : w[k] = Level(g, q, w[k - 1], k)
    BY WalkIs
  <1> HIDE DEF w, n
  <1>3. \A k \in 0..n : Len(w[k].edges) \in Nat /\ Missing(w[k]) \in Int
    <2> SUFFICES ASSUME NEW v \in WalkStates PROVE Len(v.edges) \in Nat /\ Missing(v) \in Int
      BY <1>2
    <2>1. v.edges \in Seq(EdgeRows) /\ v.total \in Nat
      BY DEF WalkStates
    <2>2. Len(v.edges) \in Nat
      BY <2>1
    <2> QED
      BY <2>1, <2>2 DEF Missing
  <1>4. ASSUME NEW k \in 1..n
        PROVE  /\ Len(w[k].edges) <= Len(w[k - 1].edges) + q.limit /\ Missing(w[k]) >= Missing(w[k - 1])
               /\ AllSound(g, q, w[k - 1].edges) => AllSound(g, q, w[k].edges)
    <2>1. k \in Nat /\ k - 1 \in 0..n
      BY <1>1
    <2>2. w[k - 1] \in WalkStates /\ w[k] = Level(g, q, w[k - 1], k)
      BY <1>2, <2>1
    <2> QED
      BY <2>1, <2>2, LevelIs
  <1>5. Len(w[0].edges) = 0 /\ Missing(w[0]) = 0
    <2>1. Len(<< >>) = 0
      OBVIOUS
    <2> QED
      BY <1>2, <2>1, StartIs
  <1>6. Len(w[n].edges) <= q.limit * n /\ Missing(w[n]) >= 0
    <2> DEFINE Good == {k \in Nat : k <= n => Len(w[k].edges) <= q.limit * k /\ Missing(w[k]) >= 0}
    <2>1. Good \in SUBSET Nat /\ 0 \in Good
      BY <1>1, <1>5
    <2>2. ASSUME NEW k \in Good PROVE k + 1 \in Good
      <3>1. k \in Nat /\ k + 1 \in Nat
        OBVIOUS
      <3>2. SUFFICES ASSUME k + 1 <= n
            PROVE  Len(w[k + 1].edges) <= q.limit * (k + 1) /\ Missing(w[k + 1]) >= 0
        BY <3>1
      <3>3. k + 1 \in 1..n /\ (k + 1) - 1 = k /\ k \in 0..n /\ k + 1 \in 0..n
        BY <1>1, <3>1, <3>2
      <3>4. Len(w[k].edges) <= q.limit * k /\ Missing(w[k]) >= 0
        BY <3>3
      <3>5. Len(w[k + 1].edges) <= Len(w[k].edges) + q.limit /\ Missing(w[k + 1]) >= Missing(w[k])
        BY <1>4, <3>3
      <3>6. q.limit * (k + 1) = q.limit * k + q.limit /\ q.limit * k \in Nat
        BY <1>1, <3>1
      <3>7. /\ Len(w[k].edges) \in Nat /\ Len(w[k + 1].edges) \in Nat
            /\ Missing(w[k]) \in Int /\ Missing(w[k + 1]) \in Int
        BY <1>3, <3>3
      <3> DEFINE a == q.limit * k
                 b == q.limit * (k + 1)
                 x == Len(w[k].edges)
                 y == Len(w[k + 1].edges)
      <3>8. x <= a /\ b = a + q.limit /\ a \in Nat /\ y <= x + q.limit /\ x \in Nat /\ y \in Nat
        BY <3>4, <3>5, <3>6, <3>7
      <3> HIDE DEF a, b, x, y, Missing
      <3>9. y <= b
        BY <1>1, <3>8
      <3>10. Missing(w[k + 1]) >= 0
        BY <3>4, <3>5, <3>7
      <3> QED
        BY <3>9, <3>10 DEF b, y
    <2> HIDE DEF Good
    <2>3. \A k \in 0..n : k \in Good
      BY <1>1, <2>1, <2>2, Induction
    <2> QED
      BY <1>1, <2>3 DEF Good
  <1>7. ASSUME NEW k \in 0..n PROVE 0 <= Missing(w[k]) /\ Missing(w[k]) <= Missing(w[n])
    <2> DEFINE Good == {j \in Nat : j <= n => 0 <= Missing(w[j]) /\ Missing(w[n - j]) <= Missing(w[n])}
    <2>1. Good \in SUBSET Nat /\ 0 \in Good
      BY <1>1, <1>3, <1>5
    <2>2. ASSUME NEW j \in Good PROVE j + 1 \in Good
      <3>1. j \in Nat /\ j + 1 \in Nat
        OBVIOUS
      <3>2. SUFFICES ASSUME j + 1 <= n
            PROVE  0 <= Missing(w[j + 1]) /\ Missing(w[n - (j + 1)]) <= Missing(w[n])
        BY <3>1
      <3>3. /\ j + 1 \in 1..n /\ (j + 1) - 1 = j /\ j \in 0..n /\ j + 1 \in 0..n
            /\ n - j \in 1..n /\ n - j \in 0..n /\ n - (j + 1) \in 0..n /\ (n - j) - 1 = n - (j + 1)
            /\ n \in 0..n
        BY <1>1, <3>1, <3>2
      <3>4. 0 <= Missing(w[j]) /\ Missing(w[n - j]) <= Missing(w[n])
        BY <3>3
      <3>5. Missing(w[j]) <= Missing(w[j + 1]) /\ Missing(w[n - (j + 1)]) <= Missing(w[n - j])
        BY <1>4, <3>3
      <3>6. /\ Missing(w[j]) \in Int /\ Missing(w[j + 1]) \in Int /\ Missing(w[n - j]) \in Int
            /\ Missing(w[n - (j + 1)]) \in Int /\ Missing(w[n]) \in Int
        BY <1>3, <3>3
      <3> HIDE DEF Missing
      <3> QED
        BY <3>4, <3>5, <3>6
    <2> HIDE DEF Good
    <2>3. \A j \in 0..n : j \in Good
      BY <1>1, <2>1, <2>2, Induction
    <2>4. k \in 0..n /\ n - k \in 0..n /\ n - (n - k) = k
      BY <1>1
    <2> QED
      BY <1>1, <2>3, <2>4 DEF Good
  <1>8. AllSound(g, q, w[n].edges)
    <2> DEFINE Good == {k \in Nat : k <= n => AllSound(g, q, w[k].edges)}
    <2>1. Good \in SUBSET Nat /\ 0 \in Good
      <3>1. ToSet(w[0].edges) = {}
        BY <1>2, StartIs DEF ToSet
      <3> QED
        BY <3>1 DEF AllSound
    <2>2. ASSUME NEW k \in Good PROVE k + 1 \in Good
      <3>1. k \in Nat /\ k + 1 \in Nat
        OBVIOUS
      <3>2. SUFFICES ASSUME k + 1 <= n PROVE AllSound(g, q, w[k + 1].edges)
        BY <3>1
      <3>3. k + 1 \in 1..n /\ (k + 1) - 1 = k
        BY <1>1, <3>1, <3>2
      <3>4. AllSound(g, q, w[k].edges)
        BY <1>1, <3>1, <3>2
      <3> QED
        BY <1>4, <3>3, <3>4
    <2> HIDE DEF Good
    <2>3. \A k \in 0..n : k \in Good
      BY <1>1, <2>1, <2>2, Induction
    <2> QED
      BY <1>1, <2>3 DEF Good
  <1>9. Missing(w[n]) = 0 => \A k \in 0..n : Missing(w[k]) = 0
    <2> SUFFICES ASSUME Missing(w[n]) = 0, NEW k \in 0..n PROVE Missing(w[k]) = 0
      OBVIOUS
    <2>1. 0 <= Missing(w[k]) /\ Missing(w[k]) <= 0 /\ Missing(w[k]) \in Int
      BY <1>3, <1>7
    <2> QED
      BY <2>1
  <1> QED
    BY <1>6, <1>8, <1>9 DEF w, n

(* A walk that misses nothing has, level by level, the links of the nodes  *)
(* at each distance.                                                       *)
LEMMA WalkComplete ==
  ASSUME NEW g \in Graphs, NEW q \in Questions, NEW s \in Nodes, s # NOBODY,
         Missing(Walk(g, q, s)[q.depth]) = 0
  PROVE  \A k \in 1..q.depth :
           KeysAt(Walk(g, q, s)[q.depth].edges, k) = LinksOf(g, q, Distant(g, q, s, k - 1))
  <1> DEFINE w == Walk(g, q, s)
             n == q.depth
             reach == Within(g, q, s)
             far(k) == Distant(g, q, s, k)
             Holds(k) ==
               /\ w[k].visited = reach[k] /\ ToSet(w[k].frontier) = far(k)
               /\ k > 0 => NeighboursOf(g, q, reach[k - 1]) \subseteq reach[k]
               /\ \A row \in ToSet(w[k].edges) : row.depth \in 0..k
               /\ \A j \in 1..k : KeysAt(w[k].edges, j) = LinksOf(g, q, far(j - 1))
             Good == {k \in Nat : k <= n => Holds(k)}
  <1>1. n \in Nat
    BY DEF Questions
  <1>2. /\ w \in [0..n -> WalkStates] /\ w[0] = Start(s)
        /\ \A k \in 1..n : w[k] = Level(g, q, w[k - 1], k)
    BY WalkIs
  <1>3. \A k \in 0..n : Missing(w[k]) = 0
    BY WalkBounded
  <1>4. reach[0] = {s} /\ \A k \in 1..n : reach[k] = reach[k - 1] \union NeighboursOf(g, q, reach[k - 1])
    BY WithinIs
  <1>5. far(0) = {s} /\ \A k \in 1..n : far(k) = reach[k] \ reach[k - 1]
    BY <1>1 DEF Distant
  <1> HIDE DEF w, n, reach, far
  <1>6. 0 \in Good
    <2>1. Start(s).edges = << >> /\ Start(s).visited = {s} /\ ToSet(Start(s).frontier) = {s}
      BY StartIs
    <2>2. w[0].visited = reach[0] /\ ToSet(w[0].frontier) = far(0)
      BY <1>2, <1>4, <1>5, <2>1
    <2>3. ToSet(w[0].edges) = {}
      BY <1>2, <2>1 DEF ToSet
    <2> QED
      BY <2>2, <2>3
  <1>7. ASSUME NEW k \in Good PROVE k + 1 \in Good
    <2>1. k \in Nat /\ k + 1 \in Nat
      OBVIOUS
    <2>2. SUFFICES ASSUME k + 1 <= n PROVE Holds(k + 1)
      BY <2>1
    <2>3. k + 1 \in 1..n /\ (k + 1) - 1 = k /\ k \in 0..n /\ k + 1 \in 0..n /\ k <= n
      BY <1>1, <2>1, <2>2
    <2>4. Holds(k)
      BY <2>3
    <2> HIDE DEF Good
    <2> DEFINE linked == NeighboursOf(g, q, far(k))
               links == LinksOf(g, q, far(k))
    <2>5. /\ w[k] \in WalkStates /\ w[k + 1] = Level(g, q, w[k], k + 1)
          /\ Missing(w[k + 1]) = Missing(w[k])
      BY <1>2, <1>3, <2>3
    <2>6. /\ linked = NeighboursOf(g, q, ToSet(w[k].frontier))
          /\ links = LinksOf(g, q, ToSet(w[k].frontier))
      BY <2>4
    <2> HIDE DEF linked, links
    <2>7. /\ w[k + 1].visited = w[k].visited \union linked
          /\ ToSet(w[k + 1].frontier) = linked \ w[k].visited
          /\ \A row \in ToSet(w[k + 1].edges) : row \in ToSet(w[k].edges) \/ row.depth = k + 1
          /\ \A j \in Nat \ {k + 1} : DepthRows(w[k + 1].edges, j) = DepthRows(w[k].edges, j)
          /\ (\A row \in ToSet(w[k].edges) : row.depth # k + 1) =>
               KeysAt(w[k + 1].edges, k + 1) = links
      <3> DEFINE v == w[k]
                 m == k + 1
                 next == Level(g, q, v, m)
                 near == NeighboursOf(g, q, ToSet(v.frontier))
                 nearLinks == LinksOf(g, q, ToSet(v.frontier))
      <3>1. v \in WalkStates /\ m \in Nat /\ Missing(next) = Missing(v)
        BY <2>1, <2>5
      <3>2. w[k + 1] = next /\ linked = near /\ links = nearLinks
        BY <2>5, <2>6
      <3> HIDE DEF v, m
      <3>3. /\ next.visited = v.visited \union near
            /\ ToSet(next.frontier) = near \ v.visited
        BY <3>1, LevelIs
      <3>4. /\ \A row \in ToSet(next.edges) : row \in ToSet(v.edges) \/ row.depth = m
            /\ \A j \in Nat \ {m} : DepthRows(next.edges, j) = DepthRows(v.edges, j)
        BY <3>1, LevelIs
      <3>5. (\A row \in ToSet(v.edges) : row.depth # m) => KeysAt(next.edges, m) = nearLinks
        BY <3>1, LevelIs
      <3> HIDE DEF next, near, nearLinks
      <3> QED
        BY <3>2, <3>3, <3>4, <3>5 DEF v, m
    <2>8. NeighboursOf(g, q, reach[k]) \subseteq reach[k] \union linked
      <3>1. CASE k = 0
        BY <1>4, <1>5, <3>1 DEF linked
      <3>2. CASE k # 0
        <4>1. k \in 1..n
          BY <2>3, <3>2
        <4>2. reach[k] = reach[k - 1] \union far(k)
          BY <1>4, <1>5, <4>1
        <4>3. NeighboursOf(g, q, reach[k - 1]) \subseteq reach[k]
          BY <1>4, <4>1
        <4>4. NeighboursOf(g, q, reach[k]) = NeighboursOf(g, q, reach[k - 1]) \union NeighboursOf(g, q, far(k))
          BY <4>2 DEF NeighboursOf
        <4> QED
          BY <4>3, <4>4 DEF linked
      <3> QED
        BY <3>1, <3>2
    <2>9. linked \subseteq NeighboursOf(g, q, reach[k])
      <3>1. far(k) \subseteq reach[k]
        BY <1>1, <1>4, <1>5, <2>1, <2>3
      <3> QED
        BY <3>1 DEF linked, NeighboursOf
    <2>10. reach[k + 1] = reach[k] \union linked
      BY <1>4, <2>3, <2>8, <2>9
    <2>11. w[k + 1].visited = reach[k + 1] /\ ToSet(w[k + 1].frontier) = far(k + 1)
      BY <1>5, <2>3, <2>4, <2>7, <2>10
    <2>12. NeighboursOf(g, q, reach[k]) \subseteq reach[k + 1]
      BY <2>8, <2>10
    <2>13. \A row \in ToSet(w[k + 1].edges) : row.depth \in 0..k + 1
      BY <2>1, <2>4, <2>7
    <2>14. \A j \in 1..k + 1 :
             KeysAt(w[k + 1].edges, j) = LinksOf(g, q, far(j - 1))
      <3> SUFFICES ASSUME NEW j \in 1..k + 1
                   PROVE  KeysAt(w[k + 1].edges, j) = LinksOf(g, q, far(j - 1))
        OBVIOUS
      <3>1. CASE j = k + 1
        <4>1. \A row \in ToSet(w[k].edges) : row.depth # k + 1
          BY <2>1, <2>4
        <4> QED
          BY <2>3, <2>7, <3>1, <4>1 DEF links
      <3>2. CASE j # k + 1
        <4>1. j \in 1..k /\ j \in Nat \ {k + 1}
          BY <2>1, <3>2
        <4> QED
          BY <2>4, <2>7, <4>1 DEF KeysAt
      <3> QED
        BY <3>1, <3>2
    <2> QED
      BY <2>3, <2>11, <2>12, <2>13, <2>14
  <1>8. Good \in SUBSET Nat
    OBVIOUS
  <1> HIDE DEF Good
  <1>9. n \in Good
    <2>1. \A k \in 0..n : k \in Good
      BY <1>1, <1>6, <1>7, <1>8, Induction
    <2> QED
      BY <1>1, <2>1
  <1>10. Holds(n)
    BY <1>1, <1>9 DEF Good
  <1> QED
    BY <1>10 DEF w, n, far

-----------------------------------------------------------------------------
(* Matches: each node that matches is listed once.                         *)
LEMMA OrderIs ==
  ASSUME NEW S \in SUBSET Nodes, IsFiniteSet(S), NEW order \in Bijection(1..Cardinality(S), S)
  PROVE  /\ order \in Seq(Nodes) /\ \A i \in DOMAIN order : order[i] \in S
         /\ \A i, j \in DOMAIN order : order[i] = order[j] => i = j
  <1> DEFINE n == Cardinality(S)
  <1>1. n \in Nat
    BY FS_CardinalityType
  <1>2. order \in [1..n -> S] /\ \A i, j \in 1..n : order[i] = order[j] => i = j
    BY DEF Bijection, Injection, IsInjective
  <1> HIDE DEF n
  <1>3. order \in [1..n -> Nodes]
    BY <1>2
  <1> QED
    BY <1>1, <1>2, <1>3

LEMMA HitsIs ==
  ASSUME NEW g \in Graphs, IsFiniteSet(g.nodes), NEW name \in DOMAIN Tier
  PROVE  /\ Hits(g, name) \in Seq(Nodes) /\ \A i \in DOMAIN Hits(g, name) : Hits(g, name)[i] \in g.nodes
         /\ \A i, j \in DOMAIN Hits(g, name) : Hits(g, name)[i] = Hits(g, name)[j] => i = j
  <1> DEFINE S == g.nodes \intersect DOMAIN Tier[name]
             key == [n \in S |-> SortKey(g, name, n)]
  <1>1. S \in SUBSET g.nodes /\ S \in SUBSET Nodes /\ IsFiniteSet(S)
    <2>1. g.nodes \in SUBSET Nodes
      BY DEF Graphs
    <2> QED
      BY <2>1, FS_Subset
  <1>2. \A n \in S : SortKey(g, name, n) \in Seq(Int) /\ Len(SortKey(g, name, n)) = 5 /\ SortKey(g, name, n)[5] = n
    <2> SUFFICES ASSUME NEW n \in S
        PROVE SortKey(g, name, n) \in Seq(Int) /\ Len(SortKey(g, name, n)) = 5 /\ SortKey(g, name, n)[5] = n
      OBVIOUS
    <2>1. Tier[name][n] \in Int
      BY QueriesAssumption DEF QueriesAssumption
    <2>2. KindTier(n) \in Int
      BY DEF KindTier
    <2>3. -InDeg(g, n) \in Int
      <3>1. Ins(g, n) \in Seq(Edges)
        <4>1. "incoming" \in Directions /\ "incoming" # "outgoing"
          BY DEF Directions
        <4>2. EdgesOf(g, n, "incoming") \in Seq(Edges)
          BY <4>1, EdgesOfIs
        <4> QED
          BY <4>1, <4>2 DEF EdgesOf
      <3>2. Len(Ins(g, n)) \in Nat
        BY <3>1
      <3> QED
        BY <3>2 DEF InDeg
    <2>4. Length[n] \in Int /\ n \in Int
      BY <1>1, NumbersAssumed
    <2> DEFINE a == Tier[name][n]
               b == KindTier(n)
               c == -InDeg(g, n)
               d == Length[n]
    <2> HIDE DEF a, b, c, d
    <2>5. a \in Int /\ b \in Int /\ c \in Int /\ d \in Int /\ SortKey(g, name, n) = << a, b, c, d, n >>
      BY <2>1, <2>2, <2>3, <2>4 DEF a, b, c, d, SortKey
    <2>6. << a, b, c, d, n >> \in Seq(Int) /\ Len(<< a, b, c, d, n >>) = 5 /\ << a, b, c, d, n >>[5] = n
      BY <2>4, <2>5
    <2> QED
      BY <2>5, <2>6
  <1>3. key \in [S -> Seq(Int)] /\ \A n \in S : key[n] = SortKey(g, name, n)
    <2> HIDE DEF S
    <2> QED
      BY <1>2
  <1> HIDE DEF key, S
  <1>4. key \in Keys(S, 5)
    BY <1>2, <1>3 DEF Keys
  <1>5. InOrder(key) \in Bijection(1..Cardinality(S), S)
    BY <1>1, <1>4, InOrderIs
  <1>6. Hits(g, name) = InOrder(key)
    BY DEF Hits, key, S
  <1> QED
    BY <1>1, <1>5, <1>6, OrderIs

LEMMA AtHitsIs ==
  ASSUME NEW g \in Graphs, IsFiniteSet(g.nodes), NEW file, NEW line
  PROVE  /\ AtHits(g, file, line) \in Seq(Nodes)
         /\ \A i \in DOMAIN AtHits(g, file, line) : AtHits(g, file, line)[i] \in g.nodes
         /\ \A i, j \in DOMAIN AtHits(g, file, line) :
              AtHits(g, file, line)[i] = AtHits(g, file, line)[j] => i = j
  <1> DEFINE S == {m \in g.nodes : File[m] = file /\ Line[m] <= line}
             key == [n \in S |-> << -Line[n], n >>]
  <1>1. S \in SUBSET g.nodes /\ S \in SUBSET Nodes /\ IsFiniteSet(S)
    <2>1. g.nodes \in SUBSET Nodes /\ S \in SUBSET g.nodes
      BY DEF Graphs
    <2> QED
      BY <2>1, FS_Subset
  <1> HIDE DEF S
  <1>2. \A n \in S : << -Line[n], n >> \in Seq(Int) /\ Len(<< -Line[n], n >>) = 2 /\ << -Line[n], n >>[2] = n
    <2> SUFFICES ASSUME NEW n \in S
        PROVE << -Line[n], n >> \in Seq(Int) /\ Len(<< -Line[n], n >>) = 2 /\ << -Line[n], n >>[2] = n
      OBVIOUS
    <2>1. Line[n] \in Int /\ n \in Int
      BY <1>1, NumbersAssumed
    <2> QED
      BY <2>1
  <1>3. key \in [S -> Seq(Int)] /\ \A n \in S : key[n] = << -Line[n], n >>
    BY <1>2
  <1> HIDE DEF key
  <1>4. key \in Keys(S, 2)
    BY <1>2, <1>3 DEF Keys
  <1>5. InOrder(key) \in Bijection(1..Cardinality(S), S)
    BY <1>1, <1>4, InOrderIs
  <1>6. AtHits(g, file, line) = InOrder(key)
    BY DEF AtHits, key, S
  <1> QED
    BY <1>1, <1>5, <1>6, OrderIs

LEMMA ResolveIs ==
  ASSUME NEW g \in Graphs, IsFiniteSet(g.nodes), NEW q, q.name \in DOMAIN Tier
  PROVE  Resolve(g, q).subject \in g.nodes \union {NOBODY}
  <1> DEFINE hits == Hits(g, q.name)
  <1>1. hits # <<>> => hits[1] \in g.nodes
    <2>1. hits \in Seq(Nodes) /\ \A i \in DOMAIN hits : hits[i] \in g.nodes
      BY HitsIs
    <2> HIDE DEF hits
    <2>2. hits # <<>> => 1 \in DOMAIN hits
      BY <2>1
    <2> QED
      BY <2>1, <2>2
  <1> HIDE DEF hits
  <1> QED
    BY <1>1 DEF Resolve, hits

-----------------------------------------------------------------------------
(* refs.                                                                   *)
LEMMA RefsIs ==
  ASSUME NEW g \in Graphs, IsFiniteSet(g.nodes), NEW q \in Questions, q.name \in DOMAIN Tier
  PROVE  RefsComplete(g, q, Refs(g, q))
  <1> DEFINE s == Resolve(g, q).subject
             end == Walk(g, q, s)[q.depth]
             r == Refs(g, q)
  <1>1. s \in Nodes \union {NOBODY}
    <2>1. g.nodes \in SUBSET Nodes
      BY DEF Graphs
    <2> QED
      BY <2>1, ResolveIs
  <1>2. r.subject = s /\ r.total = end.total /\ r.returned = Len(end.edges) /\ r.edges = end.edges
    BY DEF Refs, Levels
  <1> HIDE DEF s, r
  <1>3. Len(end.edges) <= q.limit * q.depth /\ AllSound(g, q, end.edges)
    BY <1>1, WalkBounded
  <1>4. ASSUME s # NOBODY, end.total = Len(end.edges), NEW k \in 1..q.depth
        PROVE  KeysAt(end.edges, k) = LinksOf(g, q, Distant(g, q, s, k - 1))
    <2>1. s \in Nodes
      BY <1>1, <1>4
    <2>2. end \in WalkStates
      <3>1. q.depth \in 0..q.depth
        BY DEF Questions
      <3>2. Walk(g, q, s) \in [0..q.depth -> WalkStates]
        BY <1>1, WalkIs
      <3> QED
        BY <3>1, <3>2
    <2>3. Len(end.edges) \in Nat
      BY <2>2 DEF WalkStates
    <2>4. Missing(Walk(g, q, s)[q.depth]) = 0
      BY <1>4, <2>3 DEF Missing
    <2> QED
      BY <1>4, <2>1, <2>4, WalkComplete
  <1> HIDE DEF end
  <1>5. r.returned <= q.limit * q.depth
    BY <1>2, <1>3
  <1>6. ASSUME NEW i \in DOMAIN r.edges
        PROVE  << r.edges[i].direction, r.edges[i].relation, r.edges[i].other >> \in Wanted(g, q, r.edges[i].from)
    <2>1. r.edges[i] \in ToSet(end.edges)
      BY <1>2, <1>6 DEF ToSet
    <2> QED
      BY <1>3, <2>1 DEF AllSound, Sound
  <1>7. ASSUME Complete(r), NEW k \in 1..q.depth
        PROVE  {EdgeKey(e) : e \in At(r, k)}
                 = UNION {{<< n, l[3], l[2] >> : l \in Wanted(g, q, n)} : n \in Distant(g, q, r.subject, k - 1)}
    <2>1. KeysAt(end.edges, k) = LinksOf(g, q, Distant(g, q, s, k - 1))
      BY <1>2, <1>4, <1>7 DEF Complete
    <2>2. At(r, k) = DepthRows(end.edges, k)
      BY <1>2 DEF At, DepthRows, ToSet
    <2> QED
      BY <1>2, <2>1, <2>2 DEF KeysAt, LinksOf, Links
  <1> QED
    BY <1>5, <1>6, <1>7 DEF RefsComplete, r

-----------------------------------------------------------------------------
(* context and find: what they count.                                      *)
Everything(q) ==
  q.directions = Directions /\ q.relations = Relations /\ q.only = Nodes

(* The rows of a node that are in a direction and under a relation.        *)
Group(rows, dir, r) == {i \in DOMAIN rows : rows[i].direction = dir /\ rows[i].relation = r}

LEMMA SideCount ==
  ASSUME NEW g \in Graphs, NEW n \in Nodes, NEW q, Everything(q), NEW level \in Nat,
         NEW dir \in Directions, NEW side \in Directions, NEW r \in Relations, NEW T
  PROVE  CountAt(Side(g, n, q, level, side), DOMAIN Side(g, n, q, level, side),
                 {x \in EdgeRows : x.direction = dir /\ x.relation = r /\ x.other \in T})
           = IF side = dir THEN EdgeCount(g, n, dir, r, T) ELSE 0
  <1> DEFINE rows == Rows(g, n, side, level)
             es == EdgesOf(g, n, side)
             X == {x \in EdgeRows : x.direction = dir /\ x.relation = r /\ x.other \in T}
  <1>1. Side(g, n, q, level, side) = rows
    BY DEF Side, Everything
  <1>2. /\ rows \in Seq(EdgeRows) /\ DOMAIN rows = DOMAIN es
        /\ \A i \in DOMAIN rows :
             /\ rows[i].direction = side /\ rows[i].relation = es[i].relation
             /\ rows[i].other = Far(es[i], side)
    BY RowsAre
  <1>3. Cardinality({k \in DOMAIN es : es[k].relation = r /\ Far(es[k], side) \in T})
          = EdgeCount(g, n, side, r, T)
    BY EdgesOfCount
  <1> HIDE DEF rows, es
  <1>4. \A i \in DOMAIN rows : rows[i] \in EdgeRows
    BY <1>2
  <1>5. CASE side = dir
    <2>1. {k \in DOMAIN rows : rows[k] \in X} = {k \in DOMAIN es : es[k].relation = r /\ Far(es[k], side) \in T}
      BY <1>2, <1>4, <1>5
    <2> QED
      BY <1>1, <1>3, <1>5, <2>1 DEF CountAt
  <1>6. CASE side # dir
    <2>1. {k \in DOMAIN rows : rows[k] \in X} = {}
      BY <1>2, <1>6
    <2> QED
      BY <1>1, <1>6, <2>1, FS_EmptySet DEF CountAt
  <1> QED
    BY <1>5, <1>6

LEMMA EdgeCountIs ==
  ASSUME NEW g \in Graphs, NEW n, NEW dir, NEW r, NEW T
  PROVE  EdgeCount(g, n, dir, r, T) \in Nat
  <1> DEFINE P == {i \in DOMAIN g.edges : /\ Near(g.edges[i], dir) = n
                                          /\ g.edges[i].relation = r /\ Far(g.edges[i], dir) \in T}
  <1>1. g.edges \in Seq(Edges) /\ P \in SUBSET DOMAIN g.edges
    BY DEF Graphs
  <1>2. Cardinality(P) \in Nat
    BY <1>1, PlacesFinite
  <1> QED
    BY <1>2 DEF EdgeCount

LEMMA GroupCount ==
  ASSUME NEW g \in Graphs, NEW n \in Nodes, NEW q, Everything(q), NEW level \in Nat,
         NEW dir \in Directions, NEW r \in Relations
  PROVE  Cardinality(Group(Gather(g, n, q, level), dir, r)) = EdgeCount(g, n, dir, r, g.nodes)
  <1> DEFINE all == Gather(g, n, q, level)
             sides == Sides(g, n, q, level)
             out == Side(g, n, q, level, "outgoing")
             in == Side(g, n, q, level, "incoming")
             P == Passing(sides, g, q)
             X == {x \in EdgeRows : x.direction = dir /\ x.relation = r}
             Y == {x \in EdgeRows : x.direction = dir /\ x.relation = r /\ x.other \in g.nodes}
  <1>1. /\ all \in Seq(EdgeRows) /\ sides \in Seq(EdgeRows) /\ Arranged(all, sides, P)
        /\ P \in SUBSET DOMAIN sides
    BY SidesAre DEF Passing
  <1>2. /\ "outgoing" \in Directions /\ "incoming" \in Directions
        /\ dir = "outgoing" \/ dir = "incoming"
    BY DEF Directions
  <1>3. sides = out \o in /\ out \in Seq(EdgeRows) /\ in \in Seq(EdgeRows)
    BY <1>2, SidesAre DEF Sides
  <1>4. /\ CountAt(out, DOMAIN out, Y) = IF "outgoing" = dir THEN EdgeCount(g, n, dir, r, g.nodes) ELSE 0
        /\ CountAt(in, DOMAIN in, Y) = IF "incoming" = dir THEN EdgeCount(g, n, dir, r, g.nodes) ELSE 0
    BY <1>2, SideCount
  <1>5. P = {i \in DOMAIN sides : sides[i].other \in g.nodes}
    <2>1. \A i \in DOMAIN sides : sides[i] \in EdgeRows
      BY <1>1
    <2>2. \A i \in DOMAIN sides : sides[i].relation \in Relations /\ sides[i].other \in Nodes
      BY <2>1 DEF EdgeRows
    <2> QED
      BY <2>2 DEF Passing, Everything
  <1> HIDE DEF all, sides, out, in, P
  <1>6. Cardinality(Group(all, dir, r)) = CountAt(all, DOMAIN all, X)
    <2>1. \A i \in DOMAIN all : all[i] \in EdgeRows
      BY <1>1
    <2>2. Group(all, dir, r) = {i \in DOMAIN all : all[i] \in X}
      BY <2>1 DEF Group
    <2> QED
      BY <2>2 DEF CountAt
  <1>7. CountAt(all, DOMAIN all, X) = CountAt(sides, P, X)
    <2> HIDE DEF X
    <2> QED
      BY <1>1, ArrangedCount
  <1>8. CountAt(sides, P, X) = CountAt(sides, DOMAIN sides, Y)
    <2>1. {i \in P : sides[i] \in X} = {i \in DOMAIN sides : sides[i] \in Y}
      BY <1>5
    <2> QED
      BY <2>1 DEF CountAt
  <1>9. CountAt(sides, DOMAIN sides, Y) = CountAt(out, DOMAIN out, Y) + CountAt(in, DOMAIN in, Y)
    <2> HIDE DEF Y
    <2> QED
      BY <1>3, ConcatCount
  <1>10. EdgeCount(g, n, dir, r, g.nodes) \in Nat
    BY EdgeCountIs
  <1> HIDE DEF X, Y
  <1> QED
    BY <1>2, <1>4, <1>6, <1>7, <1>8, <1>9, <1>10 DEF all

LEMMA DegreeIs ==
  ASSUME NEW g \in Graphs, NEW n, NEW dir \in Directions, NEW r \in Relations
  PROVE  Degree(g, n)[dir][r] = EdgeCount(g, n, dir, r, Nodes)
  <1> DEFINE es == EdgesOf(g, n, dir)
  <1>1. es \in Seq(Edges)
    BY EdgesOfIs
  <1>2. Cardinality({k \in DOMAIN es : es[k].relation = r /\ Far(es[k], dir) \in Nodes})
          = EdgeCount(g, n, dir, r, Nodes)
    BY EdgesOfCount
  <1>3. Degree(g, n)[dir][r] = Cardinality({k \in DOMAIN es : es[k].relation = r})
    <2>1. CASE dir = "outgoing"
      BY <2>1 DEF Degree, EdgesOf
    <2>2. CASE dir = "incoming"
      BY <2>2 DEF Degree, EdgesOf
    <2> QED
      BY <2>1, <2>2 DEF Directions
  <1> HIDE DEF es
  <1>4. \A k \in DOMAIN es : Far(es[k], dir) \in Nodes
    <2>1. \A k \in DOMAIN es : es[k] \in Edges
      BY <1>1
    <2> QED
      BY <2>1 DEF Edges, Far
  <1>5. {k \in DOMAIN es : es[k].relation = r}
          = {k \in DOMAIN es : es[k].relation = r /\ Far(es[k], dir) \in Nodes}
    BY <1>4
  <1> QED
    BY <1>2, <1>3, <1>5

(* The edges that find counts are those to nodes, and the dangling ones.   *)
LEMMA DanglingIs ==
  ASSUME NEW g \in Graphs, NEW n, NEW dir \in Directions, NEW r
  PROVE  EdgeCount(g, n, dir, r, Nodes)
           = EdgeCount(g, n, dir, r, g.nodes) + Cardinality(Dangling(g, n, dir, r))
  <1> DEFINE all(T) == {i \in DOMAIN g.edges : /\ Near(g.edges[i], dir) = n
                                               /\ g.edges[i].relation = r /\ Far(g.edges[i], dir) \in T}
             D == Dangling(g, n, dir, r)
             A == all(Nodes)
             B == all(g.nodes)
  <1>1. g.edges \in Seq(Edges) /\ g.nodes \in SUBSET Nodes
    BY DEF Graphs
  <1>2. \A i \in DOMAIN g.edges : g.edges[i].source \in Nodes /\ g.edges[i].target \in Nodes
    <2>1. \A i \in DOMAIN g.edges : g.edges[i] \in Edges
      BY <1>1
    <2> QED
      BY <2>1 DEF Edges
  <1>3. \A i \in DOMAIN g.edges : Far(g.edges[i], dir) \in Nodes
    BY <1>2 DEF Far
  <1>4. D = {i \in DOMAIN g.edges : /\ Near(g.edges[i], dir) = n
                                    /\ g.edges[i].relation = r /\ Far(g.edges[i], dir) \notin g.nodes}
    <2>1. CASE dir = "outgoing"
      BY <2>1 DEF Dangling, Near, Far
    <2>2. CASE dir = "incoming"
      BY <2>2 DEF Dangling, Near, Far
    <2> QED
      BY <2>1, <2>2 DEF Directions
  <1>5. A = B \union D /\ B \intersect D = {}
    BY <1>1, <1>3, <1>4
  <1>6. B \in SUBSET DOMAIN g.edges /\ D \in SUBSET DOMAIN g.edges
    BY <1>4
  <1> HIDE DEF A, B, D, all
  <1>7. /\ IsFiniteSet(B) /\ Cardinality(B) \in Nat
        /\ IsFiniteSet(D) /\ Cardinality(D) \in Nat
    BY <1>1, <1>6, PlacesFinite
  <1>8. Cardinality(A) = Cardinality(B) + Cardinality(D) - Cardinality({})
    BY <1>5, <1>7, FS_Union
  <1>9. Cardinality(A) = Cardinality(B) + Cardinality(D)
    BY <1>7, <1>8, FS_EmptySet
  <1> QED
    BY <1>9 DEF EdgeCount, A, B, D, all

(* context gathers without filters, and counts by relation.                *)
LEMMA ContextIs ==
  ASSUME NEW g \in Graphs, IsFiniteSet(g.nodes), NEW q \in Questions,
         NEW dir \in Directions, NEW r \in Relations
  PROVE  LET s == Resolve(g, q).subject
             c == Context(g, q) IN
         /\ c.subject = s
         /\ s \in g.nodes =>
              /\ c.degree[dir][r] = EdgeCount(g, s, dir, r, g.nodes)
              /\ Len(c.groups[dir][r]) <= q.limit /\ Len(c.groups[dir][r]) <= c.degree[dir][r]
  <1> DEFINE s == Resolve(g, q).subject
             c == Context(g, q)
             p == [q EXCEPT !.directions = Directions, !.relations = Relations, !.only = Nodes]
             all == Gather(g, s, p, 1)
             P == Group(all, dir, r)
             picked == Picked(all, P)
             sorted == ByPath(picked)
  <1>1. c.subject = s
    BY DEF Context
  <1>2. ASSUME s \in g.nodes
        PROVE  /\ c.degree[dir][r] = EdgeCount(g, s, dir, r, g.nodes)
               /\ Len(c.groups[dir][r]) <= q.limit /\ Len(c.groups[dir][r]) <= c.degree[dir][r]
    <2>1. s \in Nodes /\ s # NOBODY
      BY <1>2, NumbersAssumed DEF Graphs
    <2>2. Everything(p)
      BY DEF Everything, Questions
    <2>3. q.limit \in Nat
      BY DEF Questions
    <2>4. c.degree[dir][r] = Cardinality(P)
      <3>1. CASE dir = "outgoing"
        BY <2>1, <3>1 DEF Context, Group
      <3>2. CASE dir = "incoming"
        BY <2>1, <3>2 DEF Context, Group
      <3> QED
        BY <3>1, <3>2 DEF Directions
    <2>5. c.groups[dir][r] = Take(sorted, q.limit)
      BY <2>1 DEF Context, Group
    <2> HIDE DEF p, c
    <2>6. Cardinality(P) = EdgeCount(g, s, dir, r, g.nodes)
      BY <2>1, <2>2, GroupCount
    <2>7. all \in Seq(EdgeRows)
      BY <2>1, SidesAre
    <2>8. P \in SUBSET DOMAIN all
      BY DEF Group
    <2> HIDE DEF all, P
    <2>9. picked \in Seq(EdgeRows) /\ Len(picked) = Cardinality(P)
      BY <2>7, <2>8, PickedAre
    <2> HIDE DEF picked
    <2>10. Arranged(sorted, picked, DOMAIN picked)
      BY <2>9, ByPathIs
    <2> HIDE DEF sorted
    <2>11. sorted \in Seq(EdgeRows) /\ Len(sorted) = Len(picked)
      BY <2>9, <2>10, PermutedIs
    <2>12. Len(Take(sorted, q.limit)) <= q.limit /\ Len(Take(sorted, q.limit)) <= Len(sorted)
      BY <2>3, <2>11, TakeIs
    <2> QED
      BY <2>4, <2>5, <2>6, <2>9, <2>11, <2>12
  <1> QED
    BY <1>1, <1>2

LEMMA CountsAgreeIs ==
  ASSUME NEW g \in Graphs, IsFiniteSet(g.nodes), NEW q \in Questions, NEW n \in g.nodes
  PROVE  CountsAgree(g, q, Degree(g, n), n)
  <1> DEFINE p == [q EXCEPT !.id = n]
             c == Context(g, p)
  <1>1. n \in Nodes
    BY DEF Graphs
  <1>2. p \in Questions /\ p.id = n
    BY <1>1 DEF Questions
  <1> HIDE DEF p
  <1>3. Resolve(g, p).subject = n
    BY <1>2 DEF Resolve
  <1>4. ASSUME NEW dir \in Directions, NEW r \in Relations
        PROVE  Degree(g, n)[dir][r] = c.degree[dir][r] + Cardinality(Dangling(g, n, dir, r))
    <2>1. c.degree[dir][r] = EdgeCount(g, n, dir, r, g.nodes)
      BY <1>2, <1>3, ContextIs
    <2> HIDE DEF c
    <2>2. Degree(g, n)[dir][r] = EdgeCount(g, n, dir, r, Nodes)
      BY DegreeIs
    <2> QED
      BY <2>1, <2>2, DanglingIs
  <1> HIDE DEF c
  <1> QED
    BY <1>4 DEF CountsAgree, c, p

(* The matches that find returns are distinct nodes.                       *)
LEMMA FindIs ==
  ASSUME NEW g \in Graphs, IsFiniteSet(g.nodes), NEW q \in Questions,
         q.at > 0 \/ q.name \in DOMAIN Tier
  PROVE  LET r == Find(g, q) IN
         /\ r.returned = Cardinality({r.matches[i].node : i \in DOMAIN r.matches})
         /\ \A i \in DOMAIN r.matches : CountsAgree(g, q, r.matches[i].degree, r.matches[i].node)
  <1> DEFINE hits == IF q.at = 0 THEN Hits(g, q.name) ELSE AtHits(g, q.name, q.at)
             taken == Take(hits, q.limit)
             r == Find(g, q)
             named == {r.matches[i].node : i \in DOMAIN r.matches}
  <1>1. q.at \in Nat /\ q.limit \in Nat
    BY DEF Questions
  <1>2. /\ hits \in Seq(Nodes) /\ \A i \in DOMAIN hits : hits[i] \in g.nodes
        /\ \A i, j \in DOMAIN hits : hits[i] = hits[j] => i = j
    <2>1. CASE q.at = 0
      BY <2>1, HitsIs
    <2>2. CASE q.at # 0
      BY <2>2, AtHitsIs
    <2> QED
      BY <2>1, <2>2
  <1>3. /\ r.returned = Len(taken)
        /\ r.matches = [i \in DOMAIN taken |-> [node |-> taken[i], degree |-> Degree(g, taken[i])]]
    BY DEF Find
  <1> HIDE DEF hits, r
  <1>4. /\ taken \in Seq(Nodes) /\ Len(taken) \in Nat
        /\ \A i \in DOMAIN taken : i \in DOMAIN hits /\ taken[i] = hits[i]
    BY <1>1, <1>2, TakeIs
  <1> HIDE DEF taken
  <1>5. /\ \A i \in DOMAIN taken : taken[i] \in g.nodes
        /\ \A i, j \in DOMAIN taken : taken[i] = taken[j] => i = j
    BY <1>2, <1>4
  <1>6. DOMAIN r.matches = DOMAIN taken /\ DOMAIN taken = 1..Len(taken)
    BY <1>3, <1>4
  <1>7. \A i \in DOMAIN taken : r.matches[i].node = taken[i] /\ r.matches[i].degree = Degree(g, taken[i])
    BY <1>3
  <1>8. \A i \in DOMAIN r.matches : CountsAgree(g, q, r.matches[i].degree, r.matches[i].node)
    BY <1>5, <1>6, <1>7, CountsAgreeIs
  <1>9. Cardinality(named) = Len(taken)
    <2>1. IsFiniteSet(1..Len(taken)) /\ Cardinality(1..Len(taken)) = Len(taken)
      BY <1>4, IntervalFinite
    <2>2. taken \in [1..Len(taken) -> named] /\ \A x \in named : \E i \in 1..Len(taken) : taken[i] = x
      <3>1. taken = [i \in 1..Len(taken) |-> taken[i]]
        BY <1>4
      <3>2. \A i \in 1..Len(taken) : taken[i] \in named
        BY <1>6, <1>7
      <3>3. \A x \in named : \E i \in 1..Len(taken) : taken[i] = x
        BY <1>6, <1>7
      <3> HIDE DEF named
      <3> QED
        BY <3>1, <3>2, <3>3
    <2> HIDE DEF named
    <2>3. ExistsBijection(1..Len(taken), named)
      BY <1>5, <1>6, <2>2 DEF ExistsBijection, Bijection, Injection, Surjection, IsInjective
    <2>4. Cardinality(named) = Cardinality(1..Len(taken))
      BY <2>1, <2>3, FS_Bijection
    <2> QED
      BY <2>1, <2>4
  <1>10. r.returned = Cardinality(named)
    BY <1>3, <1>9
  <1> QED
    BY <1>8, <1>10 DEF r

-----------------------------------------------------------------------------
(* The servers and the commands: an answer is of a graph that was on disk. *)
ServerStates ==
  [pc : {"off", "loaded", "listening", "serving", "killed"}, version : Nat,
   port : Ports \union {NONE}, queue : Seq(Clients)]
ClientStates ==
  [pc : {"idle", "locate", "connect", "waiting", "direct", "done"}, q : Commands \union {NONE},
   port : Ports \union {NONE}, by : Servers \union {"direct", NONE, FOREIGN, CUT}, version : Nat]

ServedInv ==
  /\ history \in Histories /\ disk \in 1..Len(history)
  /\ server \in [Servers -> ServerStates] /\ client \in [Clients -> ClientStates]
  /\ portFile \in Ports \union {NONE}
  /\ \A s \in Servers : server[s].pc # "off" => server[s].version \in 1..disk
  /\ \A c \in Clients : /\ client[c].pc # "idle" => client[c].q \in Commands
                        /\ Answered(c) => client[c].pc = "done" /\ client[c].version \in 1..disk

LEMMA AnsweringIs == NONE \notin Servers \union {"direct"} /\ FOREIGN \notin Servers \union {"direct"}
                     /\ CUT \notin Servers \union {"direct"}
  BY ServerAssumption DEF ServerAssumption

LEMMA HistoryIs ==
  ASSUME NEW h \in Histories
  PROVE  /\ h \in Seq(Graphs) /\ Len(h) \in Nat /\ Len(h) > 0
         /\ \A i \in 1..Len(h) : h[i] \in Graphs /\ IsFiniteSet(h[i].nodes)
  <1>1. h \in Seq(Graphs) /\ Len(h) > 0 /\ \A i \in DOMAIN h : IsFiniteSet(h[i].nodes)
    BY ServerAssumption DEF ServerAssumption
  <1> QED
    BY <1>1

LEMMA ServedInitially == Init => ServedInv
  <1> SUFFICES ASSUME Init PROVE ServedInv
    OBVIOUS
  <1>1. << >> \in Seq(Clients) /\ Len(history) \in Nat /\ Len(history) > 0
    BY HistoryIs DEF Init
  <1>2. server \in [Servers -> ServerStates] /\ client \in [Clients -> ClientStates]
    BY <1>1 DEF Init, ServerStates, ClientStates
  <1>3. \A s \in Servers : server[s].pc = "off"
    BY DEF Init
  <1>4. \A c \in Clients : client[c].pc = "idle" /\ ~Answered(c)
    BY AnsweringIs DEF Init, Answered
  <1> QED
    BY <1>1, <1>2, <1>3, <1>4 DEF Init, ServedInv

(* A step of a command changes the command only, and of a server only the  *)
(* connections that wait for it.                                           *)
LEMMA CommandStep ==
  ASSUME ServedInv, NEW c \in Clients, NEW next \in ClientStates,
         client' = [client EXCEPT ![c] = next],
         next.pc # "idle" => next.q \in Commands,
         next.by \in Servers \union {"direct"} => next.pc = "done" /\ next.version \in 1..disk,
         UNCHANGED <<history, disk, portFile>>,
         server' \in [Servers -> ServerStates],
         \A s \in Servers : server'[s].pc = server[s].pc /\ server'[s].version = server[s].version
  PROVE  ServedInv'
  <1>1. client' \in [Clients -> ClientStates]
    BY DEF ServedInv
  <1>2. \A d \in Clients : client'[d] = IF d = c THEN next ELSE client[d]
    BY DEF ServedInv
  <1>3. \A d \in Clients : /\ client'[d].pc # "idle" => client'[d].q \in Commands
                           /\ Answered(d)' => client'[d].pc = "done" /\ client'[d].version \in 1..disk
    BY <1>2 DEF ServedInv, Answered
  <1>4. \A s \in Servers : server'[s].pc # "off" => server'[s].version \in 1..disk
    BY DEF ServedInv
  <1> QED
    BY <1>1, <1>3, <1>4 DEF ServedInv

LEMMA ServerStep ==
  ASSUME ServedInv, NEW s \in Servers, NEW next \in ServerStates,
         server' = [server EXCEPT ![s] = next],
         next.pc # "off" => next.version \in 1..disk,
         UNCHANGED <<history, disk, client>>, portFile' \in Ports \union {NONE}
  PROVE  ServedInv'
  <1>1. server' \in [Servers -> ServerStates]
    BY DEF ServedInv
  <1>2. \A t \in Servers : server'[t].pc # "off" => server'[t].version \in 1..disk
    BY DEF ServedInv
  <1>3. \A d \in Clients : /\ client'[d].pc # "idle" => client'[d].q \in Commands
                           /\ Answered(d)' => client'[d].pc = "done" /\ client'[d].version \in 1..disk
    BY DEF ServedInv, Answered
  <1> QED
    BY <1>1, <1>2, <1>3 DEF ServedInv

LEMMA RefreshServed ==
  ASSUME ServedInv, Refresh
  PROVE  ServedInv'
  <1>1. disk \in 1..Len(history) /\ Len(history) \in Nat /\ disk < Len(history) /\ disk' = disk + 1
    BY HistoryIs DEF ServedInv, Refresh
  <1>2. disk' \in 1..Len(history) /\ \A v \in 1..disk : v \in 1..disk'
    BY <1>1
  <1>3. UNCHANGED <<history, server, portFile, client>>
    BY DEF Refresh
  <1> QED
    BY <1>2, <1>3 DEF ServedInv, Answered

LEMMA ServerServed ==
  ASSUME ServedInv, NEW s \in Servers, Load(s) \/ Listen(s) \/ Announce(s)
  PROVE  ServedInv'
  <1>0. /\ server \in [Servers -> ServerStates] /\ server[s] \in ServerStates
        /\ server[s].pc # "off" => server[s].version \in 1..disk
        /\ portFile \in Ports \union {NONE} /\ disk \in 1..Len(history) /\ Len(history) \in Nat
    BY HistoryIs DEF ServedInv
  <1>1. CASE Load(s)
    <2> DEFINE next == [server[s] EXCEPT !.pc = "loaded", !.version = disk]
    <2>1. disk \in Nat /\ disk \in 1..disk
      BY <1>0
    <2>a. next \in ServerStates /\ next.version \in 1..disk
      BY <1>0, <2>1 DEF ServerStates
    <2>2. server' = [server EXCEPT ![s] = next] /\ UNCHANGED <<history, disk, portFile, client>>
      BY <1>0, <1>1 DEF Load, ServerStates
    <2> HIDE DEF next
    <2> QED
      BY <1>0, <2>a, <2>2, ServerStep
  <1>2. CASE Listen(s)
    <2>1. PICK p \in Ports : server' = [server EXCEPT ![s].pc = "listening", ![s].port = p]
      BY <1>2 DEF Listen
    <2> DEFINE next == [server[s] EXCEPT !.pc = "listening", !.port = p]
    <2>2. next \in ServerStates /\ next.version \in 1..disk
      BY <1>0, <1>2 DEF ServerStates, Listen
    <2>3. server' = [server EXCEPT ![s] = next] /\ UNCHANGED <<history, disk, portFile, client>>
      BY <1>0, <1>2, <2>1 DEF Listen, ServerStates
    <2> HIDE DEF next
    <2> QED
      BY <1>0, <2>2, <2>3, ServerStep
  <1>3. CASE Announce(s)
    <2> DEFINE next == [server[s] EXCEPT !.pc = "serving"]
    <2>1. next \in ServerStates /\ next.version \in 1..disk
      BY <1>0, <1>3 DEF ServerStates, Announce
    <2>2. server' = [server EXCEPT ![s] = next] /\ UNCHANGED <<history, disk, client>>
      BY <1>0, <1>3 DEF Announce, ServerStates
    <2>3. portFile' \in Ports \union {NONE}
      BY <1>0, <1>3 DEF Announce, ServerStates
    <2> HIDE DEF next
    <2> QED
      BY <2>1, <2>2, <2>3, ServerStep
  <1> QED
    BY <1>1, <1>2, <1>3

LEMMA ReplyServed ==
  ASSUME ServedInv, NEW s \in Servers, Reply(s)
  PROVE  ServedInv'
  <1> DEFINE c == Head(server[s].queue)
  <1>0. /\ server \in [Servers -> ServerStates] /\ server[s] \in ServerStates
        /\ server[s].pc = "serving" /\ server[s].version \in 1..disk
        /\ server[s].queue \in Seq(Clients) /\ server[s].queue # << >>
        /\ disk \in 1..Len(history) /\ Len(history) \in Nat
    BY HistoryIs DEF ServedInv, ServerStates, Reply
  <1>1. c \in Clients /\ Tail(server[s].queue) \in Seq(Clients)
    BY <1>0
  <1>2. client[c] \in ClientStates /\ (client[c].pc # "idle" => client[c].q \in Commands)
    BY <1>1 DEF ServedInv
  <1>3. server' \in [Servers -> ServerStates]
    BY <1>0, <1>1 DEF Reply, ServerStates
  <1>4. \A t \in Servers : server'[t].pc = server[t].pc /\ server'[t].version = server[t].version
    BY <1>0 DEF Reply, ServerStates
  <1> DEFINE next == IF client[c].pc # "waiting" THEN client[c]
                     ELSE [client[c] EXCEPT !.pc = "done", !.by = s, !.version = server[s].version]
  <1>5. next \in ClientStates /\ (next.pc # "idle" => next.q \in Commands)
    <2>1. server[s].version \in Nat
      BY <1>0
    <2> HIDE DEF c
    <2> QED
      BY <1>2, <2>1 DEF ClientStates
  <1>6. next.by \in Servers \union {"direct"} => next.pc = "done" /\ next.version \in 1..disk
    BY <1>0, <1>1, <1>2 DEF ServedInv, Answered, ClientStates
  <1>7. client' = [client EXCEPT ![c] = next]
    <2>1. client \in [Clients -> ClientStates]
      BY DEF ServedInv
    <2>2. client' = IF client[c].pc # "waiting" THEN client
                    ELSE [client EXCEPT ![c].pc = "done", ![c].by = s, ![c].version = server[s].version]
      BY DEF Reply
    <2> HIDE DEF c
    <2> QED
      BY <1>1, <2>1, <2>2 DEF ClientStates
  <1>8. UNCHANGED <<history, disk, portFile>>
    BY DEF Reply
  <1> HIDE DEF next, c
  <1> QED
    BY <1>1, <1>3, <1>4, <1>5, <1>6, <1>7, <1>8, CommandStep

LEMMA KillServed ==
  ASSUME ServedInv, NEW s \in Servers, Kill(s)
  PROVE  ServedInv'
  <1>0. /\ server \in [Servers -> ServerStates] /\ client \in [Clients -> ClientStates]
        /\ server[s] \in ServerStates /\ server[s].version \in 1..disk
    BY DEF ServedInv, Kill
  <1>1. server' \in [Servers -> ServerStates]
    <2>1. << >> \in Seq(Clients)
      OBVIOUS
    <2> QED
      BY <1>0, <2>1 DEF Kill, ServerStates
  <1>2. \A t \in Servers : server'[t].pc # "off" => server'[t].version \in 1..disk
    BY <1>0 DEF Kill, ServerStates, ServedInv
  <1>3. PICK cut : client' = [c \in Clients |->
          IF client[c].pc # "waiting" \/ c \notin ToSet(server[s].queue) THEN client[c]
          ELSE IF c \in cut THEN [client[c] EXCEPT !.pc = "done", !.by = CUT]
          ELSE [client[c] EXCEPT !.pc = "direct"]]
    BY DEF Kill
  <1>4. ASSUME NEW c \in Clients
        PROVE  /\ client'[c] \in ClientStates
               /\ client'[c].pc # "idle" => client'[c].q \in Commands
               /\ Answered(c)' => client'[c].pc = "done" /\ client'[c].version \in 1..disk
    <2>1. client[c] \in ClientStates
      BY <1>0
    <2>2. \/ client'[c] = client[c]
          \/ client[c].pc = "waiting" /\ client'[c] = [client[c] EXCEPT !.pc = "done", !.by = CUT]
          \/ client[c].pc = "waiting" /\ client'[c] = [client[c] EXCEPT !.pc = "direct"]
      BY <1>3
    <2>3. CASE client'[c] = client[c]
      BY <2>1, <2>3 DEF ServedInv, Answered
    <2>4. CASE client[c].pc = "waiting" /\ client'[c] = [client[c] EXCEPT !.pc = "done", !.by = CUT]
      BY <2>1, <2>4, AnsweringIs DEF ServedInv, Answered, ClientStates
    <2>5. CASE client[c].pc = "waiting" /\ client'[c] = [client[c] EXCEPT !.pc = "direct"]
      BY <2>1, <2>5 DEF ServedInv, Answered, ClientStates
    <2> QED
      BY <2>2, <2>3, <2>4, <2>5
  <1>5. client' \in [Clients -> ClientStates]
    BY <1>3, <1>4
  <1>6. UNCHANGED <<history, disk, portFile>>
    BY DEF Kill
  <1> QED
    BY <1>1, <1>2, <1>4, <1>5, <1>6 DEF ServedInv

LEMMA ClientServed ==
  ASSUME ServedInv, NEW c \in Clients, Ask(c) \/ Command(c) \/ TimedOut(c)
  PROVE  ServedInv'
  <1>0. /\ client \in [Clients -> ClientStates] /\ client[c] \in ClientStates
        /\ server \in [Servers -> ServerStates] /\ portFile \in Ports \union {NONE}
        /\ client[c].pc # "idle" => client[c].q \in Commands
        /\ Answered(c) => client[c].pc = "done" /\ client[c].version \in 1..disk
        /\ disk \in 1..Len(history) /\ Len(history) \in Nat
    BY HistoryIs DEF ServedInv
  <1> DEFINE Moves(next) ==
        /\ client' = [client EXCEPT ![c] = next] /\ next \in ClientStates
        /\ next.pc # "idle" => next.q \in Commands
        /\ next.by \in Servers \union {"direct"} => next.pc = "done" /\ next.version \in 1..disk
  <1>1. ASSUME NEW step \in {"locate", "direct", "waiting"}, client[c].pc \notin {"idle", "done"}, Goto(c, step)
        PROVE  \E next : Moves(next)
    <2> DEFINE next == [client[c] EXCEPT !.pc = step]
    <2>1. next \in ClientStates /\ next.q \in Commands /\ next.by = client[c].by
      BY <1>0, <1>1 DEF ClientStates
    <2>2. client' = [client EXCEPT ![c] = next]
      BY <1>0, <1>1 DEF Goto, ClientStates
    <2>3. next.by \notin Servers \union {"direct"}
      BY <1>0, <1>1, <2>1 DEF Answered
    <2> HIDE DEF next
    <2> QED
      BY <2>1, <2>2, <2>3
  <1>2. ASSUME Ask(c) PROVE \E next : Moves(next)
    <2>1. PICK q \in Commands : client' = [client EXCEPT ![c].pc = "locate", ![c].q = q]
      BY <1>2 DEF Ask
    <2> DEFINE next == [client[c] EXCEPT !.pc = "locate", !.q = q]
    <2>2. next \in ClientStates /\ next.q \in Commands /\ next.by = client[c].by
      BY <1>0 DEF ClientStates
    <2>3. client' = [client EXCEPT ![c] = next]
      BY <1>0, <2>1 DEF ClientStates
    <2>4. next.by \notin Servers \union {"direct"}
      BY <1>0, <1>2, <2>2 DEF Answered, Ask
    <2> HIDE DEF next
    <2> QED
      BY <2>2, <2>3, <2>4
  <1>3. ASSUME Locate(c) PROVE \E next : Moves(next)
    <2> DEFINE step == IF portFile = NONE THEN "direct" ELSE "connect"
               next == [client[c] EXCEPT !.pc = step, !.port = portFile]
    <2>1. next \in ClientStates /\ next.q \in Commands /\ next.by = client[c].by
      BY <1>0, <1>3 DEF ClientStates, Locate
    <2>2. client' = [client EXCEPT ![c] = next]
      BY <1>0, <1>3 DEF ClientStates, Locate
    <2>3. next.by \notin Servers \union {"direct"}
      BY <1>0, <1>3, <2>1 DEF Answered, Locate
    <2> HIDE DEF next
    <2> QED
      BY <2>1, <2>2, <2>3
  <1>4. ASSUME client[c].pc = "connect", client' = [client EXCEPT ![c].pc = "done", ![c].by = FOREIGN]
        PROVE  \E next : Moves(next)
    <2> DEFINE next == [client[c] EXCEPT !.pc = "done", !.by = FOREIGN]
    <2>1. next \in ClientStates /\ next.q \in Commands /\ next.by = FOREIGN
      BY <1>0, <1>4 DEF ClientStates
    <2>2. client' = [client EXCEPT ![c] = next]
      BY <1>0, <1>4 DEF ClientStates
    <2> HIDE DEF next
    <2> QED
      BY <2>1, <2>2, AnsweringIs
  <1>5. ASSUME Direct(c) PROVE \E next : Moves(next)
    <2> DEFINE next == [client[c] EXCEPT !.pc = "done", !.by = "direct", !.version = disk]
    <2>a. disk \in Nat /\ disk \in 1..disk
      BY <1>0
    <2>1. next \in ClientStates /\ next.q \in Commands /\ next.pc = "done" /\ next.version \in 1..disk
      BY <1>0, <1>5, <2>a DEF ClientStates, Direct
    <2>2. client' = [client EXCEPT ![c] = next]
      BY <1>0, <1>5 DEF ClientStates, Direct
    <2> HIDE DEF next
    <2> QED
      BY <2>1, <2>2
  <1>6. \E next : Moves(next)
    <2> HIDE DEF Moves
    <2> QED
      BY <1>1, <1>2, <1>3, <1>4, <1>5 DEF Command, Refused, Connect, TimedOut
  <1>7. UNCHANGED <<history, disk, portFile>>
    BY DEF Ask, Command, Locate, Refused, Connect, TimedOut, Direct
  <1>8. /\ server' \in [Servers -> ServerStates]
        /\ \A s \in Servers : server'[s].pc = server[s].pc /\ server'[s].version = server[s].version
    <2>1. CASE UNCHANGED server
      BY <1>0, <2>1
    <2>2. ASSUME NEW s \in Servers, server' = [server EXCEPT ![s].queue = Append(@, c)]
          PROVE  /\ server' \in [Servers -> ServerStates]
                 /\ \A t \in Servers : server'[t].pc = server[t].pc /\ server'[t].version = server[t].version
      <3>1. server[s].queue \in Seq(Clients)
        BY <1>0 DEF ServerStates
      <3>2. Append(server[s].queue, c) \in Seq(Clients)
        BY <3>1
      <3> QED
        BY <1>0, <2>2, <3>2 DEF ServerStates
    <2> QED
      BY <2>1, <2>2 DEF Ask, Command, Locate, Refused, Connect, TimedOut, Direct
  <1>9. PICK next : Moves(next)
    BY <1>6
  <1> QED
    BY <1>7, <1>8, <1>9, CommandStep

LEMMA ServedStep ==
  ASSUME ServedInv, [Next]_vars
  PROVE  ServedInv'
  <1>1. CASE UNCHANGED vars
    BY <1>1 DEF vars, ServedInv, Answered
  <1>2. CASE Bind
    BY <1>2 DEF Bind, ServedInv, Answered
  <1>3. ASSUME NEW s \in Servers, Load(s) \/ Listen(s) \/ Announce(s) \/ Reply(s) \/ Kill(s)
        PROVE  ServedInv'
    BY <1>3, ServerServed, ReplyServed, KillServed
  <1> QED
    BY <1>1, <1>2, <1>3, RefreshServed, ClientServed DEF Next

LEMMA Served == Spec => []ServedInv
  BY ServedInitially, ServedStep, PTL DEF Spec

-----------------------------------------------------------------------------
(* Whatever graph a command is answered of: an answer of refs that says it *)
(* left nothing out has, hop by hop, the neighbours the edges give; find   *)
(* returns distinct nodes and counts what context counts and the dangling  *)
(* edges; a group of context shows no more than it counts.                 *)
THEOREM AnswersAlwaysMeetReference == Spec => []AnswersMeetReference
  <1>1. ServedInv => AnswersMeetReference
    <2> SUFFICES ASSUME ServedInv, NEW c \in Clients, Answered(c)
        PROVE  /\ client[c].version \in 1..disk
               /\ MeetsReference(history[client[c].version], client[c].q, AnswerTo(c))
      BY DEF AnswersMeetReference
    <2> DEFINE v == client[c].version
               g == history[v]
               q == client[c].q
    <2>1. v \in 1..disk /\ q \in Commands
      BY DEF ServedInv
    <2>2. g \in Graphs /\ IsFiniteSet(g.nodes)
      BY <2>1, HistoryIs DEF ServedInv
    <2>3. q \in Questions /\ ((q.cmd = "find" /\ q.at > 0) \/ q.name \in DOMAIN Tier)
      BY <2>1, ServerAssumption DEF ServerAssumption
    <2>4. AnswerTo(c) = Answer(g, q)
      BY DEF AnswerTo
    <2> HIDE DEF v, g, q
    <2>5. ASSUME q.cmd = "refs" PROVE RefsComplete(g, q, Answer(g, q))
      <3>1. Answer(g, q) = Refs(g, q) /\ q.name \in DOMAIN Tier
        BY <2>3, <2>5 DEF Answer
      <3> QED
        BY <2>2, <2>3, <3>1, RefsIs
    <2>6. ASSUME q.cmd = "find"
          PROVE  LET r == Answer(g, q) IN
                 /\ r.returned = Cardinality({r.matches[i].node : i \in DOMAIN r.matches})
                 /\ \A i \in DOMAIN r.matches : CountsAgree(g, q, r.matches[i].degree, r.matches[i].node)
      <3>1. Answer(g, q) = Find(g, q)
        BY <2>6 DEF Answer
      <3>2. LET r == Find(g, q) IN
            /\ r.returned = Cardinality({r.matches[i].node : i \in DOMAIN r.matches})
            /\ \A i \in DOMAIN r.matches : CountsAgree(g, q, r.matches[i].degree, r.matches[i].node)
        BY <2>2, <2>3, FindIs
      <3> QED
        BY <3>1, <3>2
    <2>7. ASSUME q.cmd = "context", Answer(g, q).subject # NOBODY,
                 NEW dir \in Directions, NEW rel \in Relations
          PROVE  LET r == Answer(g, q) IN
                 Len(r.groups[dir][rel]) <= q.limit /\ Len(r.groups[dir][rel]) <= r.degree[dir][rel]
      <3>1. Answer(g, q) = Context(g, q) /\ q.name \in DOMAIN Tier
        BY <2>3, <2>7 DEF Answer
      <3>2. Context(g, q).subject \in g.nodes
        BY <2>2, <2>3, <2>7, <3>1, ContextIs, ResolveIs
      <3> QED
        BY <2>2, <2>3, <3>1, <3>2, ContextIs
    <2>8. MeetsReference(g, q, Answer(g, q))
      BY <2>5, <2>6, <2>7 DEF MeetsReference
    <2> QED
      BY <2>1, <2>4, <2>8 DEF v, g, q
  <1> QED
    BY <1>1, Served, PTL
=============================================================================
