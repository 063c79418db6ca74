--------------------------- MODULE ListsTheorems ---------------------------
(***************************************************************************)
(* What the list operations keep: the elements of the resulting sequence   *)
(* and that none occurs twice.                                             *)
(***************************************************************************)
EXTENDS Lists, TLAPS, FiniteSetTheorems, SequenceTheorems

\* A sequence without duplicates over S.
NoDup(S) == {s \in Seq(S) : IsInjective(s)}

-----------------------------------------------------------------------------
(* Append, concatenation, splitting. *)

\* Appending a new element keeps a list free of duplicates (list_add_tail).
LEMMA AppendNew ==
  ASSUME NEW S, NEW s \in NoDup(S), NEW t \in S, t \notin Range(s)
  PROVE  /\ Append(s, t) \in NoDup(S)
         /\ Range(Append(s, t)) = Range(s) \cup {t}
<1>. s \in Seq(S)  BY DEF NoDup
<1>1. Range(Append(s, t)) = Range(s) \cup {t}
  <2>1. Append(s, t) = s \o <<t>>  BY AppendIsConcat
  <2>2. <<t>> \in Seq(S) /\ Range(<<t>>) = {t}  BY DEF Range
  <2>3. Range(s \o <<t>>) = Range(s) \cup Range(<<t>>)  BY <2>2, RangeConcatenation
  <2>. QED  BY <2>1, <2>2, <2>3
<1>2. Append(s, t) \in Seq(S) /\ IsInjective(Append(s, t))
  <2>1. Append(s, t) \in Seq(S) /\ DOMAIN Append(s, t) = 1 .. Len(s) + 1
    BY AppendProperties, LenProperties
  <2>2. \A i \in 1 .. Len(s) : Append(s, t)[i] = s[i] /\ s[i] # t
    BY AppendProperties, LenProperties DEF Range
  <2>3. Append(s, t)[Len(s) + 1] = t  BY AppendProperties
  <2>4. \A i, j \in 1 .. Len(s) : s[i] = s[j] => i = j
    BY LenProperties DEF NoDup, IsInjective
  <2>5. Len(s) \in Nat  BY LenProperties
  <2>. QED  BY <2>1, <2>2, <2>3, <2>4, <2>5 DEF IsInjective
<1>. QED  BY <1>1, <1>2 DEF NoDup

\* Joining two lists that share no element.
LEMMA ConcatDisjoint ==
  ASSUME NEW S, NEW s \in NoDup(S), NEW u \in NoDup(S), Range(s) \cap Range(u) = {}
  PROVE  /\ s \o u \in NoDup(S)
         /\ Range(s \o u) = Range(s) \cup Range(u)
<1>. s \in Seq(S) /\ u \in Seq(S)  BY DEF NoDup
<1>1. Range(s \o u) = Range(s) \cup Range(u)  BY RangeConcatenation
<1>2. s \o u \in Seq(S) /\ Len(s \o u) = Len(s) + Len(u)  BY ConcatProperties
<1>3. Len(s) \in Nat /\ Len(u) \in Nat /\ DOMAIN s = 1 .. Len(s) /\ DOMAIN u = 1 .. Len(u)
      /\ DOMAIN (s \o u) = 1 .. Len(s) + Len(u)
  BY <1>2, LenProperties
<1>4. \A i \in 1 .. Len(s) + Len(u) :
         (s \o u)[i] = IF i <= Len(s) THEN s[i] ELSE u[i - Len(s)]
  BY <1>3
<1>5. \A i \in 1 .. Len(s), j \in 1 .. Len(u) : s[i] # u[j]
  BY <1>3 DEF Range
<1>6. /\ \A i, j \in 1 .. Len(s) : s[i] = s[j] => i = j
      /\ \A i, j \in 1 .. Len(u) : u[i] = u[j] => i = j
  BY <1>3 DEF NoDup, IsInjective
<1>7. ASSUME NEW i \in 1 .. Len(s) + Len(u), NEW j \in 1 .. Len(s) + Len(u),
             (s \o u)[i] = (s \o u)[j]
      PROVE  i = j
  <2>1. CASE i <= Len(s) /\ j <= Len(s)  BY <2>1, <1>3, <1>4, <1>6, <1>7
  <2>2. CASE i <= Len(s) /\ j > Len(s)   BY <2>2, <1>3, <1>4, <1>5, <1>7
  <2>3. CASE i > Len(s) /\ j <= Len(s)   BY <2>3, <1>3, <1>4, <1>5, <1>7
  <2>4. CASE i > Len(s) /\ j > Len(s)
    <3>1. i - Len(s) \in 1 .. Len(u) /\ j - Len(s) \in 1 .. Len(u)  BY <2>4, <1>3
    <3>2. u[i - Len(s)] = u[j - Len(s)]  BY <2>4, <1>3, <1>4, <1>7
    <3>3. i - Len(s) = j - Len(s)  BY <3>1, <3>2, <1>6
    <3>. QED  BY <3>3, <1>3
  <2>. QED  BY <1>3, <2>1, <2>2, <2>3, <2>4
<1>. QED  BY <1>1, <1>2, <1>3, <1>7 DEF NoDup, IsInjective

\* A piece of a list.
LEMMA Piece ==
  ASSUME NEW S, NEW s \in NoDup(S), NEW m \in Int, NEW n \in Int,
         1 <= m, n <= Len(s)
  PROVE  /\ SubSeq(s, m, n) \in NoDup(S)
         /\ \A e : e \in Range(SubSeq(s, m, n)) <=> \E i \in m .. n : e = s[i]
<1>. s \in Seq(S) /\ Len(s) \in Nat /\ DOMAIN s = 1 .. Len(s)  BY LenProperties DEF NoDup
<1>0. \A i \in m .. n : s[i] \in S  BY ElementOfSeq
<1>1. SubSeq(s, m, n) \in Seq(S)
      /\ Len(SubSeq(s, m, n)) = (IF m <= n THEN n - m + 1 ELSE 0)
      /\ \A i \in 1 .. n - m + 1 : SubSeq(s, m, n)[i] = s[m + i - 1]
  BY <1>0, SubSeqProperties
<1>2. DOMAIN SubSeq(s, m, n) = 1 .. n - m + 1  BY <1>1, LenProperties
<1>3. IsInjective(SubSeq(s, m, n))
  <2>1. \A i, j \in 1 .. Len(s) : s[i] = s[j] => i = j  BY DEF NoDup, IsInjective
  <2>2. \A i \in 1 .. n - m + 1 : m + i - 1 \in 1 .. Len(s)  OBVIOUS
  <2>. QED  BY <1>1, <1>2, <2>1, <2>2 DEF IsInjective
<1>4. \A e : e \in Range(SubSeq(s, m, n)) <=> \E i \in m .. n : e = s[i]
  <2>1. \A k \in 1 .. n - m + 1 : m + k - 1 \in m .. n  OBVIOUS
  <2>2. \A i \in m .. n : i - m + 1 \in 1 .. n - m + 1 /\ m + (i - m + 1) - 1 = i  OBVIOUS
  <2>3. \A i \in m .. n : SubSeq(s, m, n)[i - m + 1] = s[i]  BY <1>1, <2>2
  <2>4. ASSUME NEW e \in Range(SubSeq(s, m, n))  PROVE  \E i \in m .. n : e = s[i]
    <3>1. PICK k \in 1 .. n - m + 1 : e = SubSeq(s, m, n)[k]  BY <1>2 DEF Range
    <3>. QED  BY <1>1, <2>1, <3>1
  <2>5. ASSUME NEW i \in m .. n  PROVE  s[i] \in Range(SubSeq(s, m, n))
    BY <1>2, <2>2, <2>3 DEF Range
  <2>. QED  BY <2>4, <2>5
<1>. QED  BY <1>1, <1>3, <1>4 DEF NoDup

\* Cutting a list in two after its n first elements loses and doubles none.
LEMMA Split ==
  ASSUME NEW S, NEW s \in NoDup(S), NEW n \in 0 .. Len(s)
  PROVE  /\ SubSeq(s, 1, n) \in NoDup(S)
         /\ SubSeq(s, n + 1, Len(s)) \in NoDup(S)
         /\ Range(SubSeq(s, 1, n)) \cup Range(SubSeq(s, n + 1, Len(s))) = Range(s)
         /\ Range(SubSeq(s, 1, n)) \cap Range(SubSeq(s, n + 1, Len(s))) = {}
<1>. s \in Seq(S) /\ Len(s) \in Nat /\ DOMAIN s = 1 .. Len(s)  BY LenProperties DEF NoDup
<1>. DEFINE a == SubSeq(s, 1, n)
            b == SubSeq(s, n + 1, Len(s))
<1>1. a \in NoDup(S) /\ \A e : e \in Range(a) <=> \E i \in 1 .. n : e = s[i]
  <2>1. 1 \in Int /\ 1 <= 1 /\ n \in Int /\ n <= Len(s)  OBVIOUS
  <2>. QED  BY <2>1, Piece
<1>2. b \in NoDup(S) /\ \A e : e \in Range(b) <=> \E i \in n + 1 .. Len(s) : e = s[i]
  <2>1. n + 1 \in Int /\ 1 <= n + 1 /\ Len(s) <= Len(s)  OBVIOUS
  <2>. QED  BY <2>1, Piece
<1>3. \A i, j \in 1 .. Len(s) : s[i] = s[j] => i = j  BY DEF NoDup, IsInjective
<1>4. \A e : e \in Range(s) <=> \E i \in 1 .. Len(s) : e = s[i]  BY DEF Range
<1>. HIDE DEF a, b
<1>5. Range(a) \cup Range(b) = Range(s)  BY <1>1, <1>2, <1>4
<1>6. Range(a) \cap Range(b) = {}  BY <1>1, <1>2, <1>3
<1>. QED  BY <1>1, <1>2, <1>5, <1>6 DEF a, b

\* Taking the first element of a list.
LEMMA TakeHead ==
  ASSUME NEW S, NEW s \in NoDup(S), s # <<>>
  PROVE  /\ Head(s) \in S /\ Head(s) \in Range(s)
         /\ Tail(s) \in NoDup(S)
         /\ Range(Tail(s)) = Range(s) \ {Head(s)}
<1>. s \in Seq(S) /\ Len(s) \in Nat \ {0} /\ DOMAIN s = 1 .. Len(s)
  BY LenProperties, EmptySeq DEF NoDup
<1>1. Head(s) = s[1] /\ Head(s) \in S  BY HeadTailProperties
<1>2. Tail(s) = SubSeq(s, 2, Len(s))  BY TailIsSubSeq
<1>3. /\ Tail(s) \in NoDup(S)
      /\ \A e : e \in Range(Tail(s)) <=> \E i \in 2 .. Len(s) : e = s[i]
  <2>1. PICK m \in Int : m = 2  OBVIOUS
  <2>2. 1 <= m /\ Len(s) \in Int /\ Len(s) <= Len(s)  BY <2>1
  <2>3. /\ SubSeq(s, m, Len(s)) \in NoDup(S)
        /\ \A e : e \in Range(SubSeq(s, m, Len(s))) <=> \E i \in m .. Len(s) : e = s[i]
    BY <2>2, Piece
  <2>. QED  BY <1>2, <2>1, <2>3
<1>4. \A i, j \in 1 .. Len(s) : s[i] = s[j] => i = j  BY DEF NoDup, IsInjective
<1>5. \A e : e \in Range(s) <=> \E i \in 1 .. Len(s) : e = s[i]  BY DEF Range
<1>6. s[1] \in Range(s)  BY <1>5
<1>7. Range(Tail(s)) = Range(s) \ {s[1]}  BY <1>3, <1>4, <1>5
<1>. QED  BY <1>1, <1>3, <1>6, <1>7

\* list_del removes one element and keeps the others.
LEMMA WithoutOne ==
  ASSUME NEW S, NEW s \in NoDup(S), NEW t \in Range(s)
  PROVE  /\ Without(s, t) \in NoDup(S)
         /\ Range(Without(s, t)) = Range(s) \ {t}
<1>. s \in Seq(S) /\ Len(s) \in Nat /\ DOMAIN s = 1 .. Len(s)  BY LenProperties DEF NoDup
<1>1. PICK p \in 1 .. Len(s) : s[p] = t  BY DEF Range
<1>2. \A i, j \in 1 .. Len(s) : s[i] = s[j] => i = j  BY DEF NoDup, IsInjective
<1>3. Position(s, t) = p
  <2>1. Position(s, t) \in DOMAIN s /\ s[Position(s, t)] = t  BY <1>1 DEF Position
  <2>. QED  BY <1>1, <1>2, <2>1
<1>. DEFINE a == SubSeq(s, 1, p - 1)
            b == SubSeq(s, p + 1, Len(s))
<1>4. a \in NoDup(S) /\ \A e : e \in Range(a) <=> \E i \in 1 .. p - 1 : e = s[i]
  <2>1. 1 \in Int /\ 1 <= 1 /\ p - 1 \in Int /\ p - 1 <= Len(s)  OBVIOUS
  <2>. QED  BY <2>1, Piece
<1>5. b \in NoDup(S) /\ \A e : e \in Range(b) <=> \E i \in p + 1 .. Len(s) : e = s[i]
  <2>1. p + 1 \in Int /\ 1 <= p + 1 /\ Len(s) <= Len(s)  OBVIOUS
  <2>. QED  BY <2>1, Piece
<1>6. Without(s, t) = a \o b  BY <1>3 DEF Without
<1>7. \A e : e \in Range(s) <=> \E i \in 1 .. Len(s) : e = s[i]  BY DEF Range
<1>. HIDE DEF a, b
<1>8. Range(a) \cap Range(b) = {}  BY <1>2, <1>4, <1>5
<1>9. a \o b \in NoDup(S) /\ Range(a \o b) = Range(a) \cup Range(b)
  BY <1>4, <1>5, <1>8, ConcatDisjoint
<1>10. Range(a) \cup Range(b) = Range(s) \ {t}  BY <1>1, <1>2, <1>4, <1>5, <1>7
<1>. QED  BY <1>6, <1>9, <1>10

\* Dropping the n first elements of a list leaves exactly those behind them.
LEMMA DropFirst ==
  ASSUME NEW S, NEW s \in NoDup(S), NEW n \in Nat
  PROVE  \A i \in DOMAIN s : s[i] \in Range(SubSeq(s, n + 1, Len(s))) <=> i > n
<1>. s \in Seq(S) /\ Len(s) \in Nat /\ DOMAIN s = 1 .. Len(s)  BY LenProperties DEF NoDup
<1>1. n + 1 \in Int /\ 1 <= n + 1 /\ Len(s) \in Int /\ Len(s) <= Len(s)  OBVIOUS
<1>2. \A e : e \in Range(SubSeq(s, n + 1, Len(s))) <=> \E i \in n + 1 .. Len(s) : e = s[i]
  BY <1>1, Piece
<1>3. \A i, j \in 1 .. Len(s) : s[i] = s[j] => i = j  BY DEF NoDup, IsInjective
<1>. TAKE i \in DOMAIN s
<1>4. ASSUME i > n  PROVE s[i] \in Range(SubSeq(s, n + 1, Len(s)))
  <2>1. i \in n + 1 .. Len(s)  BY <1>4
  <2>. QED  BY <1>2, <2>1
<1>5. ASSUME s[i] \in Range(SubSeq(s, n + 1, Len(s)))  PROVE i > n
  <2>1. PICK k \in n + 1 .. Len(s) : s[i] = s[k]  BY <1>2, <1>5
  <2>2. k \in 1 .. Len(s) /\ k > n  OBVIOUS
  <2>. QED  BY <1>3, <2>1, <2>2
<1>. QED  BY <1>4, <1>5

\* list_del keeps the order of the elements that stay.
LEMMA WithoutOrder ==
  ASSUME NEW S, NEW s \in NoDup(S), NEW t \in Range(s),
         NEW i \in DOMAIN s, NEW j \in DOMAIN s, i < j, s[i] # t, s[j] # t
  PROVE  \E k, l \in DOMAIN Without(s, t) :
            k < l /\ Without(s, t)[k] = s[i] /\ Without(s, t)[l] = s[j]
<1>. s \in Seq(S) /\ Len(s) \in Nat /\ DOMAIN s = 1 .. Len(s)  BY LenProperties DEF NoDup
<1>1. PICK p \in 1 .. Len(s) : s[p] = t  BY DEF Range
<1>2. \A m, n \in 1 .. Len(s) : s[m] = s[n] => m = n  BY DEF NoDup, IsInjective
<1>3. Position(s, t) = p
  <2>1. Position(s, t) \in DOMAIN s /\ s[Position(s, t)] = t  BY <1>1 DEF Position
  <2>. QED  BY <1>1, <1>2, <2>1
<1>. DEFINE a == SubSeq(s, 1, p - 1)
            b == SubSeq(s, p + 1, Len(s))
            w == Without(s, t)
<1>4. /\ a \in Seq(S) /\ Len(a) = p - 1
      /\ \A m \in 1 .. p - 1 : a[m] = s[m]
  <2>1. 1 \in Int /\ p - 1 \in Int /\ \A m \in 1 .. p - 1 : s[m] \in S
    BY ElementOfSeq
  <2>2. /\ a \in Seq(S) /\ Len(a) = (IF 1 <= p - 1 THEN p - 1 - 1 + 1 ELSE 0)
        /\ \A m \in 1 .. p - 1 - 1 + 1 : a[m] = s[1 + m - 1]
    BY <2>1, SubSeqProperties
  <2>. HIDE DEF a
  <2>. QED  BY <2>2
<1>5. /\ b \in Seq(S) /\ Len(b) = Len(s) - p
      /\ \A m \in 1 .. Len(s) - p : b[m] = s[p + m]
  <2>1. p + 1 \in Int /\ Len(s) \in Int /\ \A m \in p + 1 .. Len(s) : s[m] \in S
    BY ElementOfSeq
  <2>2. /\ b \in Seq(S) /\ Len(b) = (IF p + 1 <= Len(s) THEN Len(s) - (p + 1) + 1 ELSE 0)
        /\ \A m \in 1 .. Len(s) - (p + 1) + 1 : b[m] = s[p + 1 + m - 1]
    BY <2>1, SubSeqProperties
  <2>. HIDE DEF b
  <2>3. Len(b) = Len(s) - p
    <3>1. CASE p + 1 <= Len(s)  BY <2>2, <3>1
    <3>2. CASE ~ (p + 1 <= Len(s))
      <4>1. PICK n \in Nat : n = Len(s)  OBVIOUS
      <4>2. p \in 1 .. n /\ ~ (p + 1 <= n)  BY <3>2, <4>1
      <4>3. n - p = 0  BY <4>2
      <4>. QED  BY <2>2, <3>2, <4>1, <4>3
    <3>. QED  BY <3>1, <3>2
  <2>4. ASSUME NEW m \in 1 .. Len(s) - p  PROVE b[m] = s[p + m]
    <3>1. m \in 1 .. Len(s) - (p + 1) + 1 /\ p + 1 + m - 1 = p + m  OBVIOUS
    <3>2. b[m] = s[p + 1 + m - 1]  BY <2>2, <3>1
    <3>. QED  BY <3>1, <3>2
  <2>. QED  BY <2>2, <2>3, <2>4
<1>6. w = a \o b  BY <1>3 DEF Without
<1>. HIDE DEF a, b, w
<1>7. /\ w \in Seq(S) /\ Len(w) = Len(a) + Len(b)
      /\ \A m \in 1 .. Len(a) + Len(b) : w[m] = IF m <= Len(a) THEN a[m] ELSE b[m - Len(a)]
  BY <1>4, <1>5, <1>6, ConcatProperties
<1>8. DOMAIN w = 1 .. Len(s) - 1  BY <1>4, <1>5, <1>7, LenProperties
<1>9. ASSUME NEW m \in 1 .. Len(s), m # p
      PROVE  /\ (IF m < p THEN m ELSE m - 1) \in DOMAIN w
             /\ w[IF m < p THEN m ELSE m - 1] = s[m]
  <2>1. CASE m < p
    <3>1. m \in 1 .. Len(a) + Len(b) /\ m <= Len(a) /\ m \in 1 .. p - 1 /\ m \in 1 .. Len(s) - 1
      BY <1>4, <1>5, <2>1
    <3>2. w[m] = a[m] /\ a[m] = s[m]  BY <1>4, <1>7, <3>1
    <3>. QED  BY <1>8, <2>1, <3>1, <3>2
  <2>2. CASE m > p
    <3>1. m - 1 \in 1 .. Len(a) + Len(b) /\ ~ (m - 1 <= Len(a))
      BY <1>4, <1>5, <2>2
    <3>2. m - p \in 1 .. Len(s) - p /\ m - 1 - Len(a) = m - p /\ p + (m - p) = m
      BY <1>4, <2>2
    <3>3. w[m - 1] = b[m - p]  BY <1>7, <3>1, <3>2
    <3>4. b[m - p] = s[m]  BY <1>5, <3>2
    <3>. QED  BY <1>8, <2>2, <3>3, <3>4
  <2>. QED  BY <1>9, <2>1, <2>2
<1>. DEFINE at(m) == IF m < p THEN m ELSE m - 1
<1>10. i # p /\ j # p /\ i \in 1 .. Len(s) /\ j \in 1 .. Len(s)  BY <1>1
<1>11. at(i) < at(j)  BY <1>10
<1>12. at(i) \in DOMAIN w /\ at(j) \in DOMAIN w /\ w[at(i)] = s[i] /\ w[at(j)] = s[j]
  BY <1>9, <1>10
<1>. HIDE DEF at
<1>. QED  BY <1>11, <1>12 DEF w

-----------------------------------------------------------------------------
(* Walks: the elements at some of the indices, in order. *)

\* Among the integers of I, the rank tells the elements apart, and every rank
\* from 1 to the number of elements occurs.
LEMMA RankBijection ==
  ASSUME NEW n \in Nat, NEW I \in SUBSET (1 .. n)
  PROVE  /\ IsFiniteSet(I) /\ Cardinality(I) \in Nat
         /\ \A i \in I : Rank(I, i) \in 1 .. Cardinality(I)
         /\ \A i, j \in I : i < j => Rank(I, i) < Rank(I, j)
         /\ \A k \in 1 .. Cardinality(I) : \E i \in I : Rank(I, i) = k
<1>. DEFINE Upto(i) == {j \in I : j <= i}
            r == [i \in I |-> Rank(I, i)]
<1>1. IsFiniteSet(I) /\ Cardinality(I) \in Nat
  <2>1. 1 \in Int /\ n \in Int  OBVIOUS
  <2>2. IsFiniteSet(1 .. n)  BY <2>1, FS_Interval
  <2>3. IsFiniteSet(I)  BY <2>2, FS_Subset
  <2>. QED  BY <2>3, FS_CardinalityType
<1>2. \A i \in I : /\ IsFiniteSet(Upto(i)) /\ Cardinality(Upto(i)) \in Nat
                   /\ Cardinality(Upto(i)) <= Cardinality(I)
  <2>. SUFFICES ASSUME NEW i \in I
                PROVE  /\ IsFiniteSet(Upto(i)) /\ Cardinality(Upto(i)) \in Nat
                       /\ Cardinality(Upto(i)) <= Cardinality(I)
    OBVIOUS
  <2>1. Upto(i) \in SUBSET I  OBVIOUS
  <2>. HIDE DEF Upto
  <2>. QED  BY <1>1, <2>1, FS_Subset, FS_CardinalityType
<1>3. \A i \in I : Rank(I, i) \in 1 .. Cardinality(I)
  <2>. SUFFICES ASSUME NEW i \in I  PROVE Cardinality(Upto(i)) \in 1 .. Cardinality(I)
    BY DEF Rank
  <2>1. i \in Upto(i)  OBVIOUS
  <2>. HIDE DEF Upto
  <2>2. Cardinality(Upto(i)) # 0  BY <1>2, <2>1, FS_EmptySet
  <2>. QED  BY <1>1, <1>2, <2>2
<1>4. \A i, j \in I : i < j => Rank(I, i) < Rank(I, j)
  <2>. SUFFICES ASSUME NEW i \in I, NEW j \in I, i < j
                PROVE  Cardinality(Upto(i)) < Cardinality(Upto(j))
    BY DEF Rank
  <2>0. \A l \in I : l \in Int  OBVIOUS
  <2>1. Upto(i) \in SUBSET Upto(j)
    <3>1. \A l \in I : l <= i => l <= j  BY <2>0
    <3>. QED  BY <3>1
  <2>2. j \in Upto(j) /\ j \notin Upto(i)  BY <2>0
  <2>. HIDE DEF Upto
  <2>3. Cardinality(Upto(i)) <= Cardinality(Upto(j)) /\ Cardinality(Upto(i)) # Cardinality(Upto(j))
    BY <1>2, <2>1, <2>2, FS_Subset
  <2>. QED  BY <1>2, <2>3
<1>5. r \in Injection(I, 1 .. Cardinality(I))
  <2>1. r \in [I -> 1 .. Cardinality(I)]  BY <1>3
  <2>2. \A i, j \in I : r[i] = r[j] => i = j
    <3>. SUFFICES ASSUME NEW i \in I, NEW j \in I, i # j  PROVE r[i] # r[j]
      OBVIOUS
    <3>1. CASE i < j  BY <1>3, <1>4, <3>1
    <3>2. CASE j < i  BY <1>3, <1>4, <3>2
    <3>. QED  BY <3>1, <3>2
  <2>. QED  BY <2>1, <2>2 DEF Injection, IsInjective
<1>6. Cardinality(1 .. Cardinality(I)) = Cardinality(I) /\ IsFiniteSet(1 .. Cardinality(I))
  BY <1>1, FS_Interval
<1>7. r \in Surjection(I, 1 .. Cardinality(I))  BY <1>5, <1>6, FS_Injection
<1>8. \A k \in 1 .. Cardinality(I) : \E i \in I : Rank(I, i) = k
  BY <1>7 DEF Surjection
<1>. QED  BY <1>1, <1>3, <1>4, <1>8

\* Enum lists every element of I once, the smaller ones first.
LEMMA EnumProperties ==
  ASSUME NEW n \in Nat, NEW I \in SUBSET (1 .. n)
  PROVE  /\ Cardinality(I) \in Nat
         /\ \A k \in 1 .. Cardinality(I) : Enum(I)[k] \in I /\ Rank(I, Enum(I)[k]) = k
         /\ \A i \in I : \E k \in 1 .. Cardinality(I) : Enum(I)[k] = i
<1>1. /\ Cardinality(I) \in Nat
      /\ \A i \in I : Rank(I, i) \in 1 .. Cardinality(I)
      /\ \A i, j \in I : i < j => Rank(I, i) < Rank(I, j)
      /\ \A k \in 1 .. Cardinality(I) : \E i \in I : Rank(I, i) = k
  BY RankBijection
<1>2. \A k \in 1 .. Cardinality(I) : Enum(I)[k] \in I /\ Rank(I, Enum(I)[k]) = k
  <2>. TAKE k \in 1 .. Cardinality(I)
  <2>1. Enum(I)[k] = CHOOSE i \in I : Rank(I, i) = k  BY DEF Enum
  <2>2. \E i \in I : Rank(I, i) = k  BY <1>1
  <2>. QED  BY <2>1, <2>2
<1>3. ASSUME NEW i \in I  PROVE \E k \in 1 .. Cardinality(I) : Enum(I)[k] = i
  <2>1. Rank(I, i) \in 1 .. Cardinality(I)  BY <1>1
  <2>. DEFINE e == Enum(I)[Rank(I, i)]
  <2>2. e \in I /\ Rank(I, e) = Rank(I, i)  BY <1>2, <2>1
  <2>3. e = i
    <3>. HIDE DEF e
    <3>1. e \in Int /\ i \in Int  BY <2>2
    <3>2. ~ (e < i) /\ ~ (i < e)  BY <1>1, <2>1, <2>2
    <3>. QED  BY <3>1, <3>2
  <2>. QED  BY <2>1, <2>3
<1>. QED  BY <1>1, <1>2, <1>3

\* The elements that Pick selects.
LEMMA PickProperties ==
  ASSUME NEW S, NEW s \in NoDup(S), NEW I \in SUBSET (DOMAIN s)
  PROVE  /\ Pick(s, I) \in NoDup(S)
         /\ \A e : e \in Range(Pick(s, I)) <=> \E i \in I : e = s[i]
<1>. s \in Seq(S) /\ Len(s) \in Nat /\ DOMAIN s = 1 .. Len(s)  BY LenProperties DEF NoDup
<1>1. /\ Cardinality(I) \in Nat
      /\ \A k \in 1 .. Cardinality(I) : Enum(I)[k] \in I /\ Rank(I, Enum(I)[k]) = k
      /\ \A i \in I : \E k \in 1 .. Cardinality(I) : Enum(I)[k] = i
  BY EnumProperties
<1>2. \A i, j \in 1 .. Len(s) : s[i] = s[j] => i = j  BY DEF NoDup, IsInjective
<1>3. DOMAIN Pick(s, I) = 1 .. Cardinality(I)
      /\ \A k \in 1 .. Cardinality(I) : Pick(s, I)[k] = s[Enum(I)[k]]
  BY DEF Pick
<1>4. Pick(s, I) \in Seq(S)
  <2>1. \A i \in 1 .. Len(s) : s[i] \in S  BY ElementOfSeq
  <2>2. Pick(s, I) \in [1 .. Cardinality(I) -> S]  BY <1>1, <2>1 DEF Pick
  <2>. QED  BY <1>1, <2>2, SeqDef
<1>5. IsInjective(Pick(s, I))
  BY <1>1, <1>2, <1>3 DEF IsInjective
<1>6. \A e : e \in Range(Pick(s, I)) <=> \E i \in I : e = s[i]
  BY <1>1, <1>3 DEF Range
<1>. QED  BY <1>4, <1>5, <1>6 DEF NoDup

\* A walk that divides a list between two others loses and doubles no node.
LEMMA PickSplit ==
  ASSUME NEW S, NEW s \in NoDup(S), NEW I \in SUBSET (DOMAIN s)
  PROVE  /\ Pick(s, I) \in NoDup(S) /\ Pick(s, DOMAIN s \ I) \in NoDup(S)
         /\ Range(Pick(s, I)) \cup Range(Pick(s, DOMAIN s \ I)) = Range(s)
         /\ Range(Pick(s, I)) \cap Range(Pick(s, DOMAIN s \ I)) = {}
<1>. DEFINE J == DOMAIN s \ I
<1>1. /\ Pick(s, I) \in NoDup(S)
      /\ \A e : e \in Range(Pick(s, I)) <=> \E i \in I : e = s[i]
  BY PickProperties
<1>2. /\ Pick(s, J) \in NoDup(S)
      /\ \A e : e \in Range(Pick(s, J)) <=> \E i \in J : e = s[i]
  <2>1. J \in SUBSET (DOMAIN s)  OBVIOUS
  <2>. QED  BY <2>1, PickProperties
<1>3. \A i, j \in DOMAIN s : s[i] = s[j] => i = j  BY DEF NoDup, IsInjective
<1>4. \A e : e \in Range(s) <=> \E i \in DOMAIN s : e = s[i]  BY DEF Range
<1>5. Range(Pick(s, I)) \cup Range(Pick(s, J)) = Range(s)  BY <1>1, <1>2, <1>4
<1>6. Range(Pick(s, I)) \cap Range(Pick(s, J)) = {}  BY <1>1, <1>2, <1>3
<1>. QED  BY <1>1, <1>2, <1>5, <1>6
=============================================================================
