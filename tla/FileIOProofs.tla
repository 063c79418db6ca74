---------------------------- MODULE FileIOProofs ----------------------------
(***************************************************************************)
(* The bytes of files, for sectors, blocks, index blocks and cards of any  *)
(* size: reads return what is there, and, when programs make none of the   *)
(* calls of Misuse, the files are flat files and no block of one is lost.  *)
(*                                                                         *)
(* A transfer is strung together from pieces (Covers), each inside one     *)
(* sector, each ending where the next one begins (PiecesCover); an offset  *)
(* and its place in a piece are one place in one block (PiecePlaces,       *)
(* SameSlot).  What inodes and index blocks name are slots: no two have    *)
(* one block (Apart), and the bitmap marks what they have (Marked).  A     *)
(* block that do_fwrite allocates goes to one free slot (SlotGets), and    *)
(* bytes are stored in one block (BytesStored), so a piece changes its own *)
(* bytes and no others (StoreOne), and so does a call (WriteLeaves).       *)
(***************************************************************************)
EXTENDS FileIO, FiniteSetTheorems, FunctionTheorems, SequenceTheorems,
        WellFoundedInduction, TLAPS

-----------------------------------------------------------------------------
(* Numbers.                                                                *)

\* A set of numbers that is not empty has a least one.
LEMMA HasLeast ==
  ASSUME NEW S, S \subseteq Nat, S # {}
  PROVE  \E x \in S : \A y \in S : x <= y
<1>. DEFINE R == {ss \in Nat \X Nat : ss[1] < ss[2]}
<1>1. IsWellFoundedOn(R, Nat)  BY NatLessThanWellFounded DEF OpToRel
<1>2. PICK x \in S : \A y \in S : ~ (<<y, x>> \in R)
  <2>. HIDE DEF R
  <2>. QED  BY <1>1, WFMin, Zenon
<1>3. \A y \in S : ~ (y < x)  BY <1>2, Zenon
<1>. QED  BY <1>3

\* What fails nowhere first fails nowhere: induction up to n.
LEMMA NoFirst ==
  ASSUME NEW n \in Nat, NEW B, B \subseteq 0 .. n, 0 \notin B,
         \A k \in 1 .. n : k \in B => k - 1 \in B
  PROVE  B = {}
<1>1. SUFFICES ASSUME B # {} PROVE FALSE  OBVIOUS
<1>2. B \subseteq Nat  OBVIOUS
<1>3. PICK m \in B : \A k \in B : m <= k  BY <1>1, <1>2, HasLeast, Zenon
<1>4. m \in 1 .. n
  <2>1. m \in Nat /\ m <= n /\ m # 0  BY <1>3, <1>2
  <2>. QED  BY <2>1
<1>5. m - 1 \in B /\ ~ (m <= m - 1)  BY <1>3, <1>4
<1>. QED  BY <1>3, <1>5

\* Max of a set within 1 .. n that has n.
LEMMA MaxOf ==
  ASSUME NEW n \in Nat, NEW s, s \subseteq 1 .. n, n \in s
  PROVE  Max(s) = n
<1>1. \A y \in s : n >= y  OBVIOUS
<1>2. Max(s) \in s /\ \A y \in s : Max(s) >= y  BY <1>1, Zenon DEF Max
<1>3. Max(s) \in 1 .. n  BY <1>2, Zenon
<1>. QED  BY <1>1, <1>2, <1>3

\* What div and mod are.
LEMMA Quotient ==
  ASSUME NEW m \in Nat \ {0}, NEW x \in Nat
  PROVE  /\ x \div m \in Nat /\ x % m \in Nat /\ x % m < m
         /\ x = m * (x \div m) + (x % m)
OBVIOUS

LEMMA Divided ==
  ASSUME NEW m \in Nat \ {0}, NEW q \in Nat, NEW r \in Nat, r < m, NEW x \in Nat, x = m * q + r
  PROVE  x \div m = q /\ x % m = r
OBVIOUS

LEMMA Times ==
  ASSUME NEW a \in Nat, NEW b \in Nat, NEW c \in Nat
  PROVE  /\ a * b \in Nat /\ a * b = b * a /\ a * (b + c) = a * b + a * c
         /\ a * (b * c) = (a * b) * c
OBVIOUS

LEMMA TimesLess ==
  ASSUME NEW a \in Nat, NEW b \in Nat, NEW c \in Nat, a < b
  PROVE  a * c + c <= b * c /\ c * a + c <= c * b
OBVIOUS

LEMMA SizesOK ==
  /\ SS \in Nat \ {0} /\ SPB \in Nat \ {0} /\ DPTR \in Nat \ {0} /\ LEV \in Nat \ {0}
  /\ NumBlock \in Nat \ {0} /\ BS \in Nat \ {0} /\ Direct \in Nat \ {0} /\ Level \in Nat \ {0}
  /\ DirectEnd \in Nat \ {0} /\ LevelSize \in Nat \ {0} /\ Reach \in Nat \ {0}
  /\ Capacity \in Nat \ {0}
<1>1. /\ SS \in Nat \ {0} /\ SPB \in Nat \ {0} /\ DPTR \in Nat \ {0} /\ LEV \in Nat \ {0}
      /\ NumBlock \in Nat \ {0}
  BY FileIOOK
<1>2. \A a, b \in Nat \ {0} : a * b \in Nat \ {0}
  <2>1. ASSUME NEW a \in Nat \ {0}, NEW b \in Nat \ {0} PROVE a * b \in Nat \ {0}
    <3>1. a * b \in Nat  OBVIOUS
    <3>2. 0 * b + b <= a * b  BY TimesLess
    <3>. QED  BY <3>1, <3>2
  <2>. QED  BY <2>1
<1>3. BS \in Nat \ {0} /\ Direct \in Nat \ {0} /\ Level \in Nat \ {0}
  BY <1>1, <1>2 DEF BS, Direct, Level
<1>4. DirectEnd \in Nat \ {0} /\ LevelSize \in Nat \ {0} /\ Reach \in Nat \ {0}
  <2>1. DirectEnd \in Nat \ {0} /\ LevelSize \in Nat \ {0}
    BY <1>1, <1>2, <1>3 DEF DirectEnd, LevelSize
  <2>2. Reach \in Nat \ {0}  BY <1>3 DEF Reach
  <2>. QED  BY <2>1, <2>2
<1>5. Capacity \in Nat \ {0}  BY <1>1, <1>2, <1>4 DEF Capacity
<1>. QED  BY <1>1, <1>3, <1>4, <1>5

\* The sector of an offset, and the place in its block.
LEMMA OffsetNumbers ==
  ASSUME NEW o \in Nat
  PROVE  /\ o \div SS \in Nat /\ (o \div SS) \div SPB = o \div BS /\ o \div BS \in Nat
         /\ ((o \div SS) % SPB) * SS + (o % SS) = o % BS
         /\ o % BS \in 0 .. (BS - 1)
<1>1. SS \in Nat \ {0} /\ SPB \in Nat \ {0} /\ BS \in Nat \ {0}  BY SizesOK
<1>2. PICK t \in Nat, r \in Nat : o \div SS = t /\ o % SS = r /\ r < SS /\ o = SS * t + r
  BY <1>1, Quotient
<1>3. PICK c \in Nat, q \in Nat : t \div SPB = c /\ t % SPB = q /\ q < SPB /\ t = SPB * c + q
  BY <1>1, Quotient
<1>4. o = BS * c + (q * SS + r)
  <2>1. SS * t = SS * (SPB * c) + SS * q  BY <1>1, <1>3, Times
  <2>2. SS * (SPB * c) = BS * c  BY <1>1, <1>3, Times DEF BS
  <2>3. SS * q = q * SS  BY <1>1, <1>3, Times
  <2>4. BS * c \in Nat /\ q * SS \in Nat  BY <1>1, <1>3, Times
  <2>. QED  BY <2>1, <2>2, <2>3, <2>4, <1>2
<1>5. PICK z \in Nat : z = q * SS + r /\ z < BS
  <2>1. q * SS \in Nat /\ q * SS + SS <= SPB * SS  BY <1>1, <1>3, Times, TimesLess
  <2>2. BS = SPB * SS  BY <1>1, Times DEF BS
  <2>. QED  BY <2>1, <2>2, <1>1, <1>2
<1>6. o \div BS = c /\ o % BS = z  BY <1>1, <1>4, <1>5, Divided
<1>. QED  BY <1>1, <1>2, <1>3, <1>5, <1>6

\* The block of a sector, among those of a file.
LEMMA SectorNumbers ==
  ASSUME NEW sec \in Nat, NEW c, c = sec \div SPB
  PROVE  /\ c \in Nat /\ (sec < Direct <=> c < DPTR)
         /\ ~ (sec < Direct) => /\ c - DPTR \in Nat
                                /\ LevelOf(sec) = (c - DPTR) \div LEV
                                /\ EntryOf(sec) = (c - DPTR) % LEV
         /\ sec < Reach => c < DPTR + 2 * LEV
<1>1. /\ SPB \in Nat \ {0} /\ DPTR \in Nat \ {0} /\ LEV \in Nat \ {0} /\ Level \in Nat \ {0}
      /\ Direct = DPTR * SPB /\ Level = LEV * SPB
  BY SizesOK DEF Direct, Level
<1>0. SPB \in Nat \ {0}  BY <1>1
<1>2. PICK r \in Nat : c \in Nat /\ r < SPB /\ sec = SPB * c + r
  <2>1. PICK r : r = sec % SPB  OBVIOUS
  <2>2. c \in Nat /\ r \in Nat /\ r < SPB /\ sec = SPB * c + r  BY <1>0, <2>1, Quotient
  <2>. QED  BY <2>2
<1>3. c < DPTR => sec < Direct
  <2>1. SUFFICES ASSUME c < DPTR PROVE sec < Direct  OBVIOUS
  <2>2. SPB * c + SPB <= SPB * DPTR /\ SPB * DPTR = DPTR * SPB
    BY <1>1, <1>2, <2>1, TimesLess, Times
  <2>3. SPB * c \in Nat /\ Direct \in Nat  BY <1>1, <1>2, Times
  <2>. QED  BY <2>2, <2>3, <1>1, <1>2
<1>4. ASSUME ~ (c < DPTR)
      PROVE  /\ ~ (sec < Direct) /\ c - DPTR \in Nat
             /\ LevelOf(sec) = (c - DPTR) \div LEV /\ EntryOf(sec) = (c - DPTR) % LEV
  <2>1. PICK k \in Nat : k = c - DPTR /\ c = DPTR + k  BY <1>1, <1>2, <1>4
  <2>2. PICK l \in Nat, e \in Nat : /\ k \div LEV = l /\ k % LEV = e /\ e < LEV
                                    /\ k = LEV * l + e
    BY <1>1, Quotient
  <2>3. SPB * c = Direct + SPB * k /\ SPB * k \in Nat /\ Direct \in Nat
    <3>1. SPB * c = SPB * DPTR + SPB * k  BY <1>1, <2>1, Times
    <3>. QED  BY <3>1, <1>1, <2>1, Times
  <2>4. sec - Direct \in Nat /\ sec - Direct = SPB * k + r /\ ~ (sec < Direct)
    BY <2>3, <1>2
  <2>5. SPB * k = Level * l + SPB * e /\ Level * l \in Nat /\ SPB * e \in Nat
    <3>1. SPB * k = SPB * (LEV * l) + SPB * e  BY <1>1, <2>2, Times
    <3>2. SPB * (LEV * l) = (SPB * LEV) * l /\ SPB * LEV = LEV * SPB  BY <1>1, <2>2, Times
    <3>. QED  BY <3>1, <3>2, <1>1, <2>2, Times
  <2>6. PICK z \in Nat : z = SPB * e + r /\ z < Level
    <3>1. SPB * e + SPB <= SPB * LEV /\ SPB * LEV = Level  BY <1>1, <2>2, TimesLess, Times
    <3>2. SPB * LEV \in Nat  BY <1>1, Times
    <3>. QED  BY <3>1, <3>2, <2>5, <1>1, <1>2
  <2>7. sec - Direct = Level * l + z
    <3>1. PICK u \in Nat, v \in Nat, w \in Nat : u = SPB * e /\ v = Level * l /\ w = SPB * k
      BY <2>3, <2>5
    <3>2. sec - Direct = w + r /\ w = v + u /\ z = u + r  BY <3>1, <2>4, <2>5, <2>6
    <3>. QED  BY <3>1, <3>2
  <2>8. (sec - Direct) \div Level = l /\ (sec - Direct) % Level = z
    <3>1. PICK y \in Nat : y = sec - Direct /\ y = Level * l + z  BY <2>4, <2>7
    <3>2. y \div Level = l /\ y % Level = z  BY <3>1, <2>6, <1>1, Divided
    <3>. QED  BY <3>1, <3>2
  <2>9. z \div SPB = e  BY <2>6, <2>2, <1>1, <1>2, Divided
  <2>. QED  BY <2>1, <2>2, <2>4, <2>8, <2>9 DEF LevelOf, EntryOf
<1>5. sec < Reach => c < DPTR + 2 * LEV
  <2>1. SUFFICES ASSUME sec < Reach, ~ (c < DPTR + 2 * LEV) PROVE FALSE  OBVIOUS
  <2>2. PICK j \in Nat : j = 2 * LEV  BY <1>1
  <2>3. PICK k \in Nat : c = (DPTR + j) + k
    <3>1. c - (DPTR + j) \in Nat /\ c = (DPTR + j) + (c - (DPTR + j))
      BY <1>1, <1>2, <2>1, <2>2
    <3>. QED  BY <3>1
  <2>4. SPB * c = SPB * DPTR + SPB * j + SPB * k
    <3>1. SPB * c = SPB * (DPTR + j) + SPB * k  BY <1>1, <2>2, <2>3, Times
    <3>. QED  BY <3>1, <1>1, <2>2, Times
  <2>5. SPB * DPTR = Direct /\ SPB * j = 2 * Level
    <3>1. SPB * j = SPB * LEV + SPB * LEV  BY <1>1, <2>2, Times
    <3>. QED  BY <3>1, <1>1, Times
  <2>6. SPB * k \in Nat /\ Direct \in Nat /\ 2 * Level \in Nat  BY <1>1, <2>3, Times
  <2>7. sec >= Direct + 2 * Level  BY <2>4, <2>5, <2>6, <1>2
  <2>. QED  BY <2>1, <2>6, <2>7, <1>2 DEF Reach
<1>. QED  BY <1>2, <1>3, <1>4, <1>5

-----------------------------------------------------------------------------
(* The pieces of a transfer.                                               *)

Portion == [sec : Nat, off : Nat, from : Nat, len : Nat]

\* A piece of the transfer of m bytes at an offset: inside a sector.
Part(p, at, m) ==
  /\ p \in Portion /\ p.len # 0 /\ p.off + p.len <= SS /\ p.sec < Reach
  /\ SS * p.sec + p.off = at + p.from /\ p.from + p.len <= m

\* One after the other they make up the transfer.
Chain(ps, at, m, k) ==
  /\ \A i \in 1 .. k : Part(ps[i], at, m)
  /\ \A i \in 1 .. (k - 1) : ps[i + 1].from = ps[i].from + ps[i].len

\* What is left of n bytes when h of them went into the first sector: as many
\* sectors as it takes, or as there are.
LEMMA WholeSectors ==
  ASSUME NEW at \in Nat, NEW n \in Nat, NEW h \in Nat, h = FirstPart(at, n), h < n,
         NEW first \in Nat, first = (at + SS - 1) \div SS, first <= Reach, at + h = SS * first,
         NEW S, S = Sectors(at, n), NEW m, m = Smaller(n, Capacity - at)
  PROVE  \E k \in Nat : /\ DOMAIN S = 1 .. k /\ S = [i \in 1 .. k |-> S[i]]
                        /\ m \in Nat /\ h <= m /\ Chain(S, at, m, k)
                        /\ k # 0 => S[1].from = h /\ S[k].from + S[k].len = m
                        /\ k = 0 => first = Reach /\ h = m
<1>1. SS \in Nat \ {0} /\ Reach \in Nat \ {0} /\ Capacity = SS * Reach
  BY SizesOK, Times DEF Capacity
<1>2. PICK a \in Nat : a = n - h /\ a # 0 /\ n = h + a  OBVIOUS
<1>3. PICK q \in Nat, r \in Nat : /\ (a + SS - 1) \div SS = q /\ r < SS
                                  /\ a + SS - 1 = SS * q + r
  <2>1. PICK x \in Nat : x = a + SS - 1  BY <1>1
  <2>2. /\ x \div SS \in Nat /\ x % SS \in Nat /\ x % SS < SS
        /\ x = SS * (x \div SS) + (x % SS)
    BY <1>1, Quotient
  <2>. QED  BY <2>1, <2>2
<1>4. PICK k \in Nat : k = Smaller(q, Reach - first) /\ k <= q /\ k <= Reach - first
                       /\ (k = q \/ k = Reach - first)
  BY <1>1 DEF Smaller
<1>5. S = [i \in 1 .. k |-> [sec |-> first + i - 1, off |-> 0, from |-> h + (i - 1) * SS,
                             len |-> Smaller(SS, n - h - (i - 1) * SS)]]
  BY <1>2, <1>3, <1>4 DEF Sectors
\* q sectors are enough and no more than that.
<1>6. \A i \in 1 .. q : (i - 1) * SS \in Nat /\ (i - 1) * SS < a
  <2>. TAKE i \in 1 .. q
  <2>1. PICK j \in Nat : j = i - 1 /\ j < q  OBVIOUS
  <2>2. SS * j + SS <= SS * q /\ SS * j \in Nat /\ SS * q \in Nat  BY <1>1, <2>1, TimesLess, Times
  <2>3. j * SS = SS * j  BY <1>1, Times
  <2>. QED  BY <2>1, <2>2, <2>3, <1>1, <1>3
<1>7. SS * q \in Nat /\ a <= SS * q  BY <1>1, <1>3, Times
<1>8. \A i \in 1 .. k : /\ S[i].sec = first + i - 1 /\ S[i].off = 0
                        /\ S[i].from = h + (i - 1) * SS
                        /\ S[i].len = Smaller(SS, a - (i - 1) * SS)
                        /\ S[i] \in Portion /\ S[i].len # 0 /\ S[i].len <= SS
  <2>. TAKE i \in 1 .. k
  <2>1. i \in 1 .. q  BY <1>4
  <2>2. PICK b \in Nat : b = (i - 1) * SS /\ b < a  BY <2>1, <1>6
  <2>3. PICK l \in Nat : l = Smaller(SS, a - b) /\ l # 0 /\ l <= SS  BY <2>2, <1>1, <1>2 DEF Smaller
  <2>4. n - h - (i - 1) * SS = a - b  BY <1>2, <2>2
  <2>5. S[i] = [sec |-> first + i - 1, off |-> 0, from |-> h + b, len |-> l]
    BY <1>5, <2>2, <2>3, <2>4
  <2>6. first + i - 1 \in Nat /\ h + b \in Nat  OBVIOUS
  <2>7. S[i] \in Portion  BY <2>5, <2>6 DEF Portion
  <2>. QED  BY <2>2, <2>3, <2>5, <2>7
<1>9. \A i \in 1 .. k : S[i].sec < Reach /\ SS * S[i].sec + S[i].off = at + S[i].from
  <2>. TAKE i \in 1 .. k
  <2>1. PICK j \in Nat : j = i - 1  OBVIOUS
  <2>2. SS * (first + j) = SS * first + SS * j /\ j * SS = SS * j /\ SS * j \in Nat
    BY <1>1, Times
  <2>3. first + i - 1 = first + j /\ first + j < Reach  BY <1>1, <1>4, <2>1
  <2>4. PICK s \in Nat : s = first + j /\ S[i].sec = s  BY <2>3, <1>8
  <2>5. SS * s = SS * first + SS * j  BY <2>2, <2>4
  <2>6. S[i].off = 0 /\ S[i].from = h + SS * j  BY <2>1, <2>2, <1>8
  <2>7. SS * s + 0 = at + (h + SS * j)  BY <2>2, <2>5, <1>1
  <2>. QED  BY <2>3, <2>4, <2>6, <2>7
\* All but the last are full.
<1>10. \A i \in 1 .. (q - 1) : S[i].len = SS \/ i > k
  <2>. TAKE i \in 1 .. (q - 1)
  <2>1. i + 1 \in 1 .. q /\ i \in 1 .. q  BY <1>3
  <2>2. PICK j \in Nat : j = i - 1 /\ (i + 1) - 1 = j + 1  OBVIOUS
  <2>3. (j + 1) * SS = j * SS + SS /\ j * SS \in Nat
    <3>1. SS * (j + 1) = SS * j + SS * 1  BY <1>1, Times
    <3>2. SS * (j + 1) = (j + 1) * SS /\ SS * j = j * SS /\ SS * 1 = SS  BY <1>1, <2>2, Times
    <3>. QED  BY <3>1, <3>2, <1>1, Times
  <2>4. j * SS + SS < a  BY <2>1, <2>2, <2>3, <1>6
  <2>5. a - j * SS \in Nat /\ SS <= a - j * SS  BY <2>3, <2>4, <1>1
  <2>. QED  BY <2>1, <2>2, <2>5, <1>4, <1>8 DEF Smaller
<1>11. CASE k = 0
  <2>1. q # 0  BY <1>7, <1>2, <1>1, <1>3, <1>6
  <2>2. first = Reach  BY <2>1, <1>1, <1>4, <1>11
  <2>3. Capacity = at + h  BY <2>2, <1>1
  <2>4. m = h  BY <2>3 DEF Smaller
  <2>5. Chain(S, at, m, 0)  BY DEF Chain
  <2>. QED  BY <2>2, <2>4, <2>5, <1>5, <1>11
<1>12. CASE k # 0
  <2>1. PICK j \in Nat : j = k - 1 /\ k = j + 1 /\ k \in 1 .. k /\ 1 \in 1 .. k  BY <1>12
  <2>2. S[1].from = h  BY <2>1, <1>8, <1>1
  <2>3. \A i \in 1 .. (k - 1) : S[i + 1].from = S[i].from + S[i].len
    <3>. TAKE i \in 1 .. (k - 1)
    <3>1. i \in 1 .. k /\ i + 1 \in 1 .. k /\ i \in 1 .. (q - 1)  BY <1>4
    <3>2. S[i].len = SS  BY <3>1, <1>10
    <3>3. PICK b \in Nat : b = i - 1 /\ (i + 1) - 1 = 1 + b  BY <3>1
    <3>4. SS * (1 + b) = SS * 1 + SS * b  BY <1>1, Times
    <3>5. (1 + b) * SS = SS * (1 + b) /\ b * SS = SS * b /\ SS * 1 = SS /\ SS * b \in Nat
      BY <1>1, Times
    <3>6. S[i + 1].from = h + (1 + b) * SS /\ S[i].from = h + b * SS  BY <3>1, <3>3, <1>8
    <3>. QED  BY <3>2, <3>4, <3>5, <3>6, <1>1
  <2>4. S[k].from + S[k].len = m
    <3>1. S[k].from = h + j * SS /\ S[k].len = Smaller(SS, a - j * SS) /\ j * SS \in Nat
      BY <2>1, <1>4, <1>6, <1>8
    <3>2. SS * k = SS * j + SS /\ j * SS = SS * j /\ SS * k \in Nat /\ SS * j \in Nat
      <4>1. SS * (j + 1) = SS * j + SS * 1  BY <1>1, Times
      <4>. QED  BY <4>1, <2>1, <1>1, Times
    <3>3. CASE k = q
      <4>1. a <= j * SS + SS  BY <3>2, <3>3, <1>7
      <4>2. j * SS < a  BY <2>1, <3>3, <1>6
      <4>3. S[k].from + S[k].len = n  BY <3>1, <4>1, <4>2, <1>1, <1>2 DEF Smaller
      <4>4. SS * first + SS * q <= SS * Reach
        <5>1. PICK z \in Nat : Reach = (first + q) + z
          <6>1. Reach - (first + q) \in Nat /\ Reach = (first + q) + (Reach - (first + q))
            BY <1>1, <1>4, <3>3
          <6>. QED  BY <6>1
        <5>2. SS * Reach = SS * (first + q) + SS * z  BY <5>1, <1>1, Times
        <5>3. SS * (first + q) = SS * first + SS * q  BY <1>1, Times
        <5>4. SS * z \in Nat /\ SS * first \in Nat /\ SS * q \in Nat  BY <1>1, <5>1, Times
        <5>. QED  BY <5>2, <5>3, <5>4
      <4>5. at + n <= Capacity /\ Capacity \in Nat
        <5>1. SS * Reach \in Nat /\ SS * first \in Nat  BY <1>1, Times
        <5>. QED  BY <5>1, <4>4, <1>1, <1>2, <1>7
      <4>6. m = n  BY <4>5 DEF Smaller
      <4>. QED  BY <4>3, <4>6
    <3>4. CASE k # q
      <4>1. k < q /\ k = Reach - first /\ Reach = first + k  BY <3>4, <1>1, <1>4
      <4>2. S[k].len = SS
        <5>1. k \in 1 .. (q - 1)  BY <4>1, <2>1
        <5>. QED  BY <5>1, <1>10
      <4>3. Capacity = SS * first + SS * k  BY <4>1, <1>1, Times
      <4>4. SS * k < a
        <5>1. k + 1 \in 1 .. q /\ (k + 1) - 1 = k  BY <4>1
        <5>2. k * SS < a  BY <5>1, <1>6
        <5>. QED  BY <5>2, <1>1, Times
      <4>5. Capacity - at = h + SS * k  BY <4>3, <3>2, <1>1
      <4>6. m = h + SS * k  BY <4>4, <4>5, <3>2, <1>2 DEF Smaller
      <4>. QED  BY <4>2, <4>6, <3>1, <3>2, <1>1
    <3>. QED  BY <3>3, <3>4
  <2>. DEFINE end(i) == S[i].from + S[i].len
  <2>5. m \in Nat /\ S[k].from \in Nat /\ S[k].len \in Nat /\ h <= m
    BY <2>1, <2>4, <1>1, <1>4, <1>6, <1>8 DEF Portion
  <2>6. \A i \in 1 .. k : S[i].from + S[i].len <= m
    <3>. TAKE i \in 1 .. k
    <3>1. CASE i = k  BY <3>1, <2>4, <2>5
    <3>2. CASE i # k
      <4>1. i \in 1 .. (k - 1) /\ i \in 1 .. (q - 1)
        <5>1. k <= q  BY <1>4
        <5>. QED  BY <5>1, <3>2
      <4>2. S[i].len = SS /\ S[i].from = h + (i - 1) * SS  BY <4>1, <1>8, <1>10
      <4>3. PICK b \in Nat : b = i - 1 /\ b < j  BY <4>1, <2>1
      <4>4. b * SS + SS <= j * SS /\ b * SS \in Nat /\ j * SS \in Nat
        BY <4>3, <2>1, <1>1, TimesLess, Times
      <4>5. S[k].from = h + j * SS /\ S[k].from <= m  BY <2>1, <2>4, <2>5, <1>8
      <4>. QED  BY <4>2, <4>3, <4>4, <4>5, <2>5, <1>1
    <3>. QED  BY <3>1, <3>2
  <2>7. \A i \in 1 .. k : Part(S[i], at, m)
    <3>. TAKE i \in 1 .. k
    <3>1. S[i].off + S[i].len <= SS  BY <1>8, <1>1 DEF Portion
    <3>. QED  BY <3>1, <2>6, <1>8, <1>9 DEF Part
  <2>8. Chain(S, at, m, k)  BY <2>3, <2>7 DEF Chain
  <2>. QED  BY <2>2, <2>4, <2>5, <2>8, <1>5, <1>12
<1>. QED  BY <1>11, <1>12

\* A head in front of the sectors.
Headed(p, S, at, m, k) ==
  /\ Part(p, at, m) /\ p.from = 0 /\ m \in Nat /\ at \in Nat
  /\ k \in Nat /\ S = [i \in 1 .. k |-> S[i]] /\ Chain(S, at, m, k)
  /\ k # 0 => S[1].from = p.len /\ S[k].from + S[k].len = m
  /\ k = 0 => p.len = m

Covers(ps, at, m, k) ==
  /\ k \in Nat \ {0} /\ ps \in Seq(Portion) /\ Len(ps) = k /\ DOMAIN ps = 1 .. k
  /\ m \in Nat /\ Chain(ps, at, m, k)
  /\ ps[1].from = 0 /\ ps[k].from + ps[k].len = m

LEMMA HeadFirst ==
  ASSUME NEW at, NEW m, NEW p, NEW k, NEW S, Headed(p, S, at, m, k)
  PROVE  Covers(<<p>> \o S, at, m, k + 1)
<1>. PICK ps : ps = <<p>> \o S  OBVIOUS
<1>. USE DEF Headed
<1>1. S \in Seq(Portion) /\ Len(S) = k
  <2>1. \A i \in 1 .. k : S[i] \in Portion  BY DEF Chain, Part
  <2>2. S \in [1 .. k -> Portion]  BY <2>1
  <2>3. S \in Seq(Portion)  BY <2>2, SeqDef
  <2>. QED  BY <2>2, <2>3, LenProperties
<1>2. PICK h : h = <<p>>  OBVIOUS
<1>3. h \in Seq(Portion) /\ Len(h) = 1 /\ h[1] = p  BY <1>2 DEF Part
<1>4. /\ ps \in Seq(Portion) /\ Len(ps) = 1 + k
      /\ \A i \in 1 .. (1 + k) : ps[i] = IF i <= 1 THEN h[i] ELSE S[i - 1]
  BY <1>1, <1>2, <1>3, ConcatProperties
<1>5. ps[1] = p /\ \A i \in 1 .. k : ps[i + 1] = S[i]
  <2>1. ps[1] = p  BY <1>3, <1>4
  <2>2. ASSUME NEW i \in 1 .. k PROVE ps[i + 1] = S[i]
    <3>1. i + 1 \in 1 .. (1 + k) /\ ~ (i + 1 <= 1) /\ (i + 1) - 1 = i  OBVIOUS
    <3>. QED  BY <3>1, <1>4
  <2>. QED  BY <2>1, <2>2
<1>6. \A i \in 1 .. (k + 1) : Part(ps[i], at, m)
  <2>. TAKE i \in 1 .. (k + 1)
  <2>1. CASE i = 1  BY <2>1, <1>5
  <2>2. CASE i # 1
    <3>1. i - 1 \in 1 .. k /\ (i - 1) + 1 = i  BY <2>2
    <3>2. ps[i] = S[i - 1]  BY <3>1, <1>5
    <3>. QED  BY <3>1, <3>2 DEF Chain
  <2>. QED  BY <2>1, <2>2
<1>7. \A i \in 1 .. k : ps[i + 1].from = ps[i].from + ps[i].len
  <2>. TAKE i \in 1 .. k
  <2>1. CASE i = 1
    <3>1. k # 0 /\ ps[2] = S[1]  BY <2>1, <1>5
    <3>2. p.len \in Nat  BY DEF Part, Portion
    <3>. QED  BY <2>1, <3>1, <3>2, <1>5
  <2>2. CASE i # 1
    <3>1. i - 1 \in 1 .. (k - 1) /\ i - 1 \in 1 .. k /\ (i - 1) + 1 = i  BY <2>2
    <3>2. ps[i] = S[i - 1] /\ ps[i + 1] = S[i]  BY <3>1, <1>5
    <3>3. S[(i - 1) + 1].from = S[i - 1].from + S[i - 1].len  BY <3>1 DEF Chain
    <3>. QED  BY <3>1, <3>2, <3>3
  <2>. QED  BY <2>1, <2>2
<1>8. ps[k + 1].from + ps[k + 1].len = m
  <2>1. CASE k = 0  BY <2>1, <1>5
  <2>2. CASE k # 0
    <3>1. k \in 1 .. k  BY <2>2
    <3>. QED  BY <2>2, <3>1, <1>5
  <2>. QED  BY <2>1, <2>2
<1>9. Chain(ps, at, m, k + 1)
  <2>1. (k + 1) - 1 = k  OBVIOUS
  <2>. QED  BY <2>1, <1>6, <1>7 DEF Chain
<1>10. DOMAIN ps = 1 .. (k + 1)  BY <1>4, LenProperties
<1>. QED  BY <1>4, <1>5, <1>8, <1>9, <1>10 DEF Covers

LEMMA PiecesCover ==
  ASSUME NEW at \in Offset, NEW n \in Nat \ {0}, NEW ps, ps = Pieces(at, n),
         NEW m, m = Smaller(n, Capacity - at)
  PROVE  \E k \in Nat \ {0} : Covers(ps, at, m, k)
<1>1. /\ SS \in Nat \ {0} /\ Reach \in Nat \ {0} /\ Capacity = SS * Reach
      /\ at \in Nat /\ at < Capacity /\ Capacity \in Nat
  <2>1. SS \in Nat \ {0} /\ Reach \in Nat \ {0} /\ Capacity \in Nat \ {0}  BY SizesOK
  <2>2. Capacity = SS * Reach  BY <2>1, Times DEF Capacity
  <2>. QED  BY <2>1, <2>2 DEF Offset
<1>2. PICK t \in Nat, r \in Nat : at \div SS = t /\ at % SS = r /\ r < SS /\ at = SS * t + r
  BY <1>1, Quotient
<1>3. t < Reach /\ SS * t + SS = SS * (t + 1) /\ SS * t \in Nat /\ SS * (t + 1) <= Capacity
  <2>1. SS * t \in Nat /\ SS * t + SS = SS * (t + 1)
    <3>1. SS * (t + 1) = SS * t + SS * 1  BY <1>1, Times
    <3>. QED  BY <3>1, <1>1, Times
  <2>2. t < Reach
    <3>1. SUFFICES ASSUME ~ (t < Reach) PROVE FALSE  OBVIOUS
    <3>2. CASE t = Reach  BY <3>2, <1>1, <1>2
    <3>3. CASE Reach < t
      <4>1. SS * Reach + SS <= SS * t  BY <3>3, <1>1, TimesLess
      <4>. QED  BY <4>1, <2>1, <1>1, <1>2
    <3>. QED  BY <3>1, <3>2, <3>3, <1>1
  <2>3. SS * t + SS <= SS * Reach  BY <2>2, <1>1, TimesLess
  <2>. QED  BY <2>1, <2>2, <2>3, <1>1
<1>4. PICK S : S = Sectors(at, n)  OBVIOUS
<1>5. CASE r = 0
  <2>1. FirstPart(at, n) = 0  BY <1>2, <1>5 DEF FirstPart
  <2>2. (at + SS - 1) \div SS = t
    <3>1. PICK x \in Nat, z \in Nat : x = at + SS - 1 /\ z = SS - 1 /\ z < SS /\ x = SS * t + z
      BY <1>1, <1>2, <1>3, <1>5
    <3>2. x \div SS = t  BY <3>1, <1>1, Divided
    <3>. QED  BY <3>1, <3>2
  <2>3. PICK k \in Nat : /\ DOMAIN S = 1 .. k /\ S = [i \in 1 .. k |-> S[i]]
                         /\ m \in Nat /\ Chain(S, at, m, k)
                         /\ k # 0 => S[1].from = 0 /\ S[k].from + S[k].len = m
                         /\ k = 0 => t = Reach
    <3>1. PICK h \in Nat : h = 0 /\ h = FirstPart(at, n) /\ h < n  BY <2>1
    <3>2. t <= Reach /\ at + h = SS * t  BY <3>1, <1>2, <1>3, <1>5, <1>1
    <3>3. t = (at + SS - 1) \div SS /\ n \in Nat /\ at \in Nat  BY <2>2, <1>1
    <3>4. \E k \in Nat : /\ DOMAIN S = 1 .. k /\ S = [i \in 1 .. k |-> S[i]]
                         /\ m \in Nat /\ h <= m /\ Chain(S, at, m, k)
                         /\ k # 0 => S[1].from = h /\ S[k].from + S[k].len = m
                         /\ k = 0 => t = Reach /\ h = m
      BY ONLY <3>1, <3>2, <3>3, <1>4, WholeSectors, m = Smaller(n, Capacity - at)
    <3>. QED  BY <3>1, <3>4
  <2>4. k # 0  BY <2>3, <1>3, <1>1
  <2>5. S \in Seq(Portion) /\ Len(S) = k
    <3>1. \A i \in 1 .. k : S[i] \in Portion  BY <2>3 DEF Chain, Part
    <3>2. S \in [1 .. k -> Portion]  BY <2>3, <3>1
    <3>3. S \in Seq(Portion)  BY <3>2, SeqDef
    <3>. QED  BY <3>2, <3>3, LenProperties
  <2>6. ps = S
    <3>1. ps = <<>> \o S  BY <2>1, <1>4 DEF Pieces
    <3>. QED  BY <3>1, <2>5, ConcatEmptySeq
  <2>7. k \in Nat \ {0} /\ Covers(S, at, m, k)  BY <2>3, <2>4, <2>5 DEF Covers
  <2>. QED  BY <2>6, <2>7
<1>6. CASE r # 0
  <2>1. PICK h \in Nat : /\ h = FirstPart(at, n) /\ h # 0 /\ h <= n /\ r + h <= SS
                         /\ (h = n \/ (h < n /\ r + h = SS))
    BY <1>1, <1>2, <1>6 DEF FirstPart, Smaller
  <2>2. (at + SS - 1) \div SS = t + 1
    <3>1. PICK x \in Nat, z \in Nat : x = at + SS - 1 /\ z = r - 1 /\ z < SS
                                      /\ x = SS * (t + 1) + z
      BY <1>1, <1>2, <1>3, <1>6
    <3>2. PICK y \in Nat : y = t + 1  OBVIOUS
    <3>3. x = SS * y + z  BY <3>1, <3>2
    <3>4. x \div SS = y  BY <3>1, <3>3, <1>1, Divided
    <3>. QED  BY <3>1, <3>2, <3>4
  <2>3. PICK p : p = [sec |-> t, off |-> r, from |-> 0, len |-> h]  OBVIOUS
  <2>4. ps = <<p>> \o S  BY <2>1, <2>3, <1>2, <1>4 DEF Pieces
  <2>5. PICK k \in Nat : /\ S = [i \in 1 .. k |-> S[i]]
                         /\ m \in Nat /\ h <= m /\ Chain(S, at, m, k)
                         /\ k # 0 => S[1].from = h /\ S[k].from + S[k].len = m
                         /\ k = 0 => h = m
    <3>1. CASE h < n
      <4>1. PICK y \in Nat : y = t + 1 /\ y = (at + SS - 1) \div SS  BY <2>2
      <4>2. y <= Reach /\ at + h = SS * y
        BY <3>1, <4>1, <2>1, <1>1, <1>2, <1>3
      <4>3. h = FirstPart(at, n) /\ n \in Nat /\ at \in Nat  BY <2>1, <1>1
      <4>4. \E k \in Nat : /\ DOMAIN S = 1 .. k /\ S = [i \in 1 .. k |-> S[i]]
                           /\ m \in Nat /\ h <= m /\ Chain(S, at, m, k)
                           /\ k # 0 => S[1].from = h /\ S[k].from + S[k].len = m
                           /\ k = 0 => y = Reach /\ h = m
        BY ONLY <3>1, <4>1, <4>2, <4>3, <1>4, WholeSectors, m = Smaller(n, Capacity - at)
      <4>. QED  BY <4>4
    <3>2. CASE h = n
      <4>1. n - h + SS - 1 = SS - 1  BY <3>2, <1>1
      <4>2. (SS - 1) \div SS = 0
        <5>1. PICK x \in Nat : x = SS - 1 /\ x < SS /\ x = SS * 0 + x  BY <1>1
        <5>2. x \div SS = 0  BY <5>1, <1>1, Divided
        <5>. QED  BY <5>1, <5>2
      <4>3. Smaller((n - h + SS - 1) \div SS, Reach - (t + 1)) = 0
        BY <4>1, <4>2, <1>1, <1>3 DEF Smaller
      <4>4. DOMAIN S = 1 .. 0 /\ S = [i \in 1 .. 0 |-> S[i]]
        BY <4>3, <2>1, <2>2, <1>4 DEF Sectors
      <4>5. m = n
        <5>1. at + n <= Capacity  BY <3>2, <2>1, <1>1, <1>2, <1>3
        <5>. QED  BY <5>1, <1>1 DEF Smaller
      <4>6. Chain(S, at, m, 0)  BY DEF Chain
      <4>. QED  BY <3>2, <4>4, <4>5, <4>6
    <3>. QED  BY <3>1, <3>2, <2>1
  <2>6. Part(p, at, m)
    <3>1. p \in Portion  BY <2>3 DEF Portion
    <3>2. SS * p.sec + p.off = at + p.from  BY <2>3, <1>2
    <3>. QED  BY <3>1, <3>2, <2>1, <2>3, <2>5, <1>3 DEF Part
  <2>7. /\ p.from = 0 /\ m \in Nat
        /\ k = 0 => p.len = m
        /\ k # 0 => S[1].from = p.len /\ S[k].from + S[k].len = m
    BY <2>3, <2>5
  <2>8. Covers(ps, at, m, k + 1)
    <3>1. at \in Nat /\ S = [i \in 1 .. k |-> S[i]] /\ Chain(S, at, m, k)  BY <2>5, <1>1
    <3>2. Headed(p, S, at, m, k)  BY <3>1, <2>6, <2>7, Zenon DEF Headed
    <3>3. Covers(<<p>> \o S, at, m, k + 1)  BY <3>2, HeadFirst, Zenon
    <3>. QED  BY <3>3, <2>4
  <2>. QED  BY <2>8
<1>. QED  BY <1>2, <1>5, <1>6

-----------------------------------------------------------------------------
(* What a read returns.                                                    *)

\* Several parts one after the other.
Strung(g, ts, k) ==
  /\ g[1] = ts[1] /\ FlattenSeq(ts) = g[k]
  /\ \A i \in 2 .. k : g[i] = g[i - 1] \o ts[i]

Run(s, U, a) == a \in Nat /\ s \in Seq(U) /\ Len(s) = a
JoinOf(z, s, t, U, a, l) ==
  /\ Run(z, U, a + l)
  /\ \A x \in 1 .. (a + l) : z[x] = IF x <= a THEN s[x] ELSE t[x - a]
LEMMA TwoStrung ==
  ASSUME NEW U, NEW s, NEW t, NEW a, NEW l, Run(s, U, a), Run(t, U, l)
  PROVE  JoinOf(s \o t, s, t, U, a, l)
<1>1. /\ s \in Seq(U) /\ t \in Seq(U) /\ a \in Nat /\ l \in Nat
      /\ Len(s) = a /\ Len(t) = l
  BY DEF Run
<1>2. /\ s \o t \in Seq(U) /\ Len(s \o t) = Len(s) + Len(t)
      /\ \A x \in 1 .. Len(s) + Len(t) :
            (s \o t)[x] = IF x <= Len(s) THEN s[x] ELSE t[x - Len(s)]
  BY <1>1, ConcatProperties, Zenon
<1>. QED  BY <1>1, <1>2 DEF Run, JoinOf

LEMMA PartByPart ==
  ASSUME NEW k \in Nat \ {0}, NEW ts, Len(ts) = k
  PROVE  \E g : Strung(g, ts, k)
<1>. DEFINE Row(f, m) == [i \in 1 .. m |-> IF i = 1 THEN ts[i] ELSE f[i - 1] \o ts[i]]
            Short == {m \in Nat : ~ \E f : f = Row(f, m)}
<1>1. Short = {}
  <2>1. SUFFICES ASSUME Short # {} PROVE FALSE  BY Zenon
  <2>2. PICK m \in Short : \A j \in Short : m <= j  BY <2>1, HasLeast, Zenon
  <2>3. m # 0
    <3>1. 1 .. 0 = {}  OBVIOUS
    <3>2. [i \in {} |-> 0] = Row([i \in {} |-> 0], 0)  BY <3>1
    <3>. QED  BY <3>2, <2>2, Zenon
  <2>4. m - 1 \in Nat /\ m - 1 \notin Short
    <3>1. m \in Nat  BY <2>2
    <3>2. m - 1 \in Nat /\ ~ (m <= m - 1)  BY <3>1, <2>3
    <3>. QED  BY <3>2, <2>2, Zenon
  <2>5. PICK e : e = Row(e, m - 1)  BY <2>4, Zenon
  <2>. DEFINE f == [i \in 1 .. m |->
                      IF i = m THEN IF i = 1 THEN ts[i] ELSE e[i - 1] \o ts[i] ELSE e[i]]
  <2>6. ASSUME NEW i \in 1 .. m PROVE f[i] = Row(f, m)[i]
    <3>1. CASE i = 1
      <4>1. CASE m = 1  BY <3>1, <4>1
      <4>2. CASE m # 1
        <5>1. 1 \in 1 .. (m - 1)  BY <4>2, <2>2, <2>3
        <5>2. e[1] = ts[1]  BY <5>1, <2>5
        <5>. QED  BY <3>1, <4>2, <5>2
      <4>. QED  BY <4>1, <4>2
    <3>2. CASE i # 1
      <4>1. i - 1 \in 1 .. m /\ i - 1 # m /\ f[i - 1] = e[i - 1]  BY <3>2, <2>2
      <4>2. CASE i = m  BY <3>2, <4>1, <4>2
      <4>3. CASE i # m
        <5>1. i \in 1 .. (m - 1)  BY <4>3, <2>2
        <5>2. e[i] = e[i - 1] \o ts[i]  BY <5>1, <3>2, <2>5
        <5>. QED  BY <3>2, <4>1, <4>3, <5>2
      <4>. QED  BY <4>2, <4>3
    <3>. QED  BY <3>1, <3>2
  <2>7. f = Row(f, m)
    <3>1. \A i \in 1 .. m : f[i] = Row(f, m)[i]  BY <2>6
    <3>2. f = [i \in 1 .. m |-> f[i]]  OBVIOUS
    <3>3. Row(f, m) = [i \in 1 .. m |-> Row(f, m)[i]]  OBVIOUS
    <3>. HIDE DEF f, Row
    <3>. QED  BY <3>1, <3>2, <3>3, Zenon
  <2>. QED  BY <2>7, <2>2, Zenon
<1>2. PICK g : g = Row(g, k) /\ FlattenSeq(ts) = g[k]
  <2>1. FlattenSeq(ts) = (CHOOSE f : f = Row(f, k))[k]
    BY DEF FlattenSeq
  <2>2. \E f : f = Row(f, k)
    <3>1. k \in Nat /\ k \notin Short  BY <1>1, Zenon
    <3>. QED  BY <3>1, Zenon
  <2>. QED  BY <2>1, <2>2, Zenon
<1>3. g[1] = ts[1]
  <2>1. 1 \in 1 .. k  OBVIOUS
  <2>. QED  BY <2>1, <1>2
<1>4. ASSUME NEW i \in 2 .. k PROVE g[i] = g[i - 1] \o ts[i]
  <2>1. i \in 1 .. k /\ i # 1  OBVIOUS
  <2>. QED  BY <2>1, <1>2
<1>. HIDE DEF Row
<1>. QED  BY <1>2, <1>3, <1>4, Zenon DEF Strung

\* The parts of the pieces of a transfer, each what V has at its place.
PartsOf(ts, ps, k, V) ==
  Len(ts) = k /\ \A i \in 1 .. k : ts[i] = [x \in 1 .. ps[i].len |-> V[ps[i].from + x]]

LEMMA PartsCover ==
  ASSUME NEW at, NEW m, NEW k, NEW ps, Covers(ps, at, m, k), NEW V, NEW ts, PartsOf(ts, ps, k, V)
  PROVE  FlattenSeq(ts) = [x \in 1 .. m |-> V[x]]
<1>. USE DEF PartsOf
<1>1. k \in Nat \ {0}  BY DEF Covers
<1>2. PICK g : Strung(g, ts, k)  BY <1>1, PartByPart
<1>. DEFINE end(i) == ps[i].from + ps[i].len
            Upto(i) == [x \in 1 .. end(i) |-> V[x]]
            B == {i \in 1 .. k : g[i] # Upto(i)}
<1>. PICK U : U = {V[x] : x \in 1 .. m}  OBVIOUS
<1>3. \A i \in 1 .. k : /\ ps[i].from \in Nat /\ ps[i].len \in Nat /\ end(i) \in Nat /\ end(i) <= m
  <2>. TAKE i \in 1 .. k
  <2>1. Part(ps[i], at, m)  BY Zenon DEF Covers, Chain
  <2>2. ps[i].from \in Nat /\ ps[i].len \in Nat /\ end(i) <= m  BY <2>1 DEF Part, Portion
  <2>. QED  BY <2>2
<1>4. m \in Nat /\ ps[1].from = 0 /\ end(k) = m /\ k \in 1 .. k /\ 1 \in 1 .. k
  BY <1>1 DEF Covers
<1>5. 1 \notin B
  <2>1. g[1] = [x \in 1 .. ps[1].len |-> V[0 + x]]  BY <1>2, <1>4 DEF Strung
  <2>2. end(1) = ps[1].len  BY <1>3, <1>4
  <2>3. Upto(1) = [x \in 1 .. ps[1].len |-> V[0 + x]]  BY <2>2
  <2>. QED  BY <2>1, <2>3
<1>6. ASSUME NEW i \in 1 .. k, i \in B PROVE i - 1 \in B
  <2>1. i \in 2 .. k /\ i - 1 \in 1 .. k /\ i - 1 \in 1 .. (k - 1) /\ (i - 1) + 1 = i
    <3>1. i # 1  BY <1>5, <1>6, Zenon
    <3>. QED  BY <3>1, <1>1
  <2>2. SUFFICES ASSUME g[i - 1] = Upto(i - 1) PROVE g[i] = Upto(i)
    BY <2>1, <1>6
  <2>3. PICK a \in Nat, l \in Nat : /\ a = end(i - 1) /\ l = ps[i].len /\ ps[i].from = a
                                    /\ end(i) = a + l /\ a + l <= m
    <3>1. ps[(i - 1) + 1].from = ps[i - 1].from + ps[i - 1].len  BY <2>1 DEF Covers, Chain
    <3>2. ps[i].from = end(i - 1)  BY <3>1, <2>1
    <3>. QED  BY <3>2, <2>1, <1>3
  <2>4. PICK s : s = [x \in 1 .. a |-> V[x]] /\ g[i - 1] = s  BY <2>2, <2>3
  <2>5. PICK t : t = [x \in 1 .. l |-> V[a + x]] /\ ts[i] = t  BY <2>3
  <2>6. s \in Seq(U) /\ Len(s) = a
    <3>1. \A x \in 1 .. a : V[x] \in U  BY <2>3, <1>4
    <3>2. s \in [1 .. a -> U]
      <4>. QED  BY <3>1, <2>4
    <3>. QED  BY <3>2, SeqDef, LenProperties
  <2>7. t \in Seq(U) /\ Len(t) = l
    <3>1. \A x \in 1 .. l : V[a + x] \in U
      <4>. TAKE x \in 1 .. l
      <4>1. a + x \in 1 .. m  BY <2>3, <1>4
      <4>. QED  BY <4>1
    <3>2. t \in [1 .. l -> U]
      <4>. QED  BY <3>1, <2>5
    <3>. QED  BY <3>2, SeqDef, LenProperties
  <2>8. PICK z : z = s \o t  OBVIOUS
  <2>9. /\ z \in Seq(U) /\ Len(z) = a + l
        /\ \A x \in 1 .. (a + l) : z[x] = IF x <= a THEN s[x] ELSE t[x - a]
    <3>1. Run(s, U, a) /\ Run(t, U, l)  BY <2>6, <2>7 DEF Run
    <3>2. JoinOf(s \o t, s, t, U, a, l)  BY <3>1, TwoStrung, Zenon
    <3>. QED  BY ONLY <3>2, <2>8 DEF JoinOf, Run
  <2>10. \A x \in 1 .. (a + l) : z[x] = V[x]
    <3>. TAKE x \in 1 .. (a + l)
    <3>1. CASE x <= a
      <4>1. x \in 1 .. a  BY <3>1
      <4>. QED  BY <3>1, <4>1, <2>4, <2>9
    <3>2. CASE ~ (x <= a)
      <4>1. PICK y \in 1 .. l : y = x - a /\ a + y = x
        <5>1. x - a \in 1 .. l /\ a + (x - a) = x  BY <3>2
        <5>. QED  BY <5>1
      <4>2. z[x] = t[y]  BY <3>2, <4>1, <2>9
      <4>3. t[y] = V[a + y]  BY <2>5
      <4>. QED  BY <4>1, <4>2, <4>3
    <3>. QED  BY <3>1, <3>2
  <2>11. z = [x \in 1 .. (a + l) |-> V[x]]
    <3>1. DOMAIN z = 1 .. (a + l)
      <4>. QED  BY <2>9, LenProperties
    <3>2. z = [x \in 1 .. (a + l) |-> z[x]]
      <4>. QED  BY <3>1, <2>9, LenProperties
    <3>. QED  BY <3>2, <2>10
  <2>12. g[i] = z  BY <2>1, <2>4, <2>5, <2>8, <1>2 DEF Strung
  <2>. QED  BY <2>3, <2>11, <2>12
<1>7. B = {}
  <2>1. B \subseteq 0 .. k /\ 0 \notin B  OBVIOUS
  <2>. HIDE DEF B
  <2>. QED  BY <2>1, <1>1, <1>6, NoFirst
<1>8. g[k] = Upto(k)  BY <1>4, <1>7
<1>. QED  BY <1>8, <1>4, <1>2 DEF Strung

\* Where the bytes of a piece are.
LEMMA PiecePlaces ==
  ASSUME NEW at \in Nat, NEW m, NEW p, Part(p, at, m), NEW x \in 1 .. p.len, NEW o, o = at + p.from + x - 1
  PROVE  /\ o \in Nat /\ o \div SS = p.sec /\ o % BS = Place(p, x) /\ o < Capacity
<1>1. /\ SS \in Nat \ {0} /\ Reach \in Nat \ {0} /\ Capacity = SS * Reach
  BY SizesOK, Times DEF Capacity
<1>2. PICK t \in Nat, u \in Nat, w \in Nat, l \in Nat :
         /\ t = p.sec /\ u = p.off /\ w = p.from /\ l = p.len
         /\ u + l <= SS /\ t < Reach /\ SS * t + u = at + w
  BY DEF Part, Portion
<1>3. PICK z \in Nat : z = u + x - 1 /\ z < SS  BY <1>1, <1>2
<1>4. o \in Nat /\ o = SS * t + z
  <2>1. PICK y \in Nat : y = SS * t  BY <1>1, Times
  <2>2. o = at + w + x - 1 /\ y + u = at + w /\ x \in Nat /\ x # 0  BY <2>1, <1>2
  <2>3. o = y + z /\ o \in Nat  BY <2>2, <1>3
  <2>. QED  BY <2>1, <2>3
<1>5. o \div SS = t /\ o % SS = z
  <2>1. PICK y \in Nat : y = o /\ y = SS * t + z  BY <1>4
  <2>2. y \div SS = t /\ y % SS = z
    <3>1. SS \in Nat \ {0} /\ z < SS /\ y = SS * t + z  BY <2>1, <1>1, <1>3
    <3>. QED  BY ONLY <3>1
  <2>. QED  BY <2>1, <2>2
<1>6. o % BS = (t % SPB) * SS + z  BY <1>4, <1>5, OffsetNumbers
<1>7. o < Capacity
  <2>1. SS * t + SS <= SS * Reach /\ SS * t \in Nat /\ SS * Reach \in Nat
    BY <1>1, <1>2, TimesLess, Times
  <2>. QED  BY <2>1, <1>1, <1>3, <1>4
<1>8. Place(p, x) = (t % SPB) * SS + z
  <2>1. (t % SPB) * SS \in Nat
    <3>1. SPB \in Nat \ {0}  BY SizesOK
    <3>2. t % SPB \in Nat  BY <3>1, Quotient
    <3>. QED  BY <3>2, <1>1, Times
  <2>2. Place(p, x) = (t % SPB) * SS + u + x - 1  BY <1>2, Zenon DEF Place
  <2>. QED  BY <2>1, <2>2, <1>3, <1>2
<1>. QED  BY <1>2, <1>4, <1>5, <1>6, <1>7, <1>8

LEMMA LengthOf ==
  ASSUME NEW n \in Nat, NEW s, s = [x \in 1 .. n |-> s[x]]
  PROVE  Len(s) = n
<1>. DEFINE U == {s[x] : x \in 1 .. n}
<1>1. \A x \in 1 .. n : s[x] \in U  OBVIOUS
<1>. HIDE DEF U
<1>2. s \in [1 .. n -> U]  BY <1>1
<1>3. s \in Seq(U)  BY <1>2, SeqDef
<1>. QED  BY <1>2, <1>3, LenProperties

LEMMA SmallerGrows ==
  ASSUME NEW n \in Nat, NEW c \in Nat, NEW h \in Int, n <= c
  PROVE  Smaller(n, h) <= Smaller(c, h) /\ (n < Smaller(c, h) => n < c /\ Smaller(c, h) <= c)
BY DEF Smaller

\* What do_fread copies is what was asked for, or the rest of a sector.
LEMMA CopiedLength ==
  ASSUME NEW at \in Offset, NEW n \in Nat \ {0}
  PROVE  /\ Copied(at, n) \in Nat \ {0} /\ n <= Copied(at, n)
         /\ n < Copied(at, n) => Copied(at, n) = SS - (at % SS)
<1>1. SS \in Nat \ {0} /\ at \in Nat  BY SizesOK DEF Offset
<1>2. PICK r \in Nat : r = at % SS /\ r < SS  BY <1>1, Quotient
<1>. QED  BY <1>1, <1>2 DEF Copied

\* What a read of n bytes copies, on any card.
LEMMA ReadReturns ==
  ASSUME NEW f, NEW at \in Offset, NEW n \in Nat \ {0},
         NEW m, m = Smaller(Copied(at, n), Capacity - at)
  PROVE  Read(f, at, n) = [x \in 1 .. m |-> ByteAt(f, at + x - 1)] /\ m \in Nat
<1>1. PICK ps : ps = Pieces(at, Copied(at, n))  OBVIOUS
<1>2. PICK k \in Nat \ {0} : Covers(ps, at, m, k)  BY <1>1, CopiedLength, PiecesCover, Zenon
<1>3. PICK ts : ts = Parts(f, at, n)  OBVIOUS
<1>4. at \in Nat /\ m \in Nat  BY <1>2 DEF Offset, Covers
<1>5. /\ DOMAIN ps = 1 .. k
      /\ ts = [i \in 1 .. k |->
                 [x \in 1 .. ps[i].len |-> disk.data[BlockOf(disk, f, ps[i].sec)][Place(ps[i], x)]]]
  BY <1>1, <1>2, <1>3 DEF Parts, Covers
<1>6. Len(ts) = k
  <2>1. ts = [i \in 1 .. k |-> ts[i]]  BY <1>5
  <2>. QED  BY <2>1, LengthOf
<1>7. PICK V : V = [x \in 1 .. m |-> ByteAt(f, at + x - 1)]  OBVIOUS
<1>8. ASSUME NEW i \in 1 .. k
      PROVE  ts[i] = [x \in 1 .. ps[i].len |-> V[ps[i].from + x]]
  <2>1. PICK p : p = ps[i] /\ Part(p, at, m)  BY Zenon, <1>2 DEF Covers, Chain
  <2>2. ASSUME NEW x \in 1 .. p.len
        PROVE  disk.data[BlockOf(disk, f, p.sec)][Place(p, x)] = V[p.from + x]
    <3>1. p.from \in Nat /\ p.len \in Nat /\ p.from + p.len <= m  BY <2>1 DEF Part, Portion
    <3>2. PICK y \in 1 .. m : y = p.from + x  BY <3>1, <1>4
    <3>3. PICK o : o = at + p.from + x - 1  OBVIOUS
    <3>4. o = at + y - 1  BY <3>1, <3>2, <3>3, <1>4
    <3>5. o \div SS = p.sec /\ o % BS = Place(p, x)  BY <2>1, <3>3, <1>4, PiecePlaces
    <3>6. V[y] = ByteAt(f, o)  BY <1>7, <3>4
    <3>. QED  BY <3>2, <3>5, <3>6 DEF ByteAt
  <2>. QED  BY <2>1, <2>2, <1>5
<1>9. FlattenSeq(ts) = [x \in 1 .. m |-> V[x]]  
  <2>1. PartsOf(ts, ps, k, V)  BY <1>6, <1>8, Zenon DEF PartsOf
  <2>. QED  BY ONLY <1>2, <2>1, PartsCover
<1>10. [x \in 1 .. m |-> V[x]] = V  BY <1>7
<1>. QED  BY <1>3, <1>4, <1>7, <1>9, <1>10 DEF Read

LEMMA AlwaysReadsBack == ReadsBack
<1>1. SUFFICES ASSUME NEW f \in Files, NEW at \in Offset, NEW n \in Sizes, NEW r, r = Read(f, at, n)
      PROVE  /\ Smaller(n, Capacity - at) <= Len(r)
             /\ n < Len(r) => Len(r) <= SS - (at % SS)
             /\ \A k \in 1 .. Len(r) : at + k - 1 \in written[f] => r[k] = ByteAt(f, at + k - 1)
  BY Zenon DEF ReadsBack
<1>2. n \in Nat \ {0}  BY FileIOOK
<1>3. PICK m : m = Smaller(Copied(at, n), Capacity - at)  OBVIOUS
<1>4. r = [x \in 1 .. m |-> ByteAt(f, at + x - 1)] /\ m \in Nat
  BY <1>1, <1>2, <1>3, ReadReturns
<1>5. Len(r) = m
  <2>1. r = [x \in 1 .. m |-> r[x]]  BY <1>4
  <2>. QED  BY <2>1, <1>4, LengthOf
<1>6. Smaller(n, Capacity - at) <= m /\ (n < m => m <= SS - (at % SS))
  <2>1. /\ Copied(at, n) \in Nat /\ n <= Copied(at, n)
        /\ n < Copied(at, n) => Copied(at, n) = SS - (at % SS)
    BY <1>2, CopiedLength
  <2>2. Capacity - at \in Int
    <3>1. Capacity \in Nat /\ at \in Nat  BY SizesOK DEF Offset
    <3>. QED  BY <3>1
  <2>3. /\ Smaller(n, Capacity - at) <= Smaller(Copied(at, n), Capacity - at)
        /\ n < Smaller(Copied(at, n), Capacity - at) =>
              n < Copied(at, n) /\ Smaller(Copied(at, n), Capacity - at) <= Copied(at, n)
    BY <1>2, <2>1, <2>2, SmallerGrows
  <2>. QED  BY <1>3, <2>1, <2>3
<1>7. \A k \in 1 .. Len(r) : r[k] = ByteAt(f, at + k - 1)  BY <1>4, <1>5
<1>. QED  BY <1>5, <1>6, <1>7

\* A read from any offset copies what the blocks of the file hold there: the
\* pieces that do_fread cuts it into are in order, without a gap, and cover what
\* was asked for, as far as there are places.  What it copies in excess
\* (ReadInBuffer fails) are the bytes that follow, to the end of one sector.
THEOREM EveryReadReadsBack == Spec => []ReadsBack
<1>1. ReadsBack  BY AlwaysReadsBack
<1>. QED  BY <1>1, PTL

-----------------------------------------------------------------------------
(* What the pointers of a card are.  A slot is where an inode or an index  *)
(* block names a block: the j-th of the inode, the block of an index, or   *)
(* an entry of that.                                                       *)

Disk == [inode : [File -> Node \cup {NoFile}], bmap : SUBSET Block,
         data : [0 .. NumBlock -> [0 .. (BS - 1) -> Byte]],
         index : [0 .. NumBlock -> [0 .. (LEV - 1) -> Pointer]]]
Slot == {<<"direct", 0, j>> : j \in 0 .. (DPTR - 1)} \cup {<<"level", l, 0>> : l \in 0 .. 1}
        \cup {<<"entry", l, e>> : l \in 0 .. 1, e \in 0 .. (LEV - 1)}

At(d, g, s) ==
  IF d.inode[g] = NoFile THEN 0
  ELSE IF s[1] = "direct" THEN d.inode[g].direct[s[3]]
  ELSE IF s[1] = "level" THEN d.inode[g].lev1[s[2]]
  ELSE d.index[d.inode[g].lev1[s[2]]][s[3]]

\* No pointer leads to block 0, where a missing index block would be, and the
\* third index block of an inode is not used.
Shape(d) ==
  /\ d \in Disk /\ d.index[0] = NoEntries
  /\ \A g \in File : d.inode[g] # NoFile => d.inode[g].lev1[2] = 0

\* No two slots name one block, and the bitmap marks what they name.
Apart(d) ==
  \A g, h \in File : \A s, t \in Slot :
    At(d, g, s) = At(d, h, t) /\ At(d, g, s) # 0 => g = h /\ s = t
Marked(d) ==
  \A b \in Pointer : b \in d.bmap <=> b # 0 /\ \E g \in File, s \in Slot : At(d, g, s) = b

Sound(d) == Shape(d) /\ Apart(d) /\ Marked(d)

\* e is d but for the pointers and the bitmap.
Alike(d, e) ==
  /\ e.data = d.data
  /\ \A g \in File : /\ e.inode[g] = NoFile <=> d.inode[g] = NoFile
                     /\ d.inode[g] # NoFile => e.inode[g].usize = d.inode[g].usize

\* Of the slots of f in S, some that were free have a block now.
Grown(d, e, f, S) ==
  /\ Sound(e) /\ Alike(d, e)
  /\ \A g \in File : \A t \in Slot :
       At(e, g, t) = At(d, g, t) \/ (g = f /\ t \in S /\ At(d, g, t) = 0)

Full(d) == Block \subseteq d.bmap

LEMMA Slots ==
  /\ \A j \in 0 .. (DPTR - 1) : <<"direct", 0, j>> \in Slot
  /\ \A l \in 0 .. 1 : <<"level", l, 0>> \in Slot
  /\ \A l \in 0 .. 1 : \A e \in 0 .. (LEV - 1) : <<"entry", l, e>> \in Slot
BY DEF Slot

LEMMA SlotCases ==
  ASSUME NEW s \in Slot
  PROVE  \/ \E j \in 0 .. (DPTR - 1) : s = <<"direct", 0, j>>
         \/ \E l \in 0 .. 1 : s = <<"level", l, 0>>
         \/ \E l \in 0 .. 1 : \E e \in 0 .. (LEV - 1) : s = <<"entry", l, e>>
BY DEF Slot

\* What is at a slot.
LEMMA AtSlot ==
  ASSUME NEW d, NEW g, d.inode[g] # NoFile
  PROVE  /\ \A j : At(d, g, <<"direct", 0, j>>) = d.inode[g].direct[j]
         /\ \A l : At(d, g, <<"level", l, 0>>) = d.inode[g].lev1[l]
         /\ \A l, e : At(d, g, <<"entry", l, e>>) = d.index[d.inode[g].lev1[l]][e]
BY DEF At

LEMMA NodeOf ==
  ASSUME NEW d, Shape(d), NEW g \in File, d.inode[g] # NoFile
  PROVE  /\ d.inode[g] \in Node
         /\ \A j \in 0 .. (DPTR - 1) : d.inode[g].direct[j] \in Pointer
         /\ \A l \in 0 .. 2 : d.inode[g].lev1[l] \in 0 .. NumBlock
         /\ d.inode[g].usize \in Nat
BY DEF Shape, Disk, Node, Pointer

LEMMA AtType ==
  ASSUME NEW d, Shape(d), NEW g \in File, NEW s \in Slot
  PROVE  At(d, g, s) \in Pointer
<1>0. NumBlock \in Nat  BY SizesOK
<1>1. CASE d.inode[g] = NoFile  BY <1>0, <1>1 DEF At, Pointer
<1>2. CASE d.inode[g] # NoFile
  <2>1. d.index \in [0 .. NumBlock -> [0 .. (LEV - 1) -> Pointer]]  BY DEF Shape, Disk
  <2>2. ASSUME NEW j \in 0 .. (DPTR - 1), s = <<"direct", 0, j>> PROVE At(d, g, s) \in Pointer
    BY <1>2, <2>2, NodeOf, AtSlot
  <2>3. ASSUME NEW l \in 0 .. 1, s = <<"level", l, 0>> PROVE At(d, g, s) \in Pointer
    <3>1. l \in 0 .. 2  OBVIOUS
    <3>. QED  BY <1>2, <2>3, <3>1, NodeOf, AtSlot DEF Pointer
  <2>4. ASSUME NEW l \in 0 .. 1, NEW e \in 0 .. (LEV - 1), s = <<"entry", l, e>>
        PROVE  At(d, g, s) \in Pointer
    <3>1. PICK b \in 0 .. NumBlock : d.inode[g].lev1[l] = b
      <4>1. l \in 0 .. 2  OBVIOUS
      <4>. QED  BY <4>1, <1>2, NodeOf
    <3>2. At(d, g, s) = d.index[b][e]  BY <1>2, <2>4, <3>1, AtSlot
    <3>3. d.index[b] \in [0 .. (LEV - 1) -> Pointer]  BY <2>1
    <3>4. d.index[b][e] \in Pointer  BY <3>3
    <3>. QED  BY <3>2, <3>4
  <2>. QED  BY <2>2, <2>3, <2>4, SlotCases
<1>. QED  BY <1>1, <1>2

\* A slot of f gets a block that was free.
LEMMA SlotGets ==
  ASSUME NEW d, Sound(d), NEW e, Shape(e), NEW f \in File, NEW s \in Slot, NEW b \in Pointer,
         b # 0, b \notin d.bmap, e.bmap = d.bmap \cup {b}, At(d, f, s) = 0,
         \A g \in File : \A t \in Slot : At(e, g, t) = IF g = f /\ t = s THEN b ELSE At(d, g, t)
  PROVE  Sound(e)
<1>1. \A g \in File : \A t \in Slot : At(d, g, t) # b
  BY DEF Sound, Marked
<1>2. Apart(e)
  <2>1. SUFFICES ASSUME NEW g \in File, NEW h \in File, NEW t \in Slot, NEW u \in Slot,
                        At(e, g, t) = At(e, h, u), At(e, g, t) # 0
        PROVE  g = h /\ t = u
    BY DEF Apart
  <2>2. CASE (g = f /\ t = s) \/ (h = f /\ u = s)  BY <2>1, <2>2, <1>1
  <2>3. CASE ~ (g = f /\ t = s) /\ ~ (h = f /\ u = s)
    <3>1. At(d, g, t) = At(d, h, u) /\ At(d, g, t) # 0  BY <2>1, <2>3
    <3>. QED  BY <3>1 DEF Sound, Apart
  <2>. QED  BY <2>2, <2>3
<1>3. Marked(e)
  <2>1. SUFFICES ASSUME NEW c \in Pointer
        PROVE  c \in e.bmap <=> c # 0 /\ \E g \in File, t \in Slot : At(e, g, t) = c
    BY DEF Marked
  <2>2. c \in d.bmap <=> c # 0 /\ \E g \in File, t \in Slot : At(d, g, t) = c
    BY DEF Sound, Marked
  <2>3. CASE c = b  BY <2>3
  <2>4. CASE c # b
    <3>1. c \in e.bmap <=> c \in d.bmap  BY <2>4
    <3>2. ASSUME NEW g \in File, NEW t \in Slot, c # 0
          PROVE  At(e, g, t) = c <=> At(d, g, t) = c
      BY <3>2, <2>4
    <3>. QED  BY <2>2, <3>1, <3>2
  <2>. QED  BY <2>3, <2>4
<1>. QED  BY <1>2, <1>3 DEF Sound

\* First fit.
LEMMA Allocates ==
  ASSUME NEW d, Shape(d)
  PROVE  /\ Full(d) => alloc_data_block(d) = 0 /\ Allocated(d) = d
         /\ ~ Full(d) => /\ alloc_data_block(d) \in Block /\ alloc_data_block(d) \notin d.bmap
                         /\ alloc_data_block(d) # 0 /\ alloc_data_block(d) \in Pointer
                         /\ Allocated(d) = [d EXCEPT !.bmap = @ \cup {alloc_data_block(d)}]
<1>0. NumBlock \in Nat  BY SizesOK
<1>1. ASSUME Full(d) PROVE alloc_data_block(d) = 0 /\ Allocated(d) = d
  <2>1. alloc_data_block(d) = 0  BY <1>1 DEF alloc_data_block, Full
  <2>2. Allocated(d) = [d EXCEPT !.bmap = d.bmap]  BY <2>1 DEF Allocated
  <2>. QED  BY <2>1, <2>2 DEF Shape, Disk
<1>2. ASSUME ~ Full(d)
      PROVE  /\ alloc_data_block(d) \in Block /\ alloc_data_block(d) \notin d.bmap
             /\ alloc_data_block(d) # 0 /\ alloc_data_block(d) \in Pointer
             /\ Allocated(d) = [d EXCEPT !.bmap = @ \cup {alloc_data_block(d)}]
  <2>1. PICK S : S = Block \ d.bmap  OBVIOUS
  <2>2. S # {} /\ S \subseteq Nat  BY <1>2, <2>1, <1>0 DEF Full, Block
  <2>3. \E x \in S : \A y \in S : x <= y  BY <2>2, HasLeast
  <2>4. Least(S) \in S  BY <2>3, Zenon DEF Least
  <2>5. alloc_data_block(d) = Least(S)  BY <1>2, <2>1 DEF alloc_data_block, Full
  <2>6. PICK b \in Block : b = alloc_data_block(d) /\ b \notin d.bmap  BY <2>1, <2>4, <2>5
  <2>7. b # 0 /\ b \in Pointer  BY <1>0 DEF Block, Pointer
  <2>8. {b} \ {0} = {b}  BY <2>7
  <2>. QED  BY <2>6, <2>7, <2>8 DEF Allocated
<1>. QED  BY <1>1, <1>2

\* A block for a slot of the inode.
LEMMA DirectGrows ==
  ASSUME NEW d, Sound(d), NEW f \in File, d.inode[f] # NoFile, NEW j \in 0 .. (DPTR - 1),
         NEW e, e = WithDirect(d, f, j)
  PROVE  /\ Grown(d, e, f, {<<"direct", 0, j>>})
         /\ At(e, f, <<"direct", 0, j>>) # 0 \/ Full(e)
         /\ Full(d) => e = d
<1>. DEFINE s == <<"direct", 0, j>>
<1>0. s \in Slot /\ Shape(d) /\ At(d, f, s) = d.inode[f].direct[j]
  BY Slots, AtSlot DEF Sound
<1>1. CASE At(d, f, s) # 0
  <2>1. e = d  BY <1>0, <1>1 DEF WithDirect
  <2>. QED  BY <1>1, <2>1 DEF Grown, Alike
<1>2. CASE At(d, f, s) = 0
  <2>1. CASE Full(d)
    <3>1. d.inode \in [File -> Node \cup {NoFile}] /\ d.inode[f] \in Node /\ d \in Disk
      BY <1>0, NodeOf DEF Shape, Disk
    <3>2. e = [d EXCEPT !.inode[f].direct[j] = d.inode[f].direct[j]]
      BY <2>1, <1>0, <1>2, Allocates DEF WithDirect
    <3>3. e = d  BY <3>1, <3>2 DEF Disk, Node
    <3>. QED  BY <2>1, <3>3 DEF Grown, Alike
  <2>2. CASE ~ Full(d)
    <3>1. PICK b \in Pointer : /\ b \in Block /\ b \notin d.bmap /\ b # 0
                               /\ b = alloc_data_block(d)
                               /\ Allocated(d) = [d EXCEPT !.bmap = @ \cup {b}]
      BY <2>2, <1>0, Allocates
    <3>2. e = [[d EXCEPT !.bmap = @ \cup {b}] EXCEPT !.inode[f].direct[j] = b]
      BY <3>1, <1>0, <1>2 DEF WithDirect
    <3>3. /\ e.bmap = d.bmap \cup {b} /\ e.data = d.data /\ e.index = d.index
          /\ e.inode = [d.inode EXCEPT ![f].direct[j] = b]
      BY <3>2, <1>0 DEF Shape, Disk
    <3>4. d.inode \in [File -> Node \cup {NoFile}] /\ d.inode[f] \in Node
      BY <1>0, NodeOf DEF Shape, Disk
    <3>5. PICK nd \in Node : nd = [d.inode[f] EXCEPT !.direct[j] = b]
      BY <3>1, <3>4 DEF Node
    <3>6. /\ nd.direct = [d.inode[f].direct EXCEPT ![j] = b]
          /\ nd.lev1 = d.inode[f].lev1 /\ nd.usize = d.inode[f].usize /\ nd # NoFile
      BY <3>4, <3>5, NoFileOK DEF Node
    <3>7. e.inode = [d.inode EXCEPT ![f] = nd]  BY <3>3, <3>5
    <3>8. e.inode[f] = nd /\ \A g \in File : g # f => e.inode[g] = d.inode[g]
      BY <3>4, <3>7
    <3>9. Shape(e)
      <4>1. e \in Disk
        <5>1. /\ e.inode \in [File -> Node \cup {NoFile}] /\ e.bmap \in SUBSET Block
              /\ e.data \in [0 .. NumBlock -> [0 .. (BS - 1) -> Byte]]
              /\ e.index \in [0 .. NumBlock -> [0 .. (LEV - 1) -> Pointer]]
          BY <3>1, <3>3, <3>4, <3>5, <3>7, <1>0 DEF Shape, Disk
        <5>2. e = [inode |-> e.inode, bmap |-> e.bmap, data |-> e.data, index |-> e.index]
          BY <3>2, <1>0 DEF Shape, Disk
        <5>. QED  BY <5>1, <5>2 DEF Disk
      <4>2. \A g \in File : e.inode[g] # NoFile => e.inode[g].lev1[2] = 0
        BY <3>6, <3>8, <1>0 DEF Shape
      <4>. QED  BY <4>1, <4>2, <3>3, <1>0 DEF Shape
    <3>10. \A g \in File : \A t \in Slot : At(e, g, t) = IF g = f /\ t = s THEN b ELSE At(d, g, t)
      <4>1. ASSUME NEW g \in File, NEW t \in Slot, g # f PROVE At(e, g, t) = At(d, g, t)
        BY <4>1, <3>3, <3>8 DEF At
      <4>2. ASSUME NEW t \in Slot PROVE At(e, f, t) = IF t = s THEN b ELSE At(d, f, t)
        <5>1. e.inode[f] # NoFile  BY <3>6, <3>8
        <5>2. ASSUME NEW i \in 0 .. (DPTR - 1), t = <<"direct", 0, i>>
              PROVE  At(e, f, t) = IF t = s THEN b ELSE At(d, f, t)
          <6>1. At(e, f, t) = nd.direct[i] /\ At(d, f, t) = d.inode[f].direct[i]
            BY <5>1, <5>2, <3>8, AtSlot
          <6>2. d.inode[f].direct \in [0 .. (DPTR - 1) -> Pointer]  BY <3>4 DEF Node
          <6>3. nd.direct[i] = IF i = j THEN b ELSE d.inode[f].direct[i]  BY <6>2, <3>6
          <6>. QED  BY <5>2, <6>1, <6>3
        <5>3. ASSUME NEW l \in 0 .. 1, t = <<"level", l, 0>>
              PROVE  At(e, f, t) = IF t = s THEN b ELSE At(d, f, t)
          BY <5>1, <5>3, <3>6, <3>8, AtSlot
        <5>4. ASSUME NEW l \in 0 .. 1, NEW i \in 0 .. (LEV - 1), t = <<"entry", l, i>>
              PROVE  At(e, f, t) = IF t = s THEN b ELSE At(d, f, t)
          <6>1. /\ At(e, f, t) = e.index[nd.lev1[l]][i]
                /\ At(d, f, t) = d.index[d.inode[f].lev1[l]][i]
            BY <5>1, <5>4, <3>8, AtSlot
          <6>. QED  BY <6>1, <5>4, <3>3, <3>6
        <5>. QED  BY <5>2, <5>3, <5>4, SlotCases
      <4>. QED  BY <4>1, <4>2
    <3>. HIDE DEF s
    <3>11. Sound(e)  BY <3>1, <3>3, <3>9, <3>10, <1>0, <1>2, SlotGets
    <3>12. Alike(d, e)  BY <3>3, <3>6, <3>8 DEF Alike
    <3>13. Grown(d, e, f, {s})  BY <3>10, <3>11, <3>12, <1>2 DEF Grown
    <3>. QED  BY <3>1, <3>10, <3>13, <1>0, <2>2 DEF s
  <2>. QED  BY <2>1, <2>2
<1>. QED  BY <1>1, <1>2

\* An index block, without entries.
LEMMA LevelGrows ==
  ASSUME NEW d, Sound(d), NEW f \in File, d.inode[f] # NoFile, NEW l \in 0 .. 1,
         NEW e, e = WithLevel(d, f, l)
  PROVE  /\ Grown(d, e, f, {<<"level", l, 0>>})
         /\ At(e, f, <<"level", l, 0>>) # 0 \/ Full(e)
         /\ Full(d) => e = d
<1>. DEFINE s == <<"level", l, 0>>
<1>0. s \in Slot /\ Shape(d) /\ At(d, f, s) = d.inode[f].lev1[l] /\ l \in 0 .. 2
  BY Slots, AtSlot DEF Sound
<1>1. CASE At(d, f, s) # 0
  <2>1. e = d  BY <1>0, <1>1 DEF WithLevel
  <2>. QED  BY <1>1, <2>1 DEF Grown, Alike
<1>2. CASE At(d, f, s) = 0
  <2>1. CASE Full(d)
    <3>1. /\ d.inode \in [File -> Node \cup {NoFile}] /\ d.inode[f] \in Node /\ d \in Disk
          /\ d.index[0] = NoEntries
      BY <1>0, NodeOf DEF Shape, Disk
    <3>2. alloc_data_block(d) = 0 /\ Allocated(d) = d /\ d.inode[f].lev1[l] = 0
      BY <2>1, <1>0, <1>2, Allocates
    <3>4. e = [d EXCEPT !.inode[f].lev1[l] = 0, !.index[0] = NoEntries]
      BY <3>2 DEF WithLevel
    <3>5. [d.inode EXCEPT ![f].lev1[l] = 0] = d.inode  BY <3>1, <3>2 DEF Node
    <3>6. [d.index EXCEPT ![0] = NoEntries] = d.index  BY <3>1 DEF Disk
    <3>7. e = [d EXCEPT !.inode = d.inode, !.index = d.index]
      BY <3>1, <3>4, <3>5, <3>6 DEF Disk
    <3>3. e = d  BY <3>1, <3>7 DEF Disk
    <3>. QED  BY <2>1, <3>3 DEF Grown, Alike
  <2>2. CASE ~ Full(d)
    <3>1. PICK b \in Pointer : /\ b \in Block /\ b \notin d.bmap /\ b # 0
                               /\ b = alloc_data_block(d)
                               /\ Allocated(d) = [d EXCEPT !.bmap = @ \cup {b}]
      BY <2>2, <1>0, Allocates
    <3>2. e = [[d EXCEPT !.bmap = @ \cup {b}] EXCEPT !.inode[f].lev1[l] = b, !.index[b] = NoEntries]
      BY <3>1, <1>0, <1>2 DEF WithLevel
    <3>3. /\ e.bmap = d.bmap \cup {b} /\ e.data = d.data
          /\ e.index = [d.index EXCEPT ![b] = NoEntries]
          /\ e.inode = [d.inode EXCEPT ![f].lev1[l] = b]
      BY <3>2, <1>0 DEF Shape, Disk
    <3>4. d.inode \in [File -> Node \cup {NoFile}] /\ d.inode[f] \in Node
      BY <1>0, NodeOf DEF Shape, Disk
    <3>5. PICK nd \in Node : nd = [d.inode[f] EXCEPT !.lev1[l] = b]
      BY <3>1, <3>4, <1>0 DEF Node
    <3>6. /\ nd.lev1 = [d.inode[f].lev1 EXCEPT ![l] = b]
          /\ nd.direct = d.inode[f].direct /\ nd.usize = d.inode[f].usize /\ nd # NoFile
      BY <3>4, <3>5, NoFileOK DEF Node
    <3>7. e.inode = [d.inode EXCEPT ![f] = nd]  BY <3>3, <3>5
    <3>8. e.inode[f] = nd /\ \A g \in File : g # f => e.inode[g] = d.inode[g]
      BY <3>4, <3>7
    <3>20. b \in 0 .. NumBlock /\ d.index \in [0 .. NumBlock -> [0 .. (LEV - 1) -> Pointer]]
      BY <1>0 DEF Pointer, Shape, Disk
    <3>21. e.index[b] = NoEntries /\ \A x \in 0 .. NumBlock : x # b => e.index[x] = d.index[x]
      BY <3>20, <3>3
    <3>22. d.inode[f].lev1 \in [0 .. 2 -> Pointer]  BY <3>4 DEF Node
    <3>23. nd.lev1[l] = b /\ \A i \in 0 .. 2 : i # l => nd.lev1[i] = d.inode[f].lev1[i]
      BY <3>6, <3>22, <1>0
    <3>9. Shape(e)
      <4>0. NoEntries \in [0 .. (LEV - 1) -> Pointer]
        <5>1. 0 \in Pointer  BY SizesOK DEF Pointer
        <5>. QED  BY <5>1 DEF NoEntries
      <4>1. e.index \in [0 .. NumBlock -> [0 .. (LEV - 1) -> Pointer]]  BY <4>0, <3>3, <3>20
      <4>2. e \in Disk
        <5>1. /\ e.inode \in [File -> Node \cup {NoFile}] /\ e.bmap \in SUBSET Block
              /\ e.data \in [0 .. NumBlock -> [0 .. (BS - 1) -> Byte]]
          BY <3>1, <3>3, <3>4, <3>5, <3>7, <1>0 DEF Shape, Disk
        <5>2. e = [inode |-> e.inode, bmap |-> e.bmap, data |-> e.data, index |-> e.index]
          BY <3>2, <1>0 DEF Shape, Disk
        <5>. QED  BY <4>1, <5>1, <5>2 DEF Disk
      <4>3. \A g \in File : e.inode[g] # NoFile => e.inode[g].lev1[2] = 0
        <5>1. nd.lev1[2] = 0  BY <3>23, <1>0 DEF Shape
        <5>. QED  BY <5>1, <3>8, <1>0 DEF Shape
      <4>4. e.index[0] = NoEntries
        <5>1. 0 \in 0 .. NumBlock  BY SizesOK
        <5>. QED  BY <5>1, <3>1, <3>21, <1>0 DEF Shape
      <4>. QED  BY <4>2, <4>3, <4>4 DEF Shape
    \* The block was free, so no index block of a file is overwritten.
    <3>24. \A g \in File : \A i \in 0 .. 1 :
             d.inode[g] # NoFile => /\ d.inode[g].lev1[i] # b
                                    /\ d.inode[g].lev1[i] \in 0 .. NumBlock
      <4>1. SUFFICES ASSUME NEW g \in File, NEW i \in 0 .. 1, d.inode[g] # NoFile
            PROVE  d.inode[g].lev1[i] # b /\ d.inode[g].lev1[i] \in 0 .. NumBlock
        OBVIOUS
      <4>2. At(d, g, <<"level", i, 0>>) # b  BY <3>1, Slots DEF Sound, Marked
      <4>3. At(d, g, <<"level", i, 0>>) = d.inode[g].lev1[i]  BY <4>1, AtSlot
      <4>4. i \in 0 .. 2  OBVIOUS
      <4>. QED  BY <4>1, <4>2, <4>3, <4>4, <1>0, NodeOf
    <3>10. \A g \in File : \A t \in Slot : At(e, g, t) = IF g = f /\ t = s THEN b ELSE At(d, g, t)
      <4>1. ASSUME NEW g \in File, NEW t \in Slot, g # f PROVE At(e, g, t) = At(d, g, t)
        <5>1. CASE d.inode[g] = NoFile  BY <4>1, <5>1, <3>8 DEF At
        <5>2. CASE d.inode[g] # NoFile
          <6>1. e.inode[g] = d.inode[g]  BY <4>1, <3>8
          <6>2. ASSUME NEW i \in 0 .. 1, NEW x \in 0 .. (LEV - 1), t = <<"entry", i, x>>
                PROVE  At(e, g, t) = At(d, g, t)
            <7>1. e.index[d.inode[g].lev1[i]] = d.index[d.inode[g].lev1[i]]
              <8>1. PICK a : a = d.inode[g].lev1[i] /\ a # b /\ a \in 0 .. NumBlock
                BY ONLY <5>2, <3>24, g \in File, i \in 0 .. 1
              <8>. QED  BY ONLY <8>1, <3>21
            <7>2. At(d, g, t) = d.index[d.inode[g].lev1[i]][x]  BY ONLY <5>2, <6>2, AtSlot
            <7>3. At(e, g, t) = e.index[e.inode[g].lev1[i]][x]
              BY ONLY <5>2, <6>1, <6>2, AtSlot
            <7>. QED  BY ONLY <6>1, <7>1, <7>2, <7>3
          <6>3. ASSUME NEW i \in 0 .. (DPTR - 1), t = <<"direct", 0, i>>
                PROVE  At(e, g, t) = At(d, g, t)
            BY ONLY <5>2, <6>1, <6>3, AtSlot
          <6>4. ASSUME NEW i \in 0 .. 1, t = <<"level", i, 0>>
                PROVE  At(e, g, t) = At(d, g, t)
            BY ONLY <5>2, <6>1, <6>4, AtSlot
          <6>. QED  BY <6>2, <6>3, <6>4, SlotCases
        <5>. QED  BY <5>1, <5>2
      <4>2. ASSUME NEW t \in Slot PROVE At(e, f, t) = IF t = s THEN b ELSE At(d, f, t)
        <5>1. e.inode[f] # NoFile  BY <3>6, <3>8
        <5>2. ASSUME NEW i \in 0 .. (DPTR - 1), t = <<"direct", 0, i>>
              PROVE  At(e, f, t) = IF t = s THEN b ELSE At(d, f, t)
          BY <5>1, <5>2, <3>6, <3>8, AtSlot
        <5>3. ASSUME NEW i \in 0 .. 1, t = <<"level", i, 0>>
              PROVE  At(e, f, t) = IF t = s THEN b ELSE At(d, f, t)
          <6>1. At(e, f, t) = nd.lev1[i] /\ At(d, f, t) = d.inode[f].lev1[i]
            BY <5>1, <5>3, <3>8, AtSlot
          <6>2. nd.lev1[i] = IF i = l THEN b ELSE d.inode[f].lev1[i]
            <7>1. i \in 0 .. 2  OBVIOUS
            <7>. QED  BY <7>1, <3>23
          <6>. QED  BY <5>3, <6>1, <6>2
        <5>4. ASSUME NEW i \in 0 .. 1, NEW x \in 0 .. (LEV - 1), t = <<"entry", i, x>>
              PROVE  At(e, f, t) = IF t = s THEN b ELSE At(d, f, t)
          <6>0. i \in 0 .. 2  OBVIOUS
          <6>1. /\ At(e, f, t) = e.index[nd.lev1[i]][x]
                /\ At(d, f, t) = d.index[d.inode[f].lev1[i]][x]
            BY <5>1, <5>4, <3>8, AtSlot
          <6>2. CASE i = l
            <7>1. NoEntries[x] = 0  BY DEF NoEntries
            <7>2. d.inode[f].lev1[i] = 0  BY <6>2, <1>0, <1>2
            <7>3. At(e, f, t) = 0 /\ At(d, f, t) = 0
              BY <6>1, <6>2, <7>1, <7>2, <3>21, <3>23, <1>0 DEF Shape
            <7>. QED  BY <5>4, <7>3
          <6>3. CASE i # l
            <7>1. nd.lev1[i] = d.inode[f].lev1[i]  BY <6>0, <6>3, <3>23
            <7>2. e.index[d.inode[f].lev1[i]] = d.index[d.inode[f].lev1[i]]
              <8>1. PICK a : a = d.inode[f].lev1[i] /\ a # b /\ a \in 0 .. NumBlock
                BY <3>24
              <8>. QED  BY ONLY <8>1, <3>21
            <7>. QED  BY <5>4, <6>1, <7>1, <7>2
          <6>. QED  BY <6>2, <6>3
        <5>. QED  BY <5>2, <5>3, <5>4, SlotCases
      <4>. QED  BY <4>1, <4>2
    <3>. HIDE DEF s
    <3>11. Sound(e)  BY <3>1, <3>3, <3>9, <3>10, <1>0, <1>2, SlotGets
    <3>12. Alike(d, e)  BY <3>3, <3>6, <3>8 DEF Alike
    <3>13. Grown(d, e, f, {s})  BY <3>10, <3>11, <3>12, <1>2 DEF Grown
    <3>. QED  BY <3>1, <3>10, <3>13, <1>0, <2>2 DEF s
  <2>. QED  BY <2>1, <2>2
<1>. QED  BY <1>1, <1>2

\* A block for an entry of an index block.
LEMMA EntryGrows ==
  ASSUME NEW d, Sound(d), NEW f \in File, d.inode[f] # NoFile, NEW l \in 0 .. 1,
         NEW i \in 0 .. (LEV - 1), NEW e, e = WithEntry(d, f, l, i),
         At(d, f, <<"level", l, 0>>) # 0 \/ Full(d)
  PROVE  /\ Grown(d, e, f, {<<"entry", l, i>>})
         /\ At(e, f, <<"entry", l, i>>) # 0 \/ Full(e)
         /\ Full(d) => e = d
<1>. DEFINE s == <<"entry", l, i>>
<1>1. PICK a \in 0 .. NumBlock : a = d.inode[f].lev1[l]
  <2>1. l \in 0 .. 2  OBVIOUS
  <2>. QED  BY <2>1, NodeOf DEF Sound
<1>0. /\ s \in Slot /\ Shape(d) /\ At(d, f, s) = d.index[a][i]
      /\ At(d, f, <<"level", l, 0>>) = a /\ <<"level", l, 0>> \in Slot
  BY <1>1, Slots, AtSlot DEF Sound
<1>2. /\ d.index \in [0 .. NumBlock -> [0 .. (LEV - 1) -> Pointer]]
      /\ d.index[a] \in [0 .. (LEV - 1) -> Pointer]
  BY <1>0 DEF Shape, Disk
<1>3. CASE At(d, f, s) # 0
  <2>1. e = d  BY <1>0, <1>1, <1>3 DEF WithEntry
  <2>. QED  BY <1>3, <2>1 DEF Grown, Alike
<1>4. CASE At(d, f, s) = 0
  <2>1. CASE Full(d)
    <3>1. alloc_data_block(d) = 0 /\ Allocated(d) = d /\ d.index[a][i] = 0
      BY <2>1, <1>0, <1>4, Allocates
    <3>2. e = [d EXCEPT !.index[a][i] = 0]  BY <3>1, <1>1 DEF WithEntry
    <3>3. [d.index EXCEPT ![a][i] = 0] = d.index
      <4>1. [d.index[a] EXCEPT ![i] = 0] = d.index[a]  BY <1>2, <3>1
      <4>2. [d.index EXCEPT ![a] = d.index[a]] = d.index  BY <1>2
      <4>. QED  BY <4>1, <4>2
    <3>4. e = [d EXCEPT !.index = d.index]  BY <3>2, <3>3, <1>0 DEF Shape, Disk
    <3>5. e = d  BY <3>4, <1>0 DEF Shape, Disk
    <3>. QED  BY <2>1, <3>5 DEF Grown, Alike
  <2>2. CASE ~ Full(d)
    <3>1. PICK b \in Pointer : /\ b \in Block /\ b \notin d.bmap /\ b # 0
                               /\ b = alloc_data_block(d)
                               /\ Allocated(d) = [d EXCEPT !.bmap = @ \cup {b}]
      BY <2>2, <1>0, Allocates
    <3>2. e = [[d EXCEPT !.bmap = @ \cup {b}] EXCEPT !.index[a][i] = b]
      BY <3>1, <1>0, <1>1, <1>4 DEF WithEntry
    <3>3. /\ e.bmap = d.bmap \cup {b} /\ e.data = d.data /\ e.inode = d.inode
          /\ e.index = [d.index EXCEPT ![a][i] = b]
      BY <3>2, <1>0 DEF Shape, Disk
    <3>4. PICK row : row = [d.index[a] EXCEPT ![i] = b]  OBVIOUS
    <3>5. /\ row \in [0 .. (LEV - 1) -> Pointer] /\ row[i] = b
          /\ \A x \in 0 .. (LEV - 1) : x # i => row[x] = d.index[a][x]
      BY <3>1, <3>4, <1>2
    <3>6. /\ e.index = [d.index EXCEPT ![a] = row]
          /\ e.index[a] = row /\ \A x \in 0 .. NumBlock : x # a => e.index[x] = d.index[x]
      BY <3>3, <3>4, <1>2
    <3>7. a # 0  BY <1>0, <2>2
    <3>9. Shape(e)
      <4>1. e.index \in [0 .. NumBlock -> [0 .. (LEV - 1) -> Pointer]]  BY <3>5, <3>6, <1>2
      <4>2. e \in Disk
        <5>1. /\ e.inode \in [File -> Node \cup {NoFile}] /\ e.bmap \in SUBSET Block
              /\ e.data \in [0 .. NumBlock -> [0 .. (BS - 1) -> Byte]]
          BY <3>1, <3>3, <1>0 DEF Shape, Disk
        <5>2. e = [inode |-> e.inode, bmap |-> e.bmap, data |-> e.data, index |-> e.index]
          BY <3>2, <1>0 DEF Shape, Disk
        <5>. QED  BY <4>1, <5>1, <5>2 DEF Disk
      <4>3. e.index[0] = NoEntries
        <5>1. 0 \in 0 .. NumBlock  BY SizesOK
        <5>. QED  BY <5>1, <3>6, <3>7, <1>0 DEF Shape
      <4>. QED  BY <4>2, <4>3, <3>3, <1>0 DEF Shape
    \* The index block is of f alone.
    <3>10. \A g \in File : \A t \in Slot : At(e, g, t) = IF g = f /\ t = s THEN b ELSE At(d, g, t)
      <4>1. SUFFICES ASSUME NEW g \in File, NEW t \in Slot
            PROVE  At(e, g, t) = IF g = f /\ t = s THEN b ELSE At(d, g, t)
        OBVIOUS
      <4>2. CASE d.inode[g] = NoFile  BY <4>2, <3>3 DEF At
      <4>3. CASE d.inode[g] # NoFile
        <5>1. e.inode[g] = d.inode[g] /\ e.inode[g] # NoFile  BY <4>3, <3>3
        <5>2. ASSUME NEW x \in 0 .. (DPTR - 1), t = <<"direct", 0, x>>
              PROVE  At(e, g, t) = At(d, g, t) /\ t # s
          BY <4>3, <5>1, <5>2, AtSlot
        <5>3. ASSUME NEW x \in 0 .. 1, t = <<"level", x, 0>>
              PROVE  At(e, g, t) = At(d, g, t) /\ t # s
          BY <4>3, <5>1, <5>3, AtSlot
        <5>4. ASSUME NEW x \in 0 .. 1, NEW y \in 0 .. (LEV - 1), t = <<"entry", x, y>>
              PROVE  At(e, g, t) = IF g = f /\ t = s THEN b ELSE At(d, g, t)
          <6>1. PICK c \in 0 .. NumBlock : c = d.inode[g].lev1[x]
            <7>1. x \in 0 .. 2  OBVIOUS
            <7>. QED  BY <7>1, <4>3, <1>0, NodeOf
          <6>2. /\ At(e, g, t) = e.index[c][y] /\ At(d, g, t) = d.index[c][y]
                /\ At(d, g, <<"level", x, 0>>) = c
            BY <4>3, <5>1, <5>4, <6>1, AtSlot
          <6>3. CASE c # a
            <7>1. e.index[c] = d.index[c]  BY <6>3, <3>6
            <7>2. ~ (g = f /\ t = s)  BY <6>1, <6>3, <5>4, <1>1
            <7>. QED  BY <6>2, <7>1, <7>2
          <6>4. CASE c = a
            <7>1. g = f /\ <<"level", x, 0>> = <<"level", l, 0>>
              <8>1. <<"level", x, 0>> \in Slot  BY Slots
              <8>2. At(d, g, <<"level", x, 0>>) = At(d, f, <<"level", l, 0>>)
                    /\ At(d, g, <<"level", x, 0>>) # 0
                BY <6>2, <6>4, <1>0, <3>7
              <8>. QED  BY <8>1, <8>2, <1>0 DEF Sound, Apart
            <7>2. x = l  BY <7>1
            <7>3. e.index[c] = row  BY <6>4, <3>6
            <7>4. CASE y = i
              <8>1. At(e, g, t) = b /\ g = f /\ t = s  BY <7>1, <7>2, <7>3, <7>4, <6>2, <5>4, <3>5
              <8>. QED  BY <8>1
            <7>5. CASE y # i
              <8>1. At(e, g, t) = At(d, g, t) /\ t # s
                BY <7>3, <7>5, <6>2, <6>4, <5>4, <3>5
              <8>. QED  BY <8>1
            <7>. QED  BY <7>4, <7>5
          <6>. QED  BY <6>3, <6>4
        <5>. HIDE DEF s
        <5>. QED  BY <5>2, <5>3, <5>4, SlotCases
      <4>. QED  BY <4>2, <4>3
    <3>. HIDE DEF s
    <3>11. Sound(e)  BY <3>1, <3>3, <3>9, <3>10, <1>0, <1>4, SlotGets
    <3>12. Alike(d, e)  BY <3>3 DEF Alike
    <3>13. Grown(d, e, f, {s})  BY <3>10, <3>11, <3>12, <1>4 DEF Grown
    <3>. QED  BY <3>1, <3>10, <3>13, <1>0, <2>2 DEF s
  <2>. QED  BY <2>1, <2>2
<1>. QED  BY <1>3, <1>4

LEMMA GrownTwice ==
  ASSUME NEW d, NEW e, NEW c, NEW f \in File, NEW S, NEW T, Grown(d, e, f, S), Grown(e, c, f, T)
  PROVE  Grown(d, c, f, S \cup T)
<1>1. Sound(c)  BY DEF Grown
<1>2. Alike(d, c)  BY DEF Grown, Alike
<1>3. ASSUME NEW g \in File, NEW t \in Slot
      PROVE  At(c, g, t) = At(d, g, t) \/ (g = f /\ t \in S \cup T /\ At(d, g, t) = 0)
  BY DEF Grown
<1>. QED  BY <1>1, <1>2, <1>3 DEF Grown

-----------------------------------------------------------------------------
(* Sectors and slots.                                                      *)

SlotOf(sec) ==
  IF sec < Direct THEN <<"direct", 0, sec \div SPB>>
  ELSE <<"entry", LevelOf(sec), EntryOf(sec)>>
LevelSlotOf(sec) == {<<"level", l, 0>> : l \in {x \in 0 .. 1 : ~ (sec < Direct) /\ x = LevelOf(sec)}}

LEMMA SectorSlot ==
  ASSUME NEW sec \in Nat, sec < Reach
  PROVE  /\ SlotOf(sec) \in Slot
         /\ sec < Direct => sec \div SPB \in 0 .. (DPTR - 1)
         /\ ~ (sec < Direct) => LevelOf(sec) \in 0 .. 1 /\ EntryOf(sec) \in 0 .. (LEV - 1)
<1>1. /\ DPTR \in Nat \ {0} /\ LEV \in Nat \ {0}  BY SizesOK
<1>2. PICK c \in Nat : /\ c = sec \div SPB /\ (sec < Direct <=> c < DPTR) /\ c < DPTR + 2 * LEV
                       /\ ~ (sec < Direct) => /\ c - DPTR \in Nat
                                              /\ LevelOf(sec) = (c - DPTR) \div LEV
                                              /\ EntryOf(sec) = (c - DPTR) % LEV
  BY SectorNumbers
<1>3. CASE sec < Direct
  <2>1. c \in 0 .. (DPTR - 1)  BY <1>1, <1>2, <1>3
  <2>. QED  BY <2>1, <1>2, <1>3, Slots DEF SlotOf
<1>4. CASE ~ (sec < Direct)
  <2>1. PICK x \in Nat : x = c - DPTR /\ x < 2 * LEV  BY <1>1, <1>2, <1>4
  <2>2. PICK l \in Nat, e \in Nat : l = x \div LEV /\ e = x % LEV /\ e < LEV /\ x = LEV * l + e
    BY <1>1, Quotient
  <2>3. l \in 0 .. 1
    <3>1. CASE 1 < l
      <4>1. LEV * 1 + LEV <= LEV * l  BY <3>1, <1>1, TimesLess
      <4>2. LEV * 1 = LEV /\ LEV * l \in Nat  BY <1>1, Times
      <4>. QED  BY <4>1, <4>2, <2>1, <2>2, <1>1
    <3>. QED  BY <3>1
  <2>4. e \in 0 .. (LEV - 1)  BY <2>2, <1>1
  <2>5. LevelOf(sec) = l /\ EntryOf(sec) = e  BY <1>2, <1>4, <2>1, <2>2
  <2>. QED  BY <2>3, <2>4, <2>5, <1>4, Slots DEF SlotOf
<1>. QED  BY <1>3, <1>4

LEMMA SectorBlock ==
  ASSUME NEW d, NEW g, d.inode[g] # NoFile, NEW sec
  PROVE  BlockOf(d, g, sec) = At(d, g, SlotOf(sec))
BY AtSlot DEF BlockOf, SlotOf

\* Sectors in one slot are sectors of one block.
LEMMA SlotBlock ==
  ASSUME NEW sec \in Nat, NEW tec \in Nat, SlotOf(sec) = SlotOf(tec)
  PROVE  sec \div SPB = tec \div SPB
<1>1. /\ DPTR \in Nat \ {0} /\ LEV \in Nat \ {0}  BY SizesOK
<1>2. PICK c \in Nat : /\ c = sec \div SPB /\ (sec < Direct <=> c < DPTR)
                       /\ ~ (sec < Direct) => /\ c - DPTR \in Nat
                                              /\ LevelOf(sec) = (c - DPTR) \div LEV
                                              /\ EntryOf(sec) = (c - DPTR) % LEV
  BY SectorNumbers
<1>3. PICK b \in Nat : /\ b = tec \div SPB /\ (tec < Direct <=> b < DPTR)
                       /\ ~ (tec < Direct) => /\ b - DPTR \in Nat
                                              /\ LevelOf(tec) = (b - DPTR) \div LEV
                                              /\ EntryOf(tec) = (b - DPTR) % LEV
  BY SectorNumbers
<1>4. CASE sec < Direct
  <2>1. SlotOf(sec) = <<"direct", 0, c>>  BY <1>2, <1>4 DEF SlotOf
  <2>2. tec < Direct  BY <2>1 DEF SlotOf
  <2>3. SlotOf(tec) = <<"direct", 0, b>>  BY <1>3, <2>2 DEF SlotOf
  <2>4. <<"direct", 0, b>> = <<"direct", 0, c>>  BY <2>1, <2>3
  <2>5. b = c  BY <2>4
  <2>. QED  BY <2>5, <1>2, <1>3
<1>5. CASE ~ (sec < Direct)
  <2>1. SlotOf(sec) = <<"entry", LevelOf(sec), EntryOf(sec)>>  BY <1>5 DEF SlotOf
  <2>2. ~ (tec < Direct)  BY <2>1 DEF SlotOf
  <2>3. SlotOf(tec) = <<"entry", LevelOf(tec), EntryOf(tec)>>  BY <2>2 DEF SlotOf
  <2>4. LevelOf(sec) = LevelOf(tec) /\ EntryOf(sec) = EntryOf(tec)
    <3>1. PICK p, q, u, v : p = LevelOf(sec) /\ q = LevelOf(tec) /\ u = EntryOf(sec) /\ v = EntryOf(tec)
      OBVIOUS
    <3>2. <<"entry", p, u>> = <<"entry", q, v>>  BY <2>1, <2>3, <3>1
    <3>3. p = q /\ u = v  BY <3>2
    <3>. QED  BY <3>1, <3>3
  <2>5. PICK x \in Nat, y \in Nat : /\ x = c - DPTR /\ y = b - DPTR
                                    /\ x \div LEV = y \div LEV /\ x % LEV = y % LEV
    BY <1>2, <1>3, <1>5, <2>2, <2>4
  <2>6. x = LEV * (x \div LEV) + (x % LEV)  BY <1>1, Quotient
  <2>7. y = LEV * (y \div LEV) + (y % LEV)  BY <1>1, Quotient
  <2>8. x = y  BY <2>5, <2>6, <2>7, Zenon
  <2>. QED  BY <2>5, <2>8, <1>1, <1>2, <1>3
<1>. QED  BY <1>4, <1>5

\* What do_fwrite allocates for a sector.
LEMMA SectorGrows ==
  ASSUME NEW d, Sound(d), NEW f \in File, d.inode[f] # NoFile, NEW sec \in Nat, sec < Reach,
         NEW e, e = WithSector(d, f, sec)
  PROVE  /\ Grown(d, e, f, {SlotOf(sec)} \cup LevelSlotOf(sec))
         /\ BlockOf(e, f, sec) # 0 \/ Full(e)
         /\ Full(d) => e = d
<1>1. CASE sec < Direct
  <2>1. PICK j \in 0 .. (DPTR - 1) : j = sec \div SPB  BY <1>1, SectorSlot
  <2>2. SlotOf(sec) = <<"direct", 0, j>> /\ LevelSlotOf(sec) = {} /\ e = WithDirect(d, f, j)
    BY <1>1, <2>1 DEF SlotOf, LevelSlotOf, WithSector
  <2>3. /\ Grown(d, e, f, {SlotOf(sec)})
        /\ At(e, f, SlotOf(sec)) # 0 \/ Full(e)
        /\ Full(d) => e = d
    BY <2>2, DirectGrows
  <2>4. e.inode[f] # NoFile  BY <2>3 DEF Grown, Alike
  <2>5. BlockOf(e, f, sec) = At(e, f, SlotOf(sec))  BY <2>4, SectorBlock
  <2>6. {SlotOf(sec)} \cup LevelSlotOf(sec) = {SlotOf(sec)}  BY <2>2
  <2>. QED  BY <2>3, <2>5, <2>6
<1>2. CASE ~ (sec < Direct)
  <2>1. PICK l \in 0 .. 1, i \in 0 .. (LEV - 1) : l = LevelOf(sec) /\ i = EntryOf(sec)
    BY <1>2, SectorSlot
  <2>2. PICK c : c = WithLevel(d, f, l)  OBVIOUS
  <2>3. SlotOf(sec) = <<"entry", l, i>> /\ e = WithEntry(c, f, l, i)
    BY <1>2, <2>1, <2>2 DEF SlotOf, WithSector
  <2>4. LevelSlotOf(sec) = {<<"level", l, 0>>}  BY <1>2, <2>1 DEF LevelSlotOf
  <2>5. /\ Grown(d, c, f, {<<"level", l, 0>>})
        /\ At(c, f, <<"level", l, 0>>) # 0 \/ Full(c)
        /\ Full(d) => c = d
    BY <2>2, LevelGrows
  <2>6. Sound(c) /\ c.inode[f] # NoFile  BY <2>5 DEF Grown, Alike
  <2>7. /\ Grown(c, e, f, {<<"entry", l, i>>})
        /\ At(e, f, <<"entry", l, i>>) # 0 \/ Full(e)
        /\ Full(c) => e = c
    BY <2>3, <2>5, <2>6, EntryGrows
  <2>8. Grown(d, e, f, {<<"level", l, 0>>} \cup {<<"entry", l, i>>})
    BY <2>5, <2>7, GrownTwice
  <2>9. e.inode[f] # NoFile  BY <2>6, <2>7 DEF Grown, Alike
  <2>10. BlockOf(e, f, sec) = At(e, f, SlotOf(sec))  BY <2>9, SectorBlock
  <2>11. {SlotOf(sec)} \cup LevelSlotOf(sec) = {<<"level", l, 0>>} \cup {<<"entry", l, i>>}
    BY <2>3, <2>4
  <2>. QED  BY <2>3, <2>5, <2>7, <2>8, <2>10, <2>11
<1>. QED  BY <1>1, <1>2

-----------------------------------------------------------------------------
(* What a write leaves.                                                    *)

Kin(d, e) ==
  \A g \in File : /\ e.inode[g] = NoFile <=> d.inode[g] = NoFile
                  /\ d.inode[g] # NoFile => e.inode[g].usize = d.inode[g].usize
Held(d, g, o) == d.data[BlockOf(d, g, o \div SS)][o % BS]
Has(d, g, o) == d.inode[g] # NoFile /\ BlockOf(d, g, o \div SS) # 0
Bytes(w, n) == [k \in 1 .. n |-> <<w, k>>]

LEMMA BlockType ==
  ASSUME NEW d, Shape(d), NEW g \in File, d.inode[g] # NoFile, NEW sec \in Nat, sec < Reach
  PROVE  BlockOf(d, g, sec) \in Pointer
BY SectorSlot, SectorBlock, AtType

\* Bytes alone are not what pointers are about.
LEMMA OtherBytes ==
  ASSUME NEW e, Sound(e), NEW c \in Disk, c.inode = e.inode, c.bmap = e.bmap, c.index = e.index
  PROVE  /\ Sound(c) /\ Kin(e, c)
         /\ \A g, t : At(c, g, t) = At(e, g, t)
         /\ \A g, sec : BlockOf(c, g, sec) = BlockOf(e, g, sec)
<1>1. /\ \A g, t : At(c, g, t) = At(e, g, t)
      /\ \A g, sec : BlockOf(c, g, sec) = BlockOf(e, g, sec)
  BY DEF At, BlockOf
<1>2. Shape(c)  BY DEF Sound, Shape
<1>3. Apart(c)  BY <1>1 DEF Sound, Apart
<1>4. Marked(c)  BY <1>1 DEF Sound, Marked
<1>5. Kin(e, c)  BY DEF Kin
<1>. QED  BY <1>1, <1>2, <1>3, <1>4, <1>5 DEF Sound

StoredIn(e, c, b, p, w) ==
  /\ c \in Disk /\ c.inode = e.inode /\ c.bmap = e.bmap /\ c.index = e.index
  /\ \A x \in Pointer : x # b => c.data[x] = e.data[x]
  /\ \A k \in 1 .. p.len : c.data[b][Place(p, k)] = <<w, p.from + k>>
  /\ \A y \in 0 .. (BS - 1) : (\A k \in 1 .. p.len : y # Place(p, k)) =>
                              c.data[b][y] = e.data[b][y]

LEMMA BytesStored ==
  ASSUME NEW e, Sound(e), NEW f \in File, e.inode[f] # NoFile, NEW at \in Nat, NEW n \in Nat,
         NEW p, Part(p, at, n), NEW w \in Nat
  PROVE  StoredIn(e, Stored(e, f, p, Bytes(w, n)), BlockOf(e, f, p.sec), p, w)
<1>. PICK b, c : b = BlockOf(e, f, p.sec) /\ c = Stored(e, f, p, Bytes(w, n))  OBVIOUS
<1>1. PICK sec \in Nat, off \in Nat, from \in Nat, len \in Nat :
         p.sec = sec /\ p.off = off /\ p.from = from /\ p.len = len /\ sec < Reach /\ from + len <= n
  BY DEF Part, Portion
<1>2. b \in Pointer /\ b \in 0 .. NumBlock
  BY <1>1, BlockType DEF Sound, Pointer
<1>3. /\ e \in Disk /\ e.data \in [0 .. NumBlock -> [0 .. (BS - 1) -> Byte]]
      /\ e.data[b] \in [0 .. (BS - 1) -> Byte]
  BY <1>2 DEF Sound, Shape, Disk
<1>4. \A k \in 1 .. len : Place(p, k) \in 0 .. (BS - 1)
  <2>. TAKE k \in 1 .. len
  <2>1. PICK o \in Nat : o = at + p.from + k - 1  BY <1>1
  <2>2. o % BS = Place(p, k)  BY <2>1, <1>1, PiecePlaces
  <2>. QED  BY <2>1, <2>2, OffsetNumbers
<1>5. PICK z \in Nat : \A k \in 1 .. len : Place(p, k) = z + k - 1
  <2>1. PICK y \in Nat : y = (sec % SPB) * SS
    <3>1. SPB \in Nat \ {0} /\ SS \in Nat \ {0}  BY SizesOK
    <3>2. sec % SPB \in Nat  BY <3>1, Quotient
    <3>. QED  BY <3>1, <3>2, Times
  <2>2. \A k \in 1 .. len : Place(p, k) = y + off + k - 1  BY <1>1, <2>1, Zenon DEF Place
  <2>3. y + off \in Nat  OBVIOUS
  <2>. QED  BY <2>2, <2>3
<1>. DEFINE Hit(x) == \E k \in 1 .. len : x = Place(p, k)
            New(x) == IF Hit(x) THEN Bytes(w, n)[from + (CHOOSE k \in 1 .. len : x = Place(p, k))]
                      ELSE e.data[b][x]
            row == [x \in 0 .. (BS - 1) |-> New(x)]
<1>6. \A k \in 1 .. len : Hit(Place(p, k)) /\ New(Place(p, k)) = <<w, from + k>>
  <2>. TAKE k \in 1 .. len
  <2>1. PICK j : j = CHOOSE i \in 1 .. len : Place(p, k) = Place(p, i)  OBVIOUS
  <2>2. j \in 1 .. len /\ Place(p, k) = Place(p, j)  BY <2>1
  <2>3. j = k  BY <2>2, <1>5
  <2>4. from + k \in 1 .. n  BY <1>1
  <2>5. Bytes(w, n)[from + k] = <<w, from + k>>  BY <2>4 DEF Bytes
  <2>. QED  BY <2>1, <2>3, <2>5
<1>7. c = [e EXCEPT !.data[b] = row]
  <2>1. DOMAIN e.data[b] = 0 .. (BS - 1)  BY <1>3
  <2>2. c = [e EXCEPT !.data[b] = [x \in DOMAIN @ |-> IF \E k \in 1 .. p.len : x = Place(p, k)
               THEN Bytes(w, n)[p.from + (CHOOSE k \in 1 .. p.len : x = Place(p, k))] ELSE @[x]]]
    BY DEF Stored
  <2>3. c = [e EXCEPT !.data = [e.data EXCEPT ![b] = row]]
    BY <2>1, <2>2, <1>1, <1>3 DEF Disk
  <2>. QED  BY <2>3, <1>3 DEF Disk
<1>8. row \in [0 .. (BS - 1) -> Byte]
  <2>1. ASSUME NEW x \in 0 .. (BS - 1) PROVE New(x) \in Byte
    <3>1. CASE Hit(x)
      <4>1. PICK k \in 1 .. len : x = Place(p, k)  BY <3>1
      <4>2. New(x) = <<w, from + k>> /\ from + k \in Nat  BY <4>1, <1>6
      <4>. HIDE DEF New
      <4>. QED  BY <4>2 DEF Byte
    <3>2. CASE ~ Hit(x)
      <4>1. New(x) = e.data[b][x]  BY <3>2
      <4>. HIDE DEF New
      <4>. QED  BY <4>1, <1>3
    <3>. QED  BY <3>1, <3>2
  <2>. HIDE DEF New
  <2>. QED  BY <2>1
<1>9. /\ c.data = [e.data EXCEPT ![b] = row]
      /\ c.inode = e.inode /\ c.bmap = e.bmap /\ c.index = e.index
  <2>. HIDE DEF row
  <2>. QED  BY <1>3, <1>7 DEF Disk
<1>10. c \in Disk
  <2>. HIDE DEF row
  <2>1. c.data \in [0 .. NumBlock -> [0 .. (BS - 1) -> Byte]]  BY <1>3, <1>8, <1>9
  <2>2. c = [inode |-> c.inode, bmap |-> c.bmap, data |-> c.data, index |-> c.index]
    BY <1>3, <1>7 DEF Disk
  <2>. QED  BY <2>1, <2>2, <1>3, <1>9 DEF Disk
<1>11. c.data[b] = row /\ \A x \in Pointer : x # b => c.data[x] = e.data[x]
  <2>. HIDE DEF row
  <2>. QED  BY <1>2, <1>3, <1>9 DEF Pointer
<1>12. \A k \in 1 .. len : c.data[b][Place(p, k)] = <<w, from + k>>
  <2>. TAKE k \in 1 .. len
  <2>1. row[Place(p, k)] = New(Place(p, k))
    <3>. HIDE DEF New
    <3>. QED  BY <1>4
  <2>. QED  BY <2>1, <1>6, <1>11, Zenon
<1>13. \A y \in 0 .. (BS - 1) : (\A k \in 1 .. len : y # Place(p, k)) => c.data[b][y] = e.data[b][y]
  <2>. TAKE y \in 0 .. (BS - 1)
  <2>1. HAVE \A k \in 1 .. len : y # Place(p, k)
  <2>2. New(y) = e.data[b][y]  BY <2>1
  <2>3. row[y] = New(y)
    <3>. HIDE DEF New
    <3>. QED  OBVIOUS
  <2>. QED  BY <2>2, <2>3, <1>11, Zenon
<1>. HIDE DEF row
<1>. QED  BY <1>1, <1>9, <1>10, <1>11, <1>12, <1>13 DEF StoredIn

\* e is what d became when the first n bytes of the w-th write, at an offset of
\* f, are stored.
Good(d, e, f, at, n, w) ==
  /\ Sound(e) /\ Kin(d, e)
  /\ \A g \in File : \A t \in Slot :
       /\ At(d, g, t) # 0 => At(e, g, t) = At(d, g, t)
       /\ g # f => At(e, g, t) = At(d, g, t)
  /\ \A l \in 0 .. 1 : \/ At(e, f, <<"level", l, 0>>) = At(d, f, <<"level", l, 0>>)
                       \/ \E o \in at .. (at + n - 1) : DirectEnd + l * LevelSize <= o
  /\ \A o \in at .. (at + n - 1) : Has(e, f, o) /\ Held(e, f, o) = <<w, o - at + 1>>
  /\ \A g \in File : \A o \in Offset :
       Has(d, g, o) /\ ~ (g = f /\ o \in at .. (at + n - 1)) => Held(e, g, o) = Held(d, g, o)

\* The card was full when a sector needed a block.
Stuck(e, f, sec) ==
  Sound(e) /\ e.inode[f] # NoFile /\ Full(e) /\ BlockOf(e, f, sec) = 0

\* The sectors of a level are behind its first offset.
LEMMA LevelStart ==
  ASSUME NEW sec \in Nat, sec < Reach, NEW l \in 0 .. 1, ~ (sec < Direct), l = LevelOf(sec),
         NEW o \in Nat, o \div SS = sec
  PROVE  DirectEnd + l * LevelSize <= o
<1>1. /\ SS \in Nat \ {0} /\ Level \in Nat \ {0} /\ Direct \in Nat \ {0}
      /\ DirectEnd = Direct * SS /\ LevelSize = Level * SS
  BY SizesOK DEF DirectEnd, LevelSize
<1>2. PICK y \in Nat : y = sec - Direct  BY <1>1
<1>3. l = y \div Level /\ y = Level * l + (y % Level) /\ y % Level \in Nat
  BY <1>1, <1>2, Quotient DEF LevelOf
<1>4. PICK v \in Nat : v = Level * l /\ v <= y  BY <1>1, <1>3, Times
<1>5. PICK u \in Nat : sec = (Direct + v) + u
  <2>1. sec - (Direct + v) \in Nat  BY <1>1, <1>2, <1>4
  <2>. QED  BY <2>1, <1>1
<1>6. o = SS * sec + (o % SS) /\ o % SS \in Nat /\ SS * sec \in Nat
  BY <1>1, Quotient, Times
<1>7. SS * sec = SS * (Direct + v) + SS * u /\ SS * (Direct + v) = SS * Direct + SS * v
  BY <1>1, <1>5, Times
<1>8. SS * Direct = DirectEnd /\ SS * u \in Nat /\ SS * v \in Nat /\ DirectEnd \in Nat
  BY <1>1, Times, SizesOK
<1>9. SS * v = l * LevelSize
  <2>1. l \in Nat  OBVIOUS
  <2>2. SS * v = (SS * Level) * l  BY <2>1, <1>1, <1>4, Times
  <2>3. SS * Level = LevelSize /\ LevelSize \in Nat  BY <1>1, Times, SizesOK
  <2>. QED  BY <2>1, <2>2, <2>3, Times
<1>10. PICK m \in Nat, a \in Nat, b \in Nat, r \in Nat, x \in Nat :
          m = SS * sec /\ a = SS * Direct /\ b = SS * v /\ r = o % SS /\ x = SS * u
  BY <1>6, <1>8
<1>11. o = m + r /\ m = (a + b) + x  BY <1>6, <1>7, <1>10
<1>12. a + b <= o  BY <1>11
<1>. QED  BY <1>8, <1>9, <1>10, <1>12

\* The offsets of a file in the block of a sector of the same file.
LEMMA SameSlot ==
  ASSUME NEW at \in Nat, NEW m, NEW p, Part(p, at, m), NEW o \in Nat,
         SlotOf(o \div SS) = SlotOf(p.sec),
         NEW k \in 1 .. p.len, o % BS = Place(p, k)
  PROVE  o = at + p.from + k - 1
<1>1. BS \in Nat \ {0} /\ p.sec \in Nat /\ p.from \in Nat /\ p.len \in Nat
  BY SizesOK DEF Part, Portion
<1>2. PICK x \in Nat : x = at + p.from + k - 1  BY <1>1
<1>3. x \div SS = p.sec /\ x % BS = Place(p, k)  BY <1>2, PiecePlaces
<1>4. o \div SS \in Nat /\ (o \div SS) \div SPB = o \div BS  BY OffsetNumbers
<1>5. (x \div SS) \div SPB = x \div BS  BY OffsetNumbers
<1>6. (o \div SS) \div SPB = p.sec \div SPB  BY <1>1, <1>4, SlotBlock
<1>7. o \div BS = x \div BS /\ o % BS = x % BS  BY <1>3, <1>4, <1>5, <1>6
<1>8. o = BS * (o \div BS) + (o % BS)  BY <1>1, Quotient
<1>9. x = BS * (x \div BS) + (x % BS)  BY <1>1, Quotient
<1>. QED  BY <1>2, <1>7, <1>8, <1>9, Zenon

LEMMA OffsetSector ==
  ASSUME NEW o \in Offset
  PROVE  o \in Nat /\ o \div SS \in Nat /\ o \div SS < Reach
<1>1. SS \in Nat \ {0} /\ Reach \in Nat \ {0} /\ Capacity = SS * Reach /\ Capacity \in Nat
  BY SizesOK, Times DEF Capacity
<1>2. o \in Nat /\ o < Capacity  BY <1>1 DEF Offset
<1>3. PICK t \in Nat, r \in Nat : t = o \div SS /\ r = o % SS /\ o = SS * t + r
  BY <1>1, <1>2, Quotient
<1>4. t < Reach
  <2>1. SUFFICES ASSUME Reach <= t PROVE FALSE  BY <1>1
  <2>2. SS * Reach <= SS * t
    <3>1. CASE Reach = t  BY <3>1, <1>1, Times
    <3>2. CASE Reach < t
      <4>1. SS * Reach + SS <= SS * t /\ SS * t \in Nat /\ SS * Reach \in Nat
        BY <3>2, <1>1, TimesLess, Times
      <4>. QED  BY <4>1, <1>1
    <3>. QED  BY <2>1, <3>1, <3>2, <1>1
  <2>3. SS * t \in Nat  BY <1>1, Times
  <2>. QED  BY <2>2, <2>3, <1>1, <1>2, <1>3
<1>. QED  BY <1>2, <1>3, <1>4

LEMMA StoreOne ==
  ASSUME NEW d, Sound(d), NEW f \in File, d.inode[f] # NoFile, NEW at \in Nat, NEW n \in Nat,
         NEW w \in Nat, NEW p, Part(p, at, n), NEW e, Good(d, e, f, at, p.from, w),
         NEW c, c = PutPiece(e, f, p, Bytes(w, n))
  PROVE  Good(d, c, f, at, p.from + p.len, w) \/ Stuck(c, f, p.sec)
<1>1. PICK sec \in Nat, from \in Nat, len \in Nat :
         p.sec = sec /\ p.from = from /\ p.len = len /\ sec < Reach /\ len # 0 /\ from + len <= n
  BY DEF Part, Portion
<1>2. Sound(e) /\ Kin(d, e) /\ e.inode[f] # NoFile  BY DEF Good, Kin
<1>3. PICK h : h = WithSector(e, f, sec)  OBVIOUS
<1>4. /\ Grown(e, h, f, {SlotOf(sec)} \cup LevelSlotOf(sec))
      /\ BlockOf(h, f, sec) # 0 \/ Full(h)
  BY <1>1, <1>2, <1>3, SectorGrows
<1>5. Sound(h) /\ Kin(d, h) /\ h.inode[f] # NoFile /\ h.data = e.data
  BY <1>2, <1>4 DEF Grown, Alike, Kin
<1>6. PICK b \in Pointer : b = BlockOf(h, f, sec)  BY <1>1, <1>5, BlockType DEF Sound
<1>7. c = Stored(h, f, p, Bytes(w, n))  BY <1>1, <1>3 DEF PutPiece
<1>8. /\ c \in Disk /\ c.inode = h.inode /\ c.bmap = h.bmap /\ c.index = h.index
      /\ \A x \in Pointer : x # b => c.data[x] = h.data[x]
      /\ \A k \in 1 .. len : c.data[b][Place(p, k)] = <<w, from + k>>
      /\ \A y \in 0 .. (BS - 1) : (\A k \in 1 .. len : y # Place(p, k)) =>
                                  c.data[b][y] = h.data[b][y]
  <2>1. b = BlockOf(h, f, p.sec)  BY <1>1, <1>6
  <2>2. StoredIn(h, Stored(h, f, p, Bytes(w, n)), BlockOf(h, f, p.sec), p, w)
    BY <1>5, BytesStored, Zenon
  <2>3. StoredIn(h, c, b, p, w)  BY <2>1, <2>2, <1>7, Zenon
  <2>. QED  BY <1>1, <2>3 DEF StoredIn
<1>9. /\ Sound(c) /\ Kin(h, c)
      /\ \A g, t : At(c, g, t) = At(h, g, t)
      /\ \A g, s : BlockOf(c, g, s) = BlockOf(h, g, s)
  BY <1>5, <1>8, OtherBytes
<1>10. c.inode[f] # NoFile /\ Kin(d, c)  BY <1>5, <1>8 DEF Kin
<1>11. CASE b = 0
  <2>1. Full(c)  BY <1>4, <1>6, <1>8, <1>11 DEF Full
  <2>. QED  BY <2>1, <1>1, <1>6, <1>9, <1>10, <1>11 DEF Stuck
<1>12. CASE b # 0
  <2>. DEFINE In(o) == o \in at .. (at + from - 1)
              Now(o) == o \in (at + from) .. (at + from + len - 1)
  <2>1. \A o \in at .. (at + (from + len) - 1) : In(o) \/ Now(o)  OBVIOUS
  <2>2. \A o : In(o) \/ Now(o) => o \in at .. (at + (from + len) - 1)  OBVIOUS
  <2>3. \A g \in File : \A t \in Slot :
          /\ At(d, g, t) # 0 => At(c, g, t) = At(d, g, t)
          /\ At(e, g, t) # 0 => At(c, g, t) = At(e, g, t)
          /\ g # f => At(c, g, t) = At(d, g, t)
    BY <1>4, <1>9 DEF Good, Grown
  \* What a file has it keeps, in the same block.
  <2>4. \A g \in File : \A o \in Offset :
          /\ Has(d, g, o) => Has(e, g, o)
          /\ Has(e, g, o) => Has(c, g, o) /\ BlockOf(c, g, o \div SS) = BlockOf(e, g, o \div SS)
    <3>. TAKE g \in File
    <3>. TAKE o \in Offset
    <3>1. PICK s \in Slot : s = SlotOf(o \div SS)  BY OffsetSector, SectorSlot
    <3>2. d.inode[g] # NoFile <=> e.inode[g] # NoFile  BY <1>2 DEF Kin
    <3>3. d.inode[g] # NoFile <=> c.inode[g] # NoFile  BY <1>10 DEF Kin
    <3>4. d.inode[g] # NoFile => /\ BlockOf(d, g, o \div SS) = At(d, g, s)
                                 /\ BlockOf(e, g, o \div SS) = At(e, g, s)
                                 /\ BlockOf(c, g, o \div SS) = At(c, g, s)
      BY <3>1, <3>2, <3>3, SectorBlock
    <3>5. At(d, g, s) # 0 => At(e, g, s) = At(d, g, s)  BY DEF Good
    <3>. QED  BY <3>2, <3>3, <3>4, <3>5, <2>3 DEF Has
  \* The bytes that are not those of the piece.
  <2>5. \A g \in File : \A o \in Offset :
          Has(e, g, o) /\ ~ (g = f /\ Now(o)) => Held(c, g, o) = Held(e, g, o)
    <3>1. SUFFICES ASSUME NEW g \in File, NEW o \in Offset, Has(e, g, o), ~ (g = f /\ Now(o))
          PROVE  Held(c, g, o) = Held(e, g, o)
      OBVIOUS
    <3>2. o \in Nat /\ o \div SS \in Nat /\ o \div SS < Reach  BY OffsetSector
    <3>3. PICK x : x = BlockOf(c, g, o \div SS) /\ x = BlockOf(e, g, o \div SS) /\ x # 0
      BY <3>1, <2>4 DEF Has
    <3>4. c.inode[g] # NoFile  BY <3>1, <2>4 DEF Has
    <3>5. x \in Pointer  BY <3>2, <3>3, <3>4, <1>9, BlockType DEF Sound
    <3>6. CASE x # b
      <4>1. c.data[x] = e.data[x]  BY <3>5, <3>6, <1>5, <1>8
      <4>. QED  BY <4>1, <3>3 DEF Held
    <3>7. CASE x = b
      <4>1. /\ SlotOf(o \div SS) \in Slot /\ SlotOf(sec) \in Slot
            /\ At(c, g, SlotOf(o \div SS)) = x /\ At(c, f, SlotOf(sec)) = b
        BY <3>2, <3>3, <3>4, <1>1, <1>6, <1>9, <1>10, SectorSlot, SectorBlock
      <4>2. g = f /\ SlotOf(o \div SS) = SlotOf(sec)
        BY <4>1, <3>7, <1>9, <1>12 DEF Sound, Apart
      <4>3. \A k \in 1 .. len : o % BS # Place(p, k)
        <5>1. SUFFICES ASSUME NEW k \in 1 .. len, o % BS = Place(p, k) PROVE FALSE  OBVIOUS
        <5>2. o = at + from + k - 1  BY <5>1, <4>2, <3>2, <1>1, SameSlot
        <5>3. Now(o)  BY <5>2
        <5>. QED  BY <5>3, <4>2, <3>1
      <4>4. o % BS \in 0 .. (BS - 1)  BY <3>2, OffsetNumbers
      <4>5. c.data[b][o % BS] = h.data[b][o % BS]  BY <4>3, <4>4, <1>8
      <4>. QED  BY <4>5, <3>3, <3>7, <1>5 DEF Held
    <3>. QED  BY <3>6, <3>7
  \* The bytes of the piece.
  <2>6. \A o : Now(o) => Has(c, f, o) /\ Held(c, f, o) = <<w, o - at + 1>>
    <3>1. SUFFICES ASSUME NEW o, Now(o) PROVE Has(c, f, o) /\ Held(c, f, o) = <<w, o - at + 1>>
      OBVIOUS
    <3>2. PICK k \in 1 .. len : o = at + from + k - 1 /\ o - at + 1 = from + k
      <4>1. o - (at + from) + 1 \in 1 .. len  BY <3>1
      <4>2. o \in Nat  BY <3>1
      <4>. QED  BY <4>1, <4>2
    <3>3. o \div SS = sec /\ o % BS = Place(p, k)  BY <3>2, <1>1, PiecePlaces
    <3>4. BlockOf(c, f, o \div SS) = b  BY <3>3, <1>6, <1>9
    <3>5. c.data[b][Place(p, k)] = <<w, from + k>>  BY <1>8
    <3>. QED  BY <3>2, <3>3, <3>4, <3>5, <1>10, <1>12 DEF Has, Held
  <2>7. \A l \in 0 .. 1 : \/ At(c, f, <<"level", l, 0>>) = At(d, f, <<"level", l, 0>>)
                          \/ \E o \in at .. (at + (from + len) - 1) : DirectEnd + l * LevelSize <= o
    <3>. TAKE l \in 0 .. 1
    <3>. DEFINE s == <<"level", l, 0>>
    <3>1. s \in Slot  BY Slots
    <3>2. CASE s \in LevelSlotOf(sec)
      <4>1. ~ (sec < Direct) /\ l = LevelOf(sec)  BY <3>2 DEF LevelSlotOf
      <4>2. PICK o \in Nat : o = at + from + 1 - 1 /\ Now(o)  BY <1>1
      <4>3. o \div SS = sec
        <5>1. 1 \in 1 .. p.len  BY <1>1
        <5>2. o = at + p.from + 1 - 1  BY <4>2, <1>1
        <5>3. o \div SS = p.sec
          BY ONLY <5>1, <5>2, PiecePlaces, at \in Nat, n \in Nat, Part(p, at, n)
        <5>. QED  BY ONLY <5>3, <1>1
      <4>4. DirectEnd + l * LevelSize <= o  BY <4>1, <4>3, <1>1, LevelStart
      <4>. QED  BY <4>2, <4>4, <2>2
    <3>3. CASE s \notin LevelSlotOf(sec)
      <4>1. s # SlotOf(sec)  BY DEF SlotOf
      <4>2. At(c, f, s) = At(e, f, s)  BY <4>1, <3>1, <3>3, <1>4, <1>9 DEF Grown
      <4>3. \/ At(e, f, s) = At(d, f, s)
            \/ \E o \in at .. (at + from - 1) : DirectEnd + l * LevelSize <= o
        BY <1>1 DEF Good
      <4>. QED  BY <4>2, <4>3, <2>2
    <3>. QED  BY <3>2, <3>3
  <2>8. \A o : In(o) => o \in Offset
    <3>1. SUFFICES ASSUME NEW o, In(o) PROVE o \in Offset  OBVIOUS
    <3>2. PICK x \in Nat : x = at + p.from + 1 - 1 /\ o < x  BY <3>1, <1>1
    <3>3. 1 \in 1 .. p.len  BY <1>1
    <3>4. x < Capacity  BY <3>2, <3>3, PiecePlaces
    <3>5. o \in Nat  BY <3>1
    <3>. QED  BY <3>2, <3>4, <3>5, SizesOK DEF Offset
  <2>9. \A o \in at .. (at + (from + len) - 1) : Has(c, f, o) /\ Held(c, f, o) = <<w, o - at + 1>>
    <3>. TAKE o \in at .. (at + (from + len) - 1)
    <3>1. CASE Now(o)  BY <3>1, <2>6
    <3>2. CASE ~ Now(o)
      <4>1. In(o) /\ o \in Offset  BY <3>2, <2>1, <2>8
      <4>2. Has(e, f, o) /\ Held(e, f, o) = <<w, o - at + 1>>  BY <4>1, <1>1 DEF Good
      <4>. HIDE DEF Now
      <4>. QED  BY <4>1, <4>2, <3>2, <2>4, <2>5
    <3>. QED  BY <3>1, <3>2
  <2>10. \A g \in File : \A o \in Offset :
           Has(d, g, o) /\ ~ (g = f /\ o \in at .. (at + (from + len) - 1)) => Held(c, g, o) = Held(d, g, o)
    <3>1. SUFFICES ASSUME NEW g \in File, NEW o \in Offset, Has(d, g, o),
                          ~ (g = f /\ o \in at .. (at + (from + len) - 1))
          PROVE  Held(c, g, o) = Held(d, g, o)
      OBVIOUS
    <3>2. ~ (g = f /\ In(o)) /\ ~ (g = f /\ Now(o))  BY <3>1, <2>2
    <3>3. Held(e, g, o) = Held(d, g, o)  BY <3>1, <3>2, <1>1 DEF Good
    <3>. HIDE DEF Now
    <3>4. Held(c, g, o) = Held(e, g, o)  BY <3>1, <3>2, <2>4, <2>5
    <3>. QED  BY <3>3, <3>4
  <2>. HIDE DEF In, Now
  <2>11. Good(d, c, f, at, from + len, w)
    BY <2>3, <2>7, <2>9, <2>10, <1>9, <1>10 DEF Good
  <2>. QED  BY <2>11, <1>1
<1>. QED  BY <1>11, <1>12

\* A full card takes no more blocks.
LEMMA StuckStays ==
  ASSUME NEW e, NEW f \in File, NEW sec, Stuck(e, f, sec), NEW at \in Nat, NEW n \in Nat,
         NEW p, Part(p, at, n), NEW w \in Nat
  PROVE  Stuck(PutPiece(e, f, p, Bytes(w, n)), f, sec)
<1>1. Sound(e) /\ e.inode[f] # NoFile /\ Full(e) /\ BlockOf(e, f, sec) = 0  BY DEF Stuck
<1>2. p.sec \in Nat /\ p.sec < Reach  BY DEF Part, Portion
<1>3. WithSector(e, f, p.sec) = e
  <2>0. PICK s \in Nat : s = p.sec /\ s < Reach  BY <1>2
  <2>1. PICK h : s = p.sec /\ s < Reach /\ h = WithSector(e, f, s)  BY <2>0
  <2>2. h = e  BY <1>1, <2>1, SectorGrows
  <2>. QED  BY <2>1, <2>2
<1>4. PICK c : c = PutPiece(e, f, p, Bytes(w, n))  OBVIOUS
<1>5. c = Stored(e, f, p, Bytes(w, n))  BY <1>3, <1>4 DEF PutPiece
<1>6. StoredIn(e, Stored(e, f, p, Bytes(w, n)), BlockOf(e, f, p.sec), p, w)
  BY <1>1, BytesStored, Zenon
<1>7. c \in Disk /\ c.inode = e.inode /\ c.bmap = e.bmap /\ c.index = e.index
  BY <1>5, <1>6, Zenon DEF StoredIn
<1>8. Sound(c) /\ BlockOf(c, f, sec) = BlockOf(e, f, sec)  BY <1>1, <1>7, OtherBytes
<1>. QED  BY <1>1, <1>4, <1>7, <1>8 DEF Stuck, Full

\* The pieces of a write, one after the other.
Puts(g, d, f, ps, bytes, n) ==
  /\ g[0] = d /\ PutAll(d, f, ps, bytes) = g[n]
  /\ \A k \in 1 .. n : g[k] = PutPiece(g[k - 1], f, ps[k], bytes)
LEMMA PutByPut ==
  ASSUME NEW d, NEW fi, NEW bytes, NEW n \in Nat, NEW ps, DOMAIN ps = 1 .. n
  PROVE  \E g : Puts(g, d, fi, ps, bytes, n)
<1>. DEFINE Row(f, m) == [s \in SUBSET (1 .. m) |->
                            IF s = {} THEN d ELSE PutPiece(f[s \ {Max(s)}], fi, ps[Max(s)], bytes)]
            Short == {m \in Nat : ~ \E f : f = Row(f, m)}
<1>1. Short = {}
  <2>1. SUFFICES ASSUME Short # {} PROVE FALSE  BY Zenon
  <2>2. PICK m \in Short : \A k \in Short : m <= k  BY <2>1, HasLeast, Zenon
  <2>3. m # 0
    <3>1. SUBSET (1 .. 0) = {{}}  OBVIOUS
    <3>2. [s \in {{}} |-> d] = Row([s \in {{}} |-> d], 0)  BY <3>1
    <3>. QED  BY <3>2, <2>2, Zenon
  <2>4. m - 1 \in Nat /\ m - 1 \notin Short
    <3>1. m \in Nat  BY <2>2
    <3>2. m - 1 \in Nat /\ ~ (m <= m - 1)  BY <3>1, <2>3
    <3>. QED  BY <3>2, <2>2, Zenon
  <2>5. PICK e : e = Row(e, m - 1)  BY <2>4, Zenon
  <2>. DEFINE f == [s \in SUBSET (1 .. m) |->
                      IF m \in s THEN PutPiece(e[s \ {m}], fi, ps[m], bytes) ELSE e[s]]
  <2>6. \A s \in SUBSET (1 .. m) : m \notin s => s \in SUBSET (1 .. (m - 1))  BY <2>2
  <2>7. ASSUME NEW s \in SUBSET (1 .. m), s # {}, m \in s
        PROVE  f[s] = PutPiece(f[s \ {Max(s)}], fi, ps[Max(s)], bytes)
    <3>1. Max(s) = m  BY <2>7, <2>2, MaxOf, Zenon
    <3>2. s \ {m} \in SUBSET (1 .. m) /\ m \notin s \ {m}  OBVIOUS
    <3>. QED  BY <3>1, <3>2, <2>7
  <2>8. ASSUME NEW s \in SUBSET (1 .. m), s # {}, m \notin s
        PROVE  f[s] = PutPiece(f[s \ {Max(s)}], fi, ps[Max(s)], bytes)
    <3>1. s \in SUBSET (1 .. (m - 1))  BY <2>8, <2>6
    <3>2. e[s] = PutPiece(e[s \ {Max(s)}], fi, ps[Max(s)], bytes)  BY <2>5, <2>8, <3>1, Zenon
    <3>3. s \ {Max(s)} \in SUBSET (1 .. m) /\ m \notin s \ {Max(s)}  BY <2>8, Zenon
    <3>. QED  BY <3>2, <3>3, <2>8
  <2>9. f[{}] = d
    <3>1. {} \in SUBSET (1 .. (m - 1)) /\ {} \in SUBSET (1 .. m)  OBVIOUS
    <3>. QED  BY <3>1, <2>5
  <2>10. f = Row(f, m)
    <3>1. \A s \in SUBSET (1 .. m) : f[s] = Row(f, m)[s]  BY <2>7, <2>8, <2>9, Zenon
    <3>2. f = [s \in SUBSET (1 .. m) |-> f[s]]  OBVIOUS
    <3>3. Row(f, m) = [s \in SUBSET (1 .. m) |-> Row(f, m)[s]]  OBVIOUS
    <3>. HIDE DEF f, Row
    <3>. QED  BY <3>1, <3>2, <3>3, Zenon
  <2>. QED  BY <2>10, <2>2, Zenon
<1>2. PICK f : f = Row(f, n) /\ PutAll(d, fi, ps, bytes) = f[1 .. n]
  <2>1. PutAll(d, fi, ps, bytes) = (CHOOSE f : f = Row(f, n))[1 .. n]
    BY DEF PutAll, FoldLeft, MapThenFoldSet
  <2>2. \E f : f = Row(f, n)
    <3>1. n \in Nat /\ n \notin Short  BY <1>1, Zenon
    <3>. QED  BY <3>1, Zenon
  <2>. QED  BY <2>1, <2>2, Zenon
<1>. DEFINE g == [k \in 0 .. n |-> f[1 .. k]]
<1>3. g[0] = d
  <2>1. 1 .. 0 = {} /\ {} \in SUBSET (1 .. n)  OBVIOUS
  <2>. QED  BY <2>1, <1>2
<1>4. ASSUME NEW k \in 1 .. n PROVE g[k] = PutPiece(g[k - 1], fi, ps[k], bytes)
  <2>1. Max(1 .. k) = k  BY MaxOf
  <2>2. (1 .. k) \ {k} = 1 .. (k - 1)  OBVIOUS
  <2>3. 1 .. k \in SUBSET (1 .. n) /\ 1 .. k # {}
    <3>1. k \in Nat /\ 1 <= k /\ k <= n  OBVIOUS
    <3>2. k \in 1 .. k /\ \A x \in 1 .. k : x \in 1 .. n  BY <3>1
    <3>. QED  BY <3>2, Zenon
  <2>4. f[1 .. k] = PutPiece(f[1 .. (k - 1)], fi, ps[k], bytes)  BY <1>2, <2>1, <2>2, <2>3, Zenon
  <2>. QED  BY <2>4
<1>5. n \in 0 .. n /\ g[n] = f[1 .. n]  OBVIOUS
<1>. HIDE DEF g
<1>6. Puts(g, d, fi, ps, bytes, n)  BY <1>2, <1>3, <1>4, <1>5 DEF Puts
<1>. QED  BY <1>6

\* A write that finds all the blocks it needs leaves its bytes in the file, and
\* every other byte as it was.
LEMMA WriteLeaves ==
  ASSUME NEW d, Sound(d), NEW f \in File, d.inode[f] # NoFile, NEW at \in Offset,
         NEW n \in Nat \ {0}, at + n < Capacity, NEW w \in Nat, NEW ps, ps = Pieces(at, n),
         NEW e, e = PutAll(d, f, ps, Bytes(w, n)),
         \A i \in DOMAIN ps : BlockOf(e, f, ps[i].sec) # 0
  PROVE  Good(d, e, f, at, n, w)
<1>1. at \in Nat /\ Capacity \in Nat  BY SizesOK DEF Offset
<1>2. n = Smaller(n, Capacity - at)  BY <1>1 DEF Smaller
<1>3. PICK k \in Nat \ {0} : Covers(ps, at, n, k)
  <2>1. PICK m : m = Smaller(n, Capacity - at)  OBVIOUS
  <2>2. \E k \in Nat \ {0} : Covers(ps, at, m, k)  BY <2>1, PiecesCover
  <2>. QED  BY <2>1, <2>2, <1>2
<1>4. DOMAIN ps = 1 .. k  BY <1>3 DEF Covers
<1>5. PICK g : Puts(g, d, f, ps, Bytes(w, n), k)  BY <1>3, <1>4, PutByPut
<1>. DEFINE end(i) == IF i = 0 THEN 0 ELSE ps[i].from + ps[i].len
            Fine(i) == \/ Good(d, g[i], f, at, end(i), w)
                       \/ \E j \in 1 .. i : Stuck(g[i], f, ps[j].sec)
            B == {i \in 0 .. k : ~ Fine(i)}
<1>6. \A i \in 1 .. k : Part(ps[i], at, n)  BY <1>3, Zenon DEF Covers, Chain
<1>7. ASSUME NEW i \in 1 .. k PROVE end(i - 1) = ps[i].from
  <2>1. CASE i = 1  BY <2>1, <1>3 DEF Covers
  <2>2. CASE i # 1
    <3>1. i - 1 \in 1 .. (k - 1) /\ (i - 1) + 1 = i /\ i - 1 # 0  BY <2>2
    <3>2. ps[(i - 1) + 1].from = ps[i - 1].from + ps[i - 1].len
      BY <3>1, <1>3, Zenon DEF Covers, Chain
    <3>. QED  BY <3>1, <3>2
  <2>. QED  BY <2>1, <2>2
<1>8. 0 \notin B
  <2>1. at .. (at + 0 - 1) = {}  BY <1>1
  <2>2. Good(d, d, f, at, 0, w)  BY <2>1 DEF Good, Kin
  <2>3. g[0] = d /\ end(0) = 0  BY <1>5 DEF Puts
  <2>. QED  BY <2>2, <2>3
<1>9. ASSUME NEW i \in 1 .. k, i \in B PROVE i - 1 \in B
  <2>1. i - 1 \in 0 .. k /\ i # 0  OBVIOUS
  <2>2. g[i] = PutPiece(g[i - 1], f, ps[i], Bytes(w, n))  BY <1>5 DEF Puts
  <2>3. ASSUME Fine(i - 1) PROVE Fine(i)
    <3>1. CASE Good(d, g[i - 1], f, at, end(i - 1), w)
      <4>1. PICK p, h, c : p = ps[i] /\ h = g[i - 1] /\ c = g[i]  OBVIOUS
      <4>2. Good(d, h, f, at, p.from, w)  BY <3>1, <4>1, <1>7
      <4>3. Part(p, at, n)  BY <4>1, <1>6
      <4>4. c = PutPiece(h, f, p, Bytes(w, n))  BY <4>1, <2>2
      <4>5. Good(d, c, f, at, p.from + p.len, w) \/ Stuck(c, f, p.sec)
        BY <4>2, <4>3, <4>4, <1>1, StoreOne
      <4>6. end(i) = p.from + p.len  BY <4>1, <2>1
      <4>7. i \in 1 .. i  OBVIOUS
      <4>. QED  BY <4>1, <4>5, <4>6, <4>7
    <3>2. CASE \E j \in 1 .. (i - 1) : Stuck(g[i - 1], f, ps[j].sec)
      <4>1. PICK j \in 1 .. (i - 1) : Stuck(g[i - 1], f, ps[j].sec)  BY <3>2
      <4>2. PICK h, p, s : h = g[i - 1] /\ p = ps[i] /\ s = ps[j].sec  OBVIOUS
      <4>3. Part(p, at, n) /\ Stuck(h, f, s)  BY <4>1, <4>2, <1>6
      <4>4. Stuck(PutPiece(h, f, p, Bytes(w, n)), f, s)
        <5>1. n \in Nat  OBVIOUS
        <5>. QED  BY <5>1, <4>3, <1>1, StuckStays, Zenon
      <4>5. j \in 1 .. i  OBVIOUS
      <4>. QED  BY <4>2, <4>4, <4>5, <2>2
    <3>. QED  BY <2>3, <3>1, <3>2
  <2>. HIDE DEF Fine
  <2>. QED  BY <1>9, <2>1, <2>3
<1>10. k \notin B
  <2>1. B \subseteq 0 .. k  OBVIOUS
  <2>. HIDE DEF B
  <2>2. B = {}  BY <2>1, <1>3, <1>8, <1>9, NoFirst
  <2>. QED  BY <2>2
<1>11. Fine(k)  BY <1>10, <1>3
<1>12. e = g[k] /\ end(k) = n  BY <1>3, <1>5 DEF Puts, Covers
<1>13. ~ \E j \in 1 .. k : Stuck(g[k], f, ps[j].sec)  BY <1>4, <1>12 DEF Stuck
<1>. QED  BY <1>11, <1>12, <1>13

-----------------------------------------------------------------------------
(* The calls that make and remove a file.                                  *)

\* do_touch: an inode with one block.
NewNode(b) == [direct |-> [j \in 0 .. (DPTR - 1) |-> IF j = 0 THEN b ELSE 0],
               lev1 |-> [l \in 0 .. 2 |-> 0], usize |-> 0]
Others(d, e, f) ==
  \A g \in File : g # f => /\ e.inode[g] = d.inode[g]
                          /\ \A sec : BlockOf(e, g, sec) = BlockOf(d, g, sec)
                          /\ \A s \in Slot : At(e, g, s) = At(d, g, s)
MadeIn(d, e, f) ==
  /\ Sound(e) /\ e.data = d.data /\ e.inode[f] # NoFile /\ e.inode[f].usize = 0
  /\ \A l \in 0 .. 1 : At(e, f, <<"level", l, 0>>) = 0
  /\ Others(d, e, f)
LEMMA FileMade ==
  ASSUME NEW d, Sound(d), NEW f \in File, d.inode[f] = NoFile, ~ Full(d)
  PROVE  MadeIn(d, [Allocated(d) EXCEPT !.inode[f] = NewNode(alloc_data_block(d))], f)
<1>. PICK e : e = [Allocated(d) EXCEPT !.inode[f] = NewNode(alloc_data_block(d))]  OBVIOUS
<1>. DEFINE s == <<"direct", 0, 0>>
<1>0. /\ Shape(d) /\ DPTR \in Nat \ {0} /\ LEV \in Nat \ {0} /\ NumBlock \in Nat /\ 0 \in Pointer
  BY SizesOK DEF Sound, Pointer
<1>1. s \in Slot /\ At(d, f, s) = 0
  <2>1. 0 \in 0 .. (DPTR - 1)  BY <1>0
  <2>. QED  BY <2>1, Slots DEF At
<1>2. PICK b \in Pointer : /\ b \in Block /\ b \notin d.bmap /\ b # 0
                           /\ b = alloc_data_block(d)
                           /\ Allocated(d) = [d EXCEPT !.bmap = @ \cup {b}]
  BY <1>0, Allocates
<1>3. PICK nd : nd = NewNode(b)  OBVIOUS
<1>4. /\ nd \in Node /\ nd # NoFile /\ nd.usize = 0
      /\ nd.direct[0] = b /\ \A j \in 0 .. (DPTR - 1) : j # 0 => nd.direct[j] = 0
      /\ \A l \in 0 .. 2 : nd.lev1[l] = 0
  <2>1. nd \in Node  BY <1>0, <1>3 DEF Node, NewNode
  <2>. QED  BY <2>1, <1>0, <1>3, NoFileOK DEF NewNode
<1>5. e = [[d EXCEPT !.bmap = @ \cup {b}] EXCEPT !.inode[f] = nd]  BY <1>2, <1>3
<1>6. /\ e.bmap = d.bmap \cup {b} /\ e.data = d.data /\ e.index = d.index
      /\ e.inode = [d.inode EXCEPT ![f] = nd]
  BY <1>5, <1>0 DEF Shape, Disk
<1>7. e.inode[f] = nd /\ \A g \in File : g # f => e.inode[g] = d.inode[g]
  BY <1>6, <1>0 DEF Shape, Disk
<1>8. Shape(e)
  <2>1. e \in Disk
    <3>1. /\ e.inode \in [File -> Node \cup {NoFile}] /\ e.bmap \in SUBSET Block
          /\ e.data \in [0 .. NumBlock -> [0 .. (BS - 1) -> Byte]]
          /\ e.index \in [0 .. NumBlock -> [0 .. (LEV - 1) -> Pointer]]
      BY <1>2, <1>4, <1>6, <1>0 DEF Shape, Disk
    <3>2. e = [inode |-> e.inode, bmap |-> e.bmap, data |-> e.data, index |-> e.index]
      BY <1>5, <1>0 DEF Shape, Disk
    <3>. QED  BY <3>1, <3>2 DEF Disk
  <2>. QED  BY <2>1, <1>4, <1>6, <1>7, <1>0 DEF Shape
<1>9. \A g \in File : g # f => /\ \A t \in Slot : At(e, g, t) = At(d, g, t)
                               /\ \A sec : BlockOf(e, g, sec) = BlockOf(d, g, sec)
  <2>1. ASSUME NEW g \in File, g # f, NEW t PROVE At(e, g, t) = At(d, g, t)
    BY ONLY <1>6, <1>7, <2>1 DEF At
  <2>2. ASSUME NEW g \in File, g # f, NEW sec PROVE BlockOf(e, g, sec) = BlockOf(d, g, sec)
    BY ONLY <1>6, <1>7, <2>2 DEF BlockOf
  <2>. QED  BY ONLY <2>1, <2>2
<1>10. ASSUME NEW t \in Slot PROVE At(e, f, t) = IF t = s THEN b ELSE 0
  <2>1. e.inode[f] # NoFile  BY <1>4, <1>7
  <2>2. ASSUME NEW j \in 0 .. (DPTR - 1), t = <<"direct", 0, j>>
        PROVE  At(e, f, t) = IF t = s THEN b ELSE 0
    <3>0. At(e, f, t) = e.inode[f].direct[j]  BY ONLY <2>1, <2>2, AtSlot
    <3>1. At(e, f, t) = nd.direct[j]  BY <3>0, <1>7
    <3>2. CASE j = 0  BY <3>1, <3>2, <2>2, <1>4
    <3>3. CASE j # 0
      <4>1. t # s  BY <2>2, <3>3
      <4>. QED  BY <3>1, <3>3, <4>1, <1>4
    <3>. QED  BY <3>2, <3>3
  <2>3. ASSUME NEW l \in 0 .. 1, t = <<"level", l, 0>>
        PROVE  At(e, f, t) = IF t = s THEN b ELSE 0
    <3>1. At(e, f, t) = e.inode[f].lev1[l]  BY ONLY <2>1, <2>3, AtSlot
    <3>2. t # s /\ l \in 0 .. 2  BY <2>3
    <3>. QED  BY <3>1, <3>2, <1>4, <1>7
  <2>4. ASSUME NEW l \in 0 .. 1, NEW i \in 0 .. (LEV - 1), t = <<"entry", l, i>>
        PROVE  At(e, f, t) = IF t = s THEN b ELSE 0
    <3>1. At(e, f, t) = e.index[e.inode[f].lev1[l]][i]  BY ONLY <2>1, <2>4, AtSlot
    <3>2. NoEntries[i] = 0  BY DEF NoEntries
    <3>3. t # s /\ l \in 0 .. 2  BY <2>4
    <3>. QED  BY <3>1, <3>2, <3>3, <1>4, <1>6, <1>7, <1>0 DEF Shape
  <2>. QED  BY <2>2, <2>3, <2>4, SlotCases
<1>11. \A g \in File : \A t \in Slot : At(e, g, t) = IF g = f /\ t = s THEN b ELSE At(d, g, t)
  <2>1. \A t \in Slot : At(d, f, t) = 0  BY DEF At
  <2>. HIDE DEF s
  <2>. QED  BY <2>1, <1>9, <1>10
<1>12. Sound(e)
  <2>. HIDE DEF s
  <2>1. e.bmap = d.bmap \cup {b} /\ b # 0 /\ b \notin d.bmap  BY <1>2, <1>6
  <2>. QED
    BY ONLY <2>1, <1>1, <1>8, <1>11, SlotGets, Sound(d), f \in File, b \in Pointer
<1>13. \A l \in 0 .. 1 : At(e, f, <<"level", l, 0>>) = 0
  <2>. TAKE l \in 0 .. 1
  <2>1. <<"level", l, 0>> \in Slot /\ <<"level", l, 0>> # s  BY Slots
  <2>. QED  BY <2>1, <1>10
<1>14. MadeIn(d, e, f)
  BY <1>4, <1>6, <1>7, <1>9, <1>12, <1>13 DEF MadeIn, Others
<1>. QED  BY <1>14

\* do_rm: the inode and all its blocks.
Holds(d, f, X) == \A b \in Pointer : b # 0 => (b \in X <=> \E s \in Slot : At(d, f, s) = b)
GoneIn(d, e, f) == Sound(e) /\ e.data = d.data /\ e.inode[f] = NoFile /\ Others(d, e, f)
LEMMA FileGone ==
  ASSUME NEW d, Sound(d), NEW f \in File, d.inode[f] # NoFile, NEW X, Holds(d, f, X)
  PROVE  GoneIn(d, [d EXCEPT !.bmap = @ \ X, !.inode[f] = NoFile], f)
<1>. PICK e : e = [d EXCEPT !.bmap = @ \ X, !.inode[f] = NoFile]  OBVIOUS
<1>0. Shape(d)  BY DEF Sound
<1>1. /\ e.bmap = d.bmap \ X /\ e.data = d.data /\ e.index = d.index
      /\ e.inode = [d.inode EXCEPT ![f] = NoFile]
  BY <1>0 DEF Shape, Disk
<1>2. e.inode[f] = NoFile /\ \A g \in File : g # f => e.inode[g] = d.inode[g]
  BY <1>0, <1>1 DEF Shape, Disk
<1>3. Shape(e)
  <2>1. e \in Disk
    <3>1. /\ e.inode \in [File -> Node \cup {NoFile}] /\ e.bmap \in SUBSET Block
          /\ e.data \in [0 .. NumBlock -> [0 .. (BS - 1) -> Byte]]
          /\ e.index \in [0 .. NumBlock -> [0 .. (LEV - 1) -> Pointer]]
      BY <1>1, <1>0 DEF Shape, Disk
    <3>2. e = [inode |-> e.inode, bmap |-> e.bmap, data |-> e.data, index |-> e.index]
      BY <1>0 DEF Shape, Disk
    <3>. QED  BY <3>1, <3>2 DEF Disk
  <2>. QED  BY <2>1, <1>1, <1>2, <1>0 DEF Shape
<1>4. \A g \in File : g # f => /\ \A t \in Slot : At(e, g, t) = At(d, g, t)
                               /\ \A sec : BlockOf(e, g, sec) = BlockOf(d, g, sec)
  <2>1. ASSUME NEW g \in File, g # f, NEW t PROVE At(e, g, t) = At(d, g, t)
    BY ONLY <1>1, <1>2, <2>1 DEF At
  <2>2. ASSUME NEW g \in File, g # f, NEW sec PROVE BlockOf(e, g, sec) = BlockOf(d, g, sec)
    BY ONLY <1>1, <1>2, <2>2 DEF BlockOf
  <2>. QED  BY ONLY <2>1, <2>2
<1>5. \A t \in Slot : At(e, f, t) = 0  BY ONLY <1>2 DEF At
<1>6. Apart(e)
  <2>1. SUFFICES ASSUME NEW g \in File, NEW h \in File, NEW t \in Slot, NEW u \in Slot,
                        At(e, g, t) = At(e, h, u), At(e, g, t) # 0
        PROVE  g = h /\ t = u
    BY DEF Apart
  <2>2. g # f /\ h # f  BY <2>1, <1>5
  <2>3. At(d, g, t) = At(d, h, u) /\ At(d, g, t) # 0  BY <2>1, <2>2, <1>4
  <2>. QED  BY <2>3 DEF Sound, Apart
<1>7. Marked(e)
  <2>1. SUFFICES ASSUME NEW c \in Pointer
        PROVE  c \in e.bmap <=> c # 0 /\ \E g \in File, t \in Slot : At(e, g, t) = c
    BY DEF Marked
  <2>2. c \in d.bmap <=> c # 0 /\ \E g \in File, t \in Slot : At(d, g, t) = c
    BY DEF Sound, Marked
  <2>3. CASE c \in e.bmap
    <3>1. c \in d.bmap /\ c \notin X /\ c # 0  BY <2>2, <2>3, <1>1
    <3>2. PICK g \in File, t \in Slot : At(d, g, t) = c  BY <2>2, <3>1
    <3>3. g # f  BY <3>1, <3>2 DEF Holds
    <3>. QED  BY <2>3, <3>1, <3>2, <3>3, <1>4
  <2>4. ASSUME NEW g \in File, NEW t \in Slot, At(e, g, t) = c, c # 0
        PROVE  c \in e.bmap
    <3>1. g # f /\ At(d, g, t) = c  BY <2>4, <1>4, <1>5
    <3>2. c \in d.bmap  BY <2>2, <2>4, <3>1
    <3>3. c \notin X
      <4>1. \A s \in Slot : At(d, f, s) # c  BY <2>4, <3>1 DEF Sound, Apart
      <4>. QED  BY <4>1, <2>4 DEF Holds
    <3>. QED  BY <3>2, <3>3, <1>1
  <2>. QED  BY <2>3, <2>4
<1>8. GoneIn(d, e, f)  BY <1>1, <1>2, <1>3, <1>4, <1>6, <1>7 DEF Sound, GoneIn, Others
<1>. QED  BY <1>8

\* Where a write ends is for do_rm and do_lseek alone.
ResizedIn(d, e, f, u) ==
  /\ Sound(e) /\ e.data = d.data /\ e.inode[f].usize = u
  /\ \A g \in File : /\ e.inode[g] = NoFile <=> d.inode[g] = NoFile
                     /\ g # f => e.inode[g] = d.inode[g]
                     /\ \A t \in Slot : At(e, g, t) = At(d, g, t)
                     /\ \A sec : BlockOf(e, g, sec) = BlockOf(d, g, sec)
LEMMA Resized ==
  ASSUME NEW d, Sound(d), NEW f \in File, d.inode[f] # NoFile, NEW u \in Nat
  PROVE  ResizedIn(d, [d EXCEPT !.inode[f].usize = u], f, u)
<1>. PICK e : e = [d EXCEPT !.inode[f].usize = u]  OBVIOUS
<1>0. Shape(d)  BY DEF Sound
<1>1. d.inode \in [File -> Node \cup {NoFile}] /\ d.inode[f] \in Node
  BY <1>0, NodeOf DEF Shape, Disk
<1>2. PICK nd \in Node : nd = [d.inode[f] EXCEPT !.usize = u]  BY <1>1 DEF Node
<1>3. /\ nd.direct = d.inode[f].direct /\ nd.lev1 = d.inode[f].lev1 /\ nd.usize = u
      /\ nd # NoFile
  BY <1>1, <1>2, NoFileOK DEF Node
<1>4. /\ e.bmap = d.bmap /\ e.data = d.data /\ e.index = d.index
      /\ e.inode = [d.inode EXCEPT ![f] = nd]
  BY <1>0, <1>2 DEF Shape, Disk
<1>5. e.inode[f] = nd /\ \A g \in File : g # f => e.inode[g] = d.inode[g]
  BY <1>1, <1>4
<1>6. \A g \in File : /\ e.inode[g] = NoFile <=> d.inode[g] = NoFile
                      /\ e.inode[g].direct = d.inode[g].direct
                      /\ e.inode[g].lev1 = d.inode[g].lev1
  BY <1>3, <1>5
<1>7. \A g \in File : /\ \A t \in Slot : At(e, g, t) = At(d, g, t)
                      /\ \A sec : BlockOf(e, g, sec) = BlockOf(d, g, sec)
  <2>1. ASSUME NEW g \in File, NEW t PROVE At(e, g, t) = At(d, g, t)
    BY <1>4, <1>6 DEF At
  <2>2. ASSUME NEW g \in File, NEW sec PROVE BlockOf(e, g, sec) = BlockOf(d, g, sec)
    BY <1>4, <1>6 DEF BlockOf
  <2>. QED  BY <2>1, <2>2
<1>8. Shape(e)
  <2>1. e \in Disk
    <3>1. /\ e.inode \in [File -> Node \cup {NoFile}] /\ e.bmap \in SUBSET Block
          /\ e.data \in [0 .. NumBlock -> [0 .. (BS - 1) -> Byte]]
          /\ e.index \in [0 .. NumBlock -> [0 .. (LEV - 1) -> Pointer]]
      BY <1>1, <1>4, <1>0 DEF Shape, Disk
    <3>2. e = [inode |-> e.inode, bmap |-> e.bmap, data |-> e.data, index |-> e.index]
      BY <1>0 DEF Shape, Disk
    <3>. QED  BY <3>1, <3>2 DEF Disk
  <2>. QED  BY <2>1, <1>4, <1>6, <1>0 DEF Shape
<1>9. Apart(e)  BY <1>7 DEF Sound, Apart
<1>10. Marked(e)  BY <1>4, <1>7 DEF Sound, Marked
<1>11. ResizedIn(d, e, f, u)
  BY <1>3, <1>4, <1>5, <1>6, <1>7, <1>8, <1>9, <1>10 DEF Sound, ResizedIn
<1>. QED  BY <1>11

-----------------------------------------------------------------------------
(* The invariant, with programs that make none of the calls that fs.c does *)
(* not check.                                                              *)

Careful == Misuse = {}

\* A byte of a file is a byte.
LEMMA HeldType ==
  ASSUME NEW d, Shape(d), NEW g \in File, d.inode[g] # NoFile, NEW o \in Offset
  PROVE  Held(d, g, o) \in Byte
<1>1. o \in Nat /\ o \div SS \in Nat /\ o \div SS < Reach  BY OffsetSector
<1>2. PICK b \in Pointer : b = BlockOf(d, g, o \div SS)  BY <1>1, BlockType
<1>3. o % BS \in 0 .. (BS - 1)  BY <1>1, OffsetNumbers
<1>4. d.data \in [0 .. NumBlock -> [0 .. (BS - 1) -> Byte]] /\ b \in 0 .. NumBlock
  BY <1>2 DEF Shape, Disk, Pointer
<1>5. d.data[b] \in [0 .. (BS - 1) -> Byte]  BY <1>4
<1>6. d.data[b][o % BS] \in Byte  BY <1>3, <1>5
<1>. QED  BY <1>2, <1>6 DEF Held

\* What is known of a file, on a card d, where programs wrote at the offsets w.
\* An index block is there because of a write behind its first offset, so the
\* end of the file tells do_rm of it.
Told(d, w, g) ==
  /\ w \subseteq Offset
  /\ d.inode[g] = NoFile => w = {}
  /\ d.inode[g] # NoFile =>
       /\ d.inode[g].usize < Capacity
       /\ \A o \in w : BlockOf(d, g, o \div SS) # 0
       /\ \A l \in 0 .. 1 : At(d, g, <<"level", l, 0>>) # 0 =>
                              \E o \in w : DirectEnd + l * LevelSize <= o

Descriptor == [ino : File \cup {NoFile}, r_ptr : Nat, w_ptr : Offset]
Opened(d, fds) ==
  /\ fds \in [Fd -> Descriptor]
  /\ \A fd \in Fd : fds[fd].ino # NoFile => d.inode[fds[fd].ino] # NoFile

FilesKept ==
  /\ Sound(disk)
  /\ written \in [File -> SUBSET Offset] /\ \A g \in File : Told(disk, written[g], g)
  /\ Opened(disk, file_d)
  /\ writes \in Nat

ContentOf(d, w) ==
  [g \in File |-> IF d.inode[g] = NoFile THEN NoFile
                  ELSE [o \in Offset |-> IF o \in w[g] THEN Held(d, g, o) ELSE Unwritten]]
LEMMA ContentIs == Content = ContentOf(disk, written) /\ Content' = ContentOf(disk', written')
BY DEF Content, ContentOf, Exists, inode, ByteAt, Held

LEMMA ZeroOffset == 0 \in Offset
BY SizesOK DEF Offset

LEMMA InitKept == Init => FilesKept
<1>1. SUFFICES ASSUME Init PROVE FilesKept  OBVIOUS
<1>2. /\ NumBlock \in Nat /\ LEV \in Nat \ {0} /\ 0 \in Pointer /\ 0 \in 0 .. NumBlock
  BY SizesOK DEF Pointer
<1>3. PICK d : d = disk  OBVIOUS
<1>4. /\ d = [inode |-> d.inode, bmap |-> d.bmap, data |-> d.data, index |-> d.index]
      /\ d.inode = [g \in File |-> NoFile] /\ d.bmap = {}
      /\ d.data = [b \in 0 .. NumBlock |-> [x \in 0 .. (BS - 1) |-> "old"]]
      /\ d.index = [b \in 0 .. NumBlock |-> NoEntries]
  BY <1>1, <1>3 DEF Init
<1>5. Shape(d)
  <2>1. NoEntries \in [0 .. (LEV - 1) -> Pointer]  BY <1>2 DEF NoEntries
  <2>2. d.data \in [0 .. NumBlock -> [0 .. (BS - 1) -> Byte]]  BY <1>4 DEF Byte
  <2>3. d.index \in [0 .. NumBlock -> [0 .. (LEV - 1) -> Pointer]] /\ d.index[0] = NoEntries
    BY <2>1, <1>2, <1>4
  <2>4. d.inode \in [File -> Node \cup {NoFile}] /\ d.bmap \in SUBSET Block  BY <1>4
  <2>5. d \in Disk  BY <2>2, <2>3, <2>4, <1>4 DEF Disk
  <2>. QED  BY <2>3, <2>5, <1>4 DEF Shape
<1>6. \A g \in File : \A t \in Slot : At(d, g, t) = 0  BY <1>4 DEF At
<1>7. Sound(d)  BY <1>4, <1>5, <1>6 DEF Sound, Apart, Marked
<1>8. written \in [File -> SUBSET Offset] /\ \A g \in File : Told(d, written[g], g)
  BY <1>1, <1>4 DEF Init, Told
<1>9. Opened(d, file_d)
  <2>1. Closed \in Descriptor  BY ZeroOffset DEF Closed, Descriptor
  <2>2. \A fd \in Fd : file_d[fd] = Closed  BY <1>1 DEF Init
  <2>3. file_d \in [Fd -> Descriptor]  BY <2>1, <1>1 DEF Init
  <2>. QED  BY <2>2, <2>3 DEF Opened, Closed
<1>. QED  BY <1>1, <1>3, <1>7, <1>8, <1>9 DEF FilesKept, Init

\* do_touch.
LEMMA TouchKeeps ==
  ASSUME Careful, FilesKept, NEW f \in File, do_touch(f)
  PROVE  FilesKept' /\ Flat!Create(f)
<1>. PICK d, e, w, fds : d = disk /\ e = disk' /\ w = written /\ fds = file_d  OBVIOUS
<1>1. /\ d.inode[f] = NoFile /\ ~ Full(d)
      /\ e = [Allocated(d) EXCEPT !.inode[f] = NewNode(alloc_data_block(d))]
      /\ written' = w /\ file_d' = fds /\ writes' = writes
  <2>1. alloc_data_block(d) # 0  BY DEF do_touch, Careful
  <2>2. ~ Full(d)  BY <2>1 DEF alloc_data_block, Full
  <2>. QED  BY <2>2 DEF do_touch, Exists, inode, NewNode
<1>2. Sound(d) /\ w \in [File -> SUBSET Offset] /\ Opened(d, fds) /\ writes \in Nat
      /\ \A g \in File : Told(d, w[g], g)
  BY DEF FilesKept
<1>3. /\ Sound(e) /\ e.data = d.data /\ e.inode[f] # NoFile /\ e.inode[f].usize = 0
      /\ \A l \in 0 .. 1 : At(e, f, <<"level", l, 0>>) = 0
      /\ \A g \in File : g # f => /\ e.inode[g] = d.inode[g]
                                  /\ \A sec : BlockOf(e, g, sec) = BlockOf(d, g, sec)
                                  /\ \A s \in Slot : At(e, g, s) = At(d, g, s)
  <2>1. MadeIn(d, [Allocated(d) EXCEPT !.inode[f] = NewNode(alloc_data_block(d))], f)
    BY <1>1, <1>2, FileMade, Zenon
  <2>2. MadeIn(d, e, f)  BY <2>1, <1>1, Zenon
  <2>. QED  BY ONLY <2>2 DEF MadeIn, Others
<1>4. w[f] = {}  BY <1>1, <1>2 DEF Told
<1>5. ASSUME NEW g \in File PROVE Told(e, w[g], g)
  <2>1. CASE g = f
    <3>1. 0 < Capacity  BY SizesOK
    <3>. QED  BY ONLY <2>1, <3>1, <1>3, <1>4 DEF Told
  <2>2. CASE g # f
    <3>1. Told(d, w[g], g)  BY <1>2
    <3>2. \A l \in 0 .. 1 : At(e, g, <<"level", l, 0>>) = At(d, g, <<"level", l, 0>>)
      BY ONLY <2>2, <1>3, Slots, g \in File
    <3>3. e.inode[g] = d.inode[g] /\ \A sec : BlockOf(e, g, sec) = BlockOf(d, g, sec)
      BY ONLY <2>2, <1>3, g \in File
    <3>. QED  BY ONLY <3>1, <3>2, <3>3 DEF Told
  <2>. QED  BY <2>1, <2>2
<1>6. Opened(e, fds)
  <2>1. \A g \in File : d.inode[g] # NoFile => e.inode[g] # NoFile  BY ONLY <1>3
  <2>. QED  BY ONLY <2>1, <1>2 DEF Opened, Descriptor
<1>7. FilesKept'
  <2>1. disk' = e /\ written' = w /\ file_d' = fds /\ writes' = writes  BY <1>1
  <2>2. \A g \in File : Told(e, w[g], g)  BY <1>5
  <2>. QED  BY ONLY <2>1, <2>2, <1>2, <1>3, <1>6 DEF FilesKept
<1>8. PICK m, n : m = ContentOf(d, w) /\ n = ContentOf(e, w)  OBVIOUS
<1>9. Content = m /\ Content' = n  BY <1>1, <1>8, ContentIs
<1>10. m[f] = NoFile  BY ONLY <1>1, <1>8, f \in File DEF ContentOf
<1>11. n[f] = [o \in Offset |-> Unwritten]  BY ONLY <1>3, <1>4, <1>8, f \in File DEF ContentOf
<1>12. ASSUME NEW g \in File, g # f PROVE n[g] = m[g]
  <2>1. e.inode[g] = d.inode[g] /\ \A o : Held(e, g, o) = Held(d, g, o)
    BY ONLY <1>3, <1>12 DEF Held
  <2>. QED  BY ONLY <2>1, <1>8, g \in File DEF ContentOf
<1>13. n = [m EXCEPT ![f] = [o \in Offset |-> Unwritten]]
  <2>1. m = [g \in File |-> m[g]] /\ n = [g \in File |-> n[g]]  BY ONLY <1>8 DEF ContentOf
  <2>. QED  BY ONLY <2>1, <1>11, <1>12, f \in File
<1>. QED  BY <1>1, <1>7, <1>9, <1>10, <1>13 DEF Flat!Create, Flat!Empty

\* What do_rm gives back: every block of the file, and none but those.
LEMMA FreedAll ==
  ASSUME FilesKept, NEW f \in File, Exists(f), SizeIsEnd(f), NEW b \in Pointer, b # 0
  PROVE  b \in FreedBlocks(f) <=> \E s \in Slot : At(disk, f, s) = b
<1>. PICK d, w : d = disk /\ w = written[f]  OBVIOUS
<1>1. Shape(d) /\ Told(d, w, f) /\ d.inode[f] # NoFile /\ \A o \in w : o < d.inode[f].usize
  BY DEF FilesKept, Sound, Exists, inode, SizeIsEnd
<1>2. /\ d.inode[f] \in Node /\ d.inode[f].usize \in Nat /\ d.inode[f].usize < Capacity
      /\ d.index \in [0 .. NumBlock -> [0 .. (LEV - 1) -> Pointer]] /\ d.index[0] = NoEntries
  BY <1>1, NodeOf DEF Told, Shape, Disk
<1>3. PICK dir, a0, a1, u :
         /\ u \in Nat
         /\ dir = d.inode[f].direct /\ a0 = d.inode[f].lev1[0] /\ a1 = d.inode[f].lev1[1]
         /\ u = d.inode[f].usize
  BY <1>2
<1>4. /\ dir \in [0 .. (DPTR - 1) -> Pointer] /\ a0 \in 0 .. NumBlock /\ a1 \in 0 .. NumBlock
      /\ d.index[a0] \in [0 .. (LEV - 1) -> Pointer] /\ d.index[a1] \in [0 .. (LEV - 1) -> Pointer]
  <2>1. a0 \in 0 .. NumBlock /\ a1 \in 0 .. NumBlock
    <3>1. 0 \in 0 .. 2 /\ 1 \in 0 .. 2  OBVIOUS
    <3>. QED  BY <3>1, <1>1, <1>3, NodeOf
  <2>. QED  BY <2>1, <1>2, <1>3 DEF Node
<1>5. /\ DirectEnd \in Nat /\ LevelSize \in Nat /\ Capacity \in Nat  BY SizesOK
<1>6. a0 # 0 => u > DirectEnd
  <2>1. SUFFICES ASSUME a0 # 0 PROVE u > DirectEnd  OBVIOUS
  <2>2. At(d, f, <<"level", 0, 0>>) # 0 /\ 0 \in 0 .. 1  BY <2>1, <1>1, <1>3, AtSlot
  <2>3. PICK o \in w : DirectEnd + 0 * LevelSize <= o  BY <2>2, <1>1 DEF Told
  <2>4. o \in Nat /\ o < u  BY <1>1, <1>3 DEF Told, Offset
  <2>5. 0 * LevelSize = 0  BY <1>5
  <2>6. DirectEnd <= o  BY <2>3, <2>5, <1>5
  <2>. QED  BY <2>4, <2>6, <1>3, <1>5
<1>7. a1 # 0 => u > DirectEnd + LevelSize
  <2>1. SUFFICES ASSUME a1 # 0 PROVE u > DirectEnd + LevelSize  OBVIOUS
  <2>2. At(d, f, <<"level", 1, 0>>) # 0 /\ 1 \in 0 .. 1  BY <2>1, <1>1, <1>3, AtSlot
  <2>3. PICK o \in w : DirectEnd + 1 * LevelSize <= o  BY <2>2, <1>1 DEF Told
  <2>4. o \in Nat /\ o < u  BY <1>1, <1>3 DEF Told, Offset
  <2>5. 1 * LevelSize = LevelSize  BY <1>5
  <2>6. DirectEnd + LevelSize <= o  BY <2>3, <2>5, <1>5
  <2>. QED  BY <2>4, <2>6, <1>3, <1>5
<1>. DEFINE Below(a) == {d.index[a][x] : x \in 0 .. (LEV - 1)} \cup {a}
            Direct1 == {dir[x] : x \in 0 .. (DPTR - 1)}
<1>8. Under(a0) = Below(a0) /\ Under(a1) = Below(a1)
  <2>1. DOMAIN d.index[a0] = 0 .. (LEV - 1) /\ DOMAIN d.index[a1] = 0 .. (LEV - 1)  BY <1>4
  <2>. QED  BY <2>1 DEF Under, FunRange
<1>9. FreedBlocks(f) = Direct1 \cup (IF u > DirectEnd THEN Below(a0) ELSE {})
                       \cup (IF u > DirectEnd + LevelSize /\ u < Capacity THEN Below(a1) ELSE {})
  <2>1. DOMAIN dir = 0 .. (DPTR - 1)  BY <1>4
  <2>2. FunRange(inode(f).direct) = Direct1  BY <2>1, <1>3 DEF FunRange, inode
  <2>. HIDE DEF Below, Direct1
  <2>. QED  BY <2>2, <1>3, <1>8 DEF FreedBlocks, inode
<1>10. \A x \in 0 .. (LEV - 1) : d.index[0][x] = 0  BY <1>2 DEF NoEntries
<1>11. \A a \in {a0, a1} : a = 0 => b \notin Below(a)  BY <1>10
<1>12. b \in FreedBlocks(f) <=> b \in Direct1 \/ b \in Below(a0) \/ b \in Below(a1)
  <2>. HIDE DEF Below, Direct1
  <2>1. u < Capacity  BY <1>2, <1>3
  <2>. QED  BY <2>1, <1>6, <1>7, <1>9, <1>11
<1>13. /\ \A j : At(d, f, <<"direct", 0, j>>) = dir[j]
       /\ At(d, f, <<"level", 0, 0>>) = a0 /\ At(d, f, <<"level", 1, 0>>) = a1
       /\ \A e : /\ At(d, f, <<"entry", 0, e>>) = d.index[a0][e]
                 /\ At(d, f, <<"entry", 1, e>>) = d.index[a1][e]
  BY <1>1, <1>3, AtSlot
<1>14. ASSUME b \in Direct1 \/ b \in Below(a0) \/ b \in Below(a1)
       PROVE  \E s \in Slot : At(d, f, s) = b
  <2>0. 0 \in 0 .. 1 /\ 1 \in 0 .. 1  OBVIOUS
  <2>1. CASE b \in Direct1
    <3>1. PICK j \in 0 .. (DPTR - 1) : b = dir[j]  BY <2>1
    <3>. QED  BY <3>1, <1>13, Slots
  <2>2. CASE b = a0 \/ b = a1  BY <2>0, <2>2, <1>13, Slots
  <2>3. CASE \E x \in 0 .. (LEV - 1) : b = d.index[a0][x]  BY <2>0, <2>3, <1>13, Slots
  <2>4. CASE \E x \in 0 .. (LEV - 1) : b = d.index[a1][x]  BY <2>0, <2>4, <1>13, Slots
  <2>. QED  BY <1>14, <2>1, <2>2, <2>3, <2>4
<1>15. ASSUME NEW s \in Slot, At(d, f, s) = b
       PROVE  b \in Direct1 \/ b \in Below(a0) \/ b \in Below(a1)
  <2>1. ASSUME NEW j \in 0 .. (DPTR - 1), s = <<"direct", 0, j>> PROVE b \in Direct1
    BY <2>1, <1>13, <1>15
  <2>2. ASSUME NEW l \in 0 .. 1, s = <<"level", l, 0>> PROVE b \in Below(a0) \/ b \in Below(a1)
    <3>1. l = 0 \/ l = 1  OBVIOUS
    <3>. QED  BY <2>2, <3>1, <1>13, <1>15
  <2>3. ASSUME NEW l \in 0 .. 1, NEW x \in 0 .. (LEV - 1), s = <<"entry", l, x>>
        PROVE  b \in Below(a0) \/ b \in Below(a1)
    <3>1. l = 0 \/ l = 1  OBVIOUS
    <3>. QED  BY <2>3, <3>1, <1>13, <1>15
  <2>. QED  BY <2>1, <2>2, <2>3, SlotCases
<1>. HIDE DEF Below, Direct1
<1>. QED  BY <1>12, <1>14, <1>15

\* do_rm.
LEMMA RemoveKeeps ==
  ASSUME Careful, FilesKept, NEW f \in File, do_rm(f)
  PROVE  FilesKept' /\ Flat!Remove(f)
<1>. PICK d, e, w, v, fds : d = disk /\ e = disk' /\ w = written /\ v = written' /\ fds = file_d
  OBVIOUS
<1>1. /\ d.inode[f] # NoFile /\ ~ \E fd \in Fd : fds[fd].ino = f
      /\ Exists(f) /\ SizeIsEnd(f)
      /\ e = [d EXCEPT !.bmap = @ \ FreedBlocks(f), !.inode[f] = NoFile]
      /\ v = [w EXCEPT ![f] = {}] /\ file_d' = fds /\ writes' = writes
  BY DEF do_rm, Careful, Exists, inode
<1>2. /\ Sound(d) /\ w \in [File -> SUBSET Offset] /\ Opened(d, fds) /\ writes \in Nat
      /\ \A g \in File : Told(d, w[g], g)
  BY DEF FilesKept
<1>3. PICK X : X = FreedBlocks(f)  OBVIOUS
<1>4. Holds(d, f, X)  BY <1>1, <1>3, FreedAll DEF Holds
<1>5. GoneIn(d, [d EXCEPT !.bmap = @ \ X, !.inode[f] = NoFile], f)
  BY <1>1, <1>2, <1>4, FileGone, Zenon
<1>6. GoneIn(d, e, f)  BY <1>1, <1>3, <1>5, Zenon
<1>7. /\ Sound(e) /\ e.data = d.data /\ e.inode[f] = NoFile
      /\ \A g \in File : g # f => /\ e.inode[g] = d.inode[g]
                                  /\ \A sec : BlockOf(e, g, sec) = BlockOf(d, g, sec)
                                  /\ \A s \in Slot : At(e, g, s) = At(d, g, s)
  BY ONLY <1>6 DEF GoneIn, Others
<1>8. v \in [File -> SUBSET Offset] /\ v[f] = {} /\ \A g \in File : g # f => v[g] = w[g]
  BY <1>1, <1>2
<1>9. ASSUME NEW g \in File PROVE Told(e, v[g], g)
  <2>1. CASE g = f  BY ONLY <2>1, <1>7, <1>8 DEF Told
  <2>2. CASE g # f
    <3>1. Told(d, w[g], g) /\ v[g] = w[g]  BY <2>2, <1>2, <1>8
    <3>2. \A l \in 0 .. 1 : At(e, g, <<"level", l, 0>>) = At(d, g, <<"level", l, 0>>)
      BY ONLY <2>2, <1>7, Slots, g \in File
    <3>3. e.inode[g] = d.inode[g] /\ \A sec : BlockOf(e, g, sec) = BlockOf(d, g, sec)
      BY ONLY <2>2, <1>7, g \in File
    <3>. QED  BY ONLY <3>1, <3>2, <3>3 DEF Told
  <2>. QED  BY <2>1, <2>2
<1>10. Opened(e, fds)
  <2>1. \A g \in File : g # f /\ d.inode[g] # NoFile => e.inode[g] # NoFile  BY ONLY <1>7
  <2>2. \A fd \in Fd : fds[fd].ino # f  BY <1>1
  <2>. QED  BY ONLY <2>1, <2>2, <1>2 DEF Opened, Descriptor
<1>11. FilesKept'
  <2>1. disk' = e /\ written' = v /\ file_d' = fds /\ writes' = writes  BY <1>1
  <2>2. \A g \in File : Told(e, v[g], g)  BY <1>9
  <2>. QED  BY ONLY <2>1, <2>2, <1>2, <1>7, <1>8, <1>10 DEF FilesKept
<1>12. PICK m, n : m = ContentOf(d, w) /\ n = ContentOf(e, v)  OBVIOUS
<1>13. Content = m /\ Content' = n  BY <1>1, <1>12, ContentIs
<1>14. m[f] # NoFile
  <2>1. m[f] = [o \in Offset |-> IF o \in w[f] THEN Held(d, f, o) ELSE Unwritten]
    BY ONLY <1>1, <1>12, f \in File DEF ContentOf
  <2>2. ASSUME NEW o \in Offset, o \in w[f] PROVE Held(d, f, o) \in Byte
    BY <1>1, <1>2, HeldType DEF Sound
  <2>3. m[f] \in [Offset -> Byte \cup {Unwritten}]
    <3>1. \A o \in Offset : (IF o \in w[f] THEN Held(d, f, o) ELSE Unwritten) \in Byte \cup {Unwritten}
      BY <2>2
    <3>. QED  BY ONLY <2>1, <3>1
  <2>. QED  BY <2>3, NoFileOK
<1>15. n[f] = NoFile  BY ONLY <1>7, <1>12, f \in File DEF ContentOf
<1>16. ASSUME NEW g \in File, g # f PROVE n[g] = m[g]
  <2>1. e.inode[g] = d.inode[g] /\ \A o : Held(e, g, o) = Held(d, g, o)
    BY ONLY <1>7, <1>16 DEF Held
  <2>. QED  BY ONLY <2>1, <1>8, <1>12, <1>16 DEF ContentOf
<1>17. n = [m EXCEPT ![f] = NoFile]
  <2>1. m = [g \in File |-> m[g]] /\ n = [g \in File |-> n[g]]  BY ONLY <1>12 DEF ContentOf
  <2>. QED  BY ONLY <2>1, <1>15, <1>16, f \in File
<1>. QED  BY <1>1, <1>11, <1>13, <1>14, <1>17 DEF Flat!Remove

\* do_fwrite.
LEMMA WriteKeeps ==
  ASSUME Careful, FilesKept, NEW fd \in Fd, NEW n \in Sizes, do_fwrite(fd, n)
  PROVE  FilesKept' /\ \E f \in File, at \in Offset : Flat!Write(f, at, n)
<1>. PICK d, e, w, v, fds : d = disk /\ e = disk' /\ w = written /\ v = written' /\ fds = file_d
  OBVIOUS
<1>2. /\ Sound(d) /\ w \in [File -> SUBSET Offset] /\ Opened(d, fds) /\ writes \in Nat
      /\ \A g \in File : Told(d, w[g], g)
  BY DEF FilesKept
<1>3. PICK f, at, x : f = fds[fd].ino /\ at = fds[fd].w_ptr /\ x = writes + 1  OBVIOUS
<1>4. PICK c : c = PutAll(d, f, Pieces(at, n), Bytes(x, n))  OBVIOUS
<1>5. /\ f # NoFile /\ at + n < Capacity
      /\ \A i \in DOMAIN Pieces(at, n) : BlockOf(c, f, Pieces(at, n)[i].sec) # 0
      /\ e = [c EXCEPT !.inode[f].usize = at + n]
      /\ file_d' = [fds EXCEPT ![fd].w_ptr = at + n]
      /\ v = [w EXCEPT ![f] = @ \cup at .. (at + n - 1)]
      /\ writes' = x
  BY <1>3, <1>4 DEF do_fwrite, Careful, Bytes
<1>6. f \in File /\ d.inode[f] # NoFile /\ at \in Offset /\ at \in Nat /\ n \in Nat \ {0}
      /\ n \in Nat /\ x \in Nat /\ at + n \in Nat
  <2>1. f \in File /\ d.inode[f] # NoFile /\ at \in Offset  BY <1>2, <1>3, <1>5 DEF Opened, Descriptor
  <2>2. n \in Nat \ {0}  BY FileIOOK
  <2>. QED  BY <2>1, <2>2, <1>2, <1>3, OffsetSector
<1>7. Good(d, c, f, at, n, x)
  <2>1. PICK ps : ps = Pieces(at, n)  OBVIOUS
  <2>. QED  BY <2>1, <1>2, <1>4, <1>5, <1>6, WriteLeaves
<1>8. ResizedIn(c, e, f, at + n)
  <2>1. Sound(c) /\ c.inode[f] # NoFile  BY <1>6, <1>7 DEF Good, Kin
  <2>2. ResizedIn(c, [c EXCEPT !.inode[f].usize = at + n], f, at + n)
    BY <2>1, <1>6, Resized, Zenon
  <2>. QED  BY <2>2, <1>5, Zenon
\* e, as a write leaves it.
<1>9. /\ Sound(e) /\ e.inode[f].usize = at + n
      /\ \A g \in File : /\ e.inode[g] = NoFile <=> d.inode[g] = NoFile
                         /\ g # f /\ d.inode[g] # NoFile => e.inode[g].usize = d.inode[g].usize
      /\ \A g \in File : \A t \in Slot :
           /\ At(d, g, t) # 0 => At(e, g, t) = At(d, g, t)
           /\ g # f => At(e, g, t) = At(d, g, t)
      /\ \A l \in 0 .. 1 : \/ At(e, f, <<"level", l, 0>>) = At(d, f, <<"level", l, 0>>)
                           \/ \E o \in at .. (at + n - 1) : DirectEnd + l * LevelSize <= o
      /\ \A o \in at .. (at + n - 1) : Has(e, f, o) /\ Held(e, f, o) = <<x, o - at + 1>>
      /\ \A g \in File : \A o \in Offset :
           Has(d, g, o) /\ ~ (g = f /\ o \in at .. (at + n - 1)) => Held(e, g, o) = Held(d, g, o)
  <2>1. /\ Sound(e) /\ e.data = c.data /\ e.inode[f].usize = at + n
        /\ \A g \in File : /\ e.inode[g] = NoFile <=> c.inode[g] = NoFile
                           /\ g # f => e.inode[g] = c.inode[g]
                           /\ \A t \in Slot : At(e, g, t) = At(c, g, t)
                           /\ \A sec : BlockOf(e, g, sec) = BlockOf(c, g, sec)
    BY ONLY <1>8 DEF ResizedIn
  <2>2. \A g \in File : \A o : /\ Has(e, g, o) <=> Has(c, g, o)
                               /\ Held(e, g, o) = Held(c, g, o)
    BY ONLY <2>1 DEF Has, Held
  <2>3. \A l \in 0 .. 1 : At(e, f, <<"level", l, 0>>) = At(c, f, <<"level", l, 0>>)
    <3>. TAKE l \in 0 .. 1
    <3>1. PICK s \in Slot : s = <<"level", l, 0>>  BY Slots
    <3>2. At(e, f, s) = At(c, f, s)  BY ONLY <2>1, <1>6, s \in Slot
    <3>. QED  BY <3>1, <3>2
  <2>4. \A g \in File : /\ e.inode[g] = NoFile <=> d.inode[g] = NoFile
                        /\ g # f /\ d.inode[g] # NoFile => e.inode[g].usize = d.inode[g].usize
    BY ONLY <2>1, <1>7 DEF Good, Kin
  <2>5. \A g \in File : \A t \in Slot :
          /\ At(d, g, t) # 0 => At(e, g, t) = At(d, g, t)
          /\ g # f => At(e, g, t) = At(d, g, t)
    BY ONLY <2>1, <1>7 DEF Good
  <2>6. \A l \in 0 .. 1 : \/ At(e, f, <<"level", l, 0>>) = At(d, f, <<"level", l, 0>>)
                          \/ \E o \in at .. (at + n - 1) : DirectEnd + l * LevelSize <= o
    BY ONLY <2>3, <1>7 DEF Good
  <2>7. \A o \in at .. (at + n - 1) : Has(e, f, o) /\ Held(e, f, o) = <<x, o - at + 1>>
    <3>. TAKE o \in at .. (at + n - 1)
    <3>1. Has(c, f, o) /\ Held(c, f, o) = <<x, o - at + 1>>
      BY ONLY <1>7, o \in at .. (at + n - 1) DEF Good
    <3>2. (Has(e, f, o) <=> Has(c, f, o)) /\ Held(e, f, o) = Held(c, f, o)
      BY ONLY <2>2, <1>6
    <3>. QED  BY ONLY <3>1, <3>2
  <2>8. \A g \in File : \A o \in Offset :
          Has(d, g, o) /\ ~ (g = f /\ o \in at .. (at + n - 1)) => Held(e, g, o) = Held(d, g, o)
    BY ONLY <2>2, <1>7 DEF Good
  <2>. QED  BY ONLY <2>1, <2>4, <2>5, <2>6, <2>7, <2>8
<1>10. /\ v[f] = w[f] \cup at .. (at + n - 1) /\ \A g \in File : g # f => v[g] = w[g]
       /\ v \in [File -> SUBSET Offset] /\ at .. (at + n - 1) \subseteq Offset
  <2>1. Capacity \in Nat  BY SizesOK
  <2>2. at .. (at + n - 1) \subseteq Offset  BY <2>1, <1>5, <1>6 DEF Offset
  <2>. QED  BY <2>2, <1>2, <1>5, <1>6
\* What was there is there.
<1>11. ASSUME NEW g \in File, NEW o \in w[g] PROVE Has(d, g, o) /\ Has(e, g, o) /\ o \in Offset
  <2>1. o \in Offset /\ d.inode[g] # NoFile /\ BlockOf(d, g, o \div SS) # 0  BY <1>2 DEF Told
  <2>2. e.inode[g] # NoFile  BY ONLY <2>1, <1>9, g \in File
  <2>3. PICK s \in Slot : s = SlotOf(o \div SS)  BY <2>1, OffsetSector, SectorSlot
  <2>4. BlockOf(d, g, o \div SS) = At(d, g, s) /\ BlockOf(e, g, o \div SS) = At(e, g, s)
    BY ONLY <2>1, <2>2, <2>3, SectorBlock
  <2>5. At(e, g, s) = At(d, g, s)  BY ONLY <2>1, <2>4, <1>9, g \in File, s \in Slot
  <2>. QED  BY ONLY <2>1, <2>2, <2>4, <2>5 DEF Has
<1>12. ASSUME NEW g \in File PROVE Told(e, v[g], g)
  <2>1. CASE g = f
    <3>1. v[f] \subseteq Offset /\ e.inode[f] # NoFile /\ e.inode[f].usize < Capacity
      BY <1>5, <1>6, <1>9, <1>10
    <3>2. \A o \in v[f] : BlockOf(e, f, o \div SS) # 0
      BY <1>6, <1>9, <1>10, <1>11 DEF Has
    <3>3. ASSUME NEW l \in 0 .. 1, At(e, f, <<"level", l, 0>>) # 0
          PROVE  \E o \in v[f] : DirectEnd + l * LevelSize <= o
      <4>1. CASE At(e, f, <<"level", l, 0>>) = At(d, f, <<"level", l, 0>>)
        <5>1. \E o \in w[f] : DirectEnd + l * LevelSize <= o
          BY <3>3, <4>1, <1>2, <1>6 DEF Told
        <5>. QED  BY <5>1, <1>10
      <4>2. CASE \E o \in at .. (at + n - 1) : DirectEnd + l * LevelSize <= o
        BY <4>2, <1>10
      <4>. QED  BY <4>1, <4>2, <1>9
    <3>. QED  BY ONLY <2>1, <3>1, <3>2, <3>3 DEF Told
  <2>2. CASE g # f
    <3>1. Told(d, w[g], g) /\ v[g] = w[g]  BY <2>2, <1>2, <1>10
    <3>2. \A l \in 0 .. 1 : At(e, g, <<"level", l, 0>>) = At(d, g, <<"level", l, 0>>)
      BY ONLY <2>2, <1>9, Slots, g \in File
    <3>3. /\ e.inode[g] = NoFile <=> d.inode[g] = NoFile
          /\ d.inode[g] # NoFile => e.inode[g].usize = d.inode[g].usize
      BY ONLY <2>2, <1>9, g \in File
    <3>4. \A o \in w[g] : BlockOf(e, g, o \div SS) # 0  BY <1>11 DEF Has
    <3>. QED  BY ONLY <3>1, <3>2, <3>3, <3>4 DEF Told
  <2>. QED  BY <2>1, <2>2
<1>13. Opened(e, file_d')
  <2>1. at + n \in Offset  BY <1>5, <1>6, SizesOK DEF Offset
  <2>2. PICK q : q = [fds[fd] EXCEPT !.w_ptr = at + n]  OBVIOUS
  <2>3. q \in Descriptor /\ q.ino = f  BY <2>1, <2>2, <1>2, <1>3 DEF Opened, Descriptor
  <2>4. file_d' = [fds EXCEPT ![fd] = q]  BY <2>2, <1>5
  <2>5. file_d' \in [Fd -> Descriptor]  BY <2>3, <2>4, <1>2 DEF Opened
  <2>6. \A i \in Fd : file_d'[i].ino = fds[i].ino  BY <2>3, <2>4, <1>2, <1>3 DEF Opened
  <2>7. \A g \in File : d.inode[g] # NoFile => e.inode[g] # NoFile  BY ONLY <1>9
  <2>. QED  BY <2>5, <2>6, <2>7, <1>2 DEF Opened, Descriptor
<1>14. FilesKept'
  <2>1. disk' = e /\ written' = v /\ writes' \in Nat  BY <1>5, <1>6
  <2>2. \A g \in File : Told(e, v[g], g)  BY <1>12
  <2>. QED  BY ONLY <2>1, <2>2, <1>9, <1>10, <1>13 DEF FilesKept
<1>15. PICK m, p : m = ContentOf(d, w) /\ p = ContentOf(e, v)  OBVIOUS
<1>16. Content = m /\ Content' = p  BY <1>15, ContentIs
<1>17. m[f] = [o \in Offset |-> IF o \in w[f] THEN Held(d, f, o) ELSE Unwritten]
  BY ONLY <1>6, <1>15 DEF ContentOf
<1>18. m[f] # NoFile
  <2>2. ASSUME NEW o \in Offset, o \in w[f] PROVE Held(d, f, o) \in Byte
    BY <1>2, <1>6, HeldType DEF Sound
  <2>3. m[f] \in [Offset -> Byte \cup {Unwritten}]
    <3>1. \A o \in Offset : (IF o \in w[f] THEN Held(d, f, o) ELSE Unwritten) \in Byte \cup {Unwritten}
      BY <2>2
    <3>. QED  BY ONLY <1>17, <3>1
  <2>. QED  BY <2>3, NoFileOK
<1>. DEFINE N == [o \in Offset |-> IF o \in at .. (at + n - 1) THEN <<x, o - at + 1>> ELSE m[f][o]]
<1>19. p[f] = N
  <2>1. p[f] = [o \in Offset |-> IF o \in v[f] THEN Held(e, f, o) ELSE Unwritten]
    BY ONLY <1>6, <1>9, <1>15 DEF ContentOf
  <2>2. ASSUME NEW o \in Offset PROVE p[f][o] = N[o]
    <3>1. CASE o \in at .. (at + n - 1)
      <4>1. o \in v[f] /\ Held(e, f, o) = <<x, o - at + 1>>  BY <3>1, <1>9, <1>10
      <4>. QED  BY <3>1, <4>1, <2>1
    <3>2. CASE o \notin at .. (at + n - 1) /\ o \in w[f]
      <4>1. o \in v[f] /\ Held(e, f, o) = Held(d, f, o)
        <5>1. Has(d, f, o)  BY <3>2, <1>6, <1>11
        <5>. QED  BY <5>1, <3>2, <1>6, <1>9, <1>10
      <4>2. m[f][o] = Held(d, f, o)  BY <3>2, <1>17
      <4>. QED  BY <3>2, <4>1, <4>2, <2>1
    <3>3. CASE o \notin at .. (at + n - 1) /\ o \notin w[f]
      <4>1. o \notin v[f] /\ m[f][o] = Unwritten  BY <3>3, <1>10, <1>17
      <4>. QED  BY <3>3, <4>1, <2>1
    <3>. QED  BY <3>1, <3>2, <3>3
  <2>3. N = [o \in Offset |-> N[o]] /\ p[f] = [o \in Offset |-> p[f][o]]  BY <2>1
  <2>. HIDE DEF N
  <2>. QED  BY <2>2, <2>3
<1>20. ASSUME NEW g \in File, g # f PROVE p[g] = m[g]
  <2>1. v[g] = w[g] /\ (e.inode[g] = NoFile <=> d.inode[g] = NoFile)
    BY ONLY <1>9, <1>10, <1>20
  <2>2. \A o \in w[g] : Held(e, g, o) = Held(d, g, o)
    <3>. TAKE o \in w[g]
    <3>1. Has(d, g, o) /\ o \in Offset  BY <1>11
    <3>. QED  BY ONLY <3>1, <1>9, <1>20
  <2>3. p[g] = IF e.inode[g] = NoFile THEN NoFile
               ELSE [o \in Offset |-> IF o \in v[g] THEN Held(e, g, o) ELSE Unwritten]
    BY ONLY <1>15, g \in File DEF ContentOf
  <2>4. m[g] = IF d.inode[g] = NoFile THEN NoFile
               ELSE [o \in Offset |-> IF o \in w[g] THEN Held(d, g, o) ELSE Unwritten]
    BY ONLY <1>15, g \in File DEF ContentOf
  <2>. QED  BY ONLY <2>1, <2>2, <2>3, <2>4
<1>21. p = [m EXCEPT ![f] = N]
  <2>. HIDE DEF N
  <2>1. m = [g \in File |-> m[g]] /\ p = [g \in File |-> p[g]]  BY ONLY <1>15 DEF ContentOf
  <2>. QED  BY ONLY <2>1, <1>6, <1>19, <1>20
<1>22. Flat!Write(f, at, n)
  <2>1. writes' = writes + 1 /\ x = writes + 1  BY <1>3, <1>5
  <2>2. p = [m EXCEPT ![f] = [o \in Offset |-> IF o \in at .. (at + n - 1)
                                               THEN <<writes + 1, o - at + 1>> ELSE m[f][o]]]
    BY ONLY <1>21, <2>1
  <2>3. f \in DOMAIN m  BY ONLY <1>6, <1>15 DEF ContentOf
  <2>. QED  BY <2>1, <2>2, <2>3, <1>16, <1>18 DEF Flat!Write
<1>. QED  BY <1>6, <1>14, <1>22

\* The calls that touch neither a file nor what was written.
LEMMA RestKeeps ==
  ASSUME FilesKept, Opened(disk, file_d'), UNCHANGED <<disk, written, writes>>
  PROVE  FilesKept' /\ UNCHANGED <<Content, writes>>
<1>1. FilesKept'  BY DEF FilesKept
<1>2. Content' = Content  BY ContentIs
<1>. QED  BY <1>1, <1>2

LEMMA DescriptorKept ==
  ASSUME FilesKept, NEW fd \in Fd, NEW q \in Descriptor, file_d' = [file_d EXCEPT ![fd] = q],
         q.ino # NoFile => disk.inode[q.ino] # NoFile
  PROVE  Opened(disk, file_d')
<1>1. file_d \in [Fd -> Descriptor]
      /\ \A i \in Fd : file_d[i].ino # NoFile => disk.inode[file_d[i].ino] # NoFile
  BY DEF FilesKept, Opened
<1>2. file_d' \in [Fd -> Descriptor]  BY <1>1
<1>3. \A i \in Fd : file_d'[i] = IF i = fd THEN q ELSE file_d[i]  BY <1>1
<1>. QED  BY <1>1, <1>2, <1>3 DEF Opened

LEMMA DescriptorOf ==
  ASSUME FilesKept, NEW fd \in Fd
  PROVE  /\ file_d[fd] \in Descriptor /\ file_d \in [Fd -> Descriptor]
         /\ file_d[fd].ino # NoFile => disk.inode[file_d[fd].ino] # NoFile
BY DEF FilesKept, Opened

LEMMA ReadKeeps ==
  ASSUME FilesKept, NEW fd \in Fd, NEW n \in Sizes, do_fread(fd, n)
  PROVE  FilesKept' /\ UNCHANGED <<Content, writes>>
<1>1. n \in Nat  BY FileIOOK
<1>2. PICK q : q = [file_d[fd] EXCEPT !.r_ptr = @ + n]  OBVIOUS
<1>3. q \in Descriptor /\ q.ino = file_d[fd].ino
  BY <1>1, <1>2, DescriptorOf DEF Descriptor
<1>4. file_d' = [file_d EXCEPT ![fd] = q]  BY <1>2 DEF do_fread
<1>5. Opened(disk, file_d')  BY <1>3, <1>4, DescriptorOf, DescriptorKept
<1>. QED  BY <1>5, RestKeeps DEF do_fread

LEMMA SeekKeeps ==
  ASSUME FilesKept, NEW fd \in Fd, NEW offset \in Offsets, do_lseek(fd, offset)
  PROVE  FilesKept' /\ UNCHANGED <<Content, writes>>
<1>1. PICK from : /\ from[1] + offset \in Offset /\ from[2] + offset \in Offset
                  /\ file_d' = [file_d EXCEPT ![fd].r_ptr = from[1] + offset,
                                              ![fd].w_ptr = from[2] + offset]
  BY DEF do_lseek
<1>2. PICK a \in Offset, b \in Offset : a = from[1] + offset /\ b = from[2] + offset  BY <1>1
<1>3. a \in Nat  BY OffsetSector
<1>4. PICK q : q = [file_d[fd] EXCEPT !.r_ptr = a, !.w_ptr = b]  OBVIOUS
<1>5. q \in Descriptor /\ q.ino = file_d[fd].ino
  BY <1>3, <1>4, DescriptorOf DEF Descriptor
<1>6. file_d' = [file_d EXCEPT ![fd] = q]  BY <1>1, <1>2, <1>4, DescriptorOf
<1>7. Opened(disk, file_d')  BY <1>5, <1>6, DescriptorOf, DescriptorKept
<1>. QED  BY <1>7, RestKeeps DEF do_lseek

LEMMA ClosedType == Closed \in Descriptor /\ Closed.ino = NoFile
BY ZeroOffset DEF Closed, Descriptor

LEMMA OpenKeeps ==
  ASSUME FilesKept, NEW fd \in Fd, NEW f \in File, do_fopen(fd, f)
  PROVE  FilesKept' /\ UNCHANGED <<Content, writes>>
<1>1. PICK q : q = [Closed EXCEPT !.ino = f]  OBVIOUS
<1>2. q \in Descriptor /\ q.ino = f  BY <1>1, ZeroOffset DEF Closed, Descriptor
<1>3. file_d' = [file_d EXCEPT ![fd] = q] /\ disk.inode[f] # NoFile
  BY <1>1 DEF do_fopen, Exists, inode
<1>4. Opened(disk, file_d')  BY <1>2, <1>3, DescriptorKept
<1>. QED  BY <1>4, RestKeeps DEF do_fopen

LEMMA CloseKeeps ==
  ASSUME FilesKept, NEW fd \in Fd, do_fclose(fd)
  PROVE  FilesKept' /\ UNCHANGED <<Content, writes>>
<1>1. file_d' = [file_d EXCEPT ![fd] = Closed]  BY DEF do_fclose
<1>2. Opened(disk, file_d')  BY <1>1, ClosedType, DescriptorKept
<1>. QED  BY <1>2, RestKeeps DEF do_fclose

\* Every step keeps the invariant and is a step of the flat files, or none.
LEMMA StepKeeps ==
  ASSUME Careful, FilesKept, [Next]_vars
  PROVE  FilesKept' /\ [Flat!Next]_<<Content, writes>>
<1>1. ASSUME NEW f \in File, do_touch(f) PROVE FilesKept' /\ Flat!Next
  <2>1. FilesKept' /\ Flat!Create(f)  BY <1>1, TouchKeeps
  <2>. QED  BY <2>1 DEF Flat!Next
<1>2. ASSUME NEW f \in File, do_rm(f) PROVE FilesKept' /\ Flat!Next
  <2>1. FilesKept' /\ Flat!Remove(f)  BY <1>2, RemoveKeeps
  <2>. QED  BY <2>1 DEF Flat!Next
<1>3. ASSUME NEW fd \in Fd, NEW n \in Sizes, do_fwrite(fd, n) PROVE FilesKept' /\ Flat!Next
  <2>1. FilesKept' /\ \E f \in File, at \in Offset : Flat!Write(f, at, n)  BY <1>3, WriteKeeps
  <2>. QED  BY <2>1 DEF Flat!Next
<1>4. ASSUME NEW fd \in Fd, NEW f \in File, do_fopen(fd, f)
      PROVE  FilesKept' /\ UNCHANGED <<Content, writes>>
  BY <1>4, OpenKeeps
<1>5. ASSUME NEW fd \in Fd, do_fclose(fd) PROVE FilesKept' /\ UNCHANGED <<Content, writes>>
  BY <1>5, CloseKeeps
<1>6. ASSUME NEW fd \in Fd, NEW n \in Sizes, do_fread(fd, n)
      PROVE  FilesKept' /\ UNCHANGED <<Content, writes>>
  BY <1>6, ReadKeeps
<1>7. ASSUME NEW fd \in Fd, NEW o \in Offsets, do_lseek(fd, o)
      PROVE  FilesKept' /\ UNCHANGED <<Content, writes>>
  BY <1>7, SeekKeeps
<1>8. CASE UNCHANGED vars
  <2>1. Opened(disk, file_d') /\ UNCHANGED <<disk, written, writes>>  BY <1>8 DEF vars, FilesKept
  <2>. QED  BY <2>1, RestKeeps
<1>. QED  BY <1>1, <1>2, <1>3, <1>4, <1>5, <1>6, <1>7, <1>8 DEF Next

LEMMA FlatAtFirst == Init => Flat!Init
<1>1. SUFFICES ASSUME Init PROVE Flat!Init  OBVIOUS
<1>2. \A g \in File : disk.inode[g] = NoFile  BY <1>1 DEF Init
<1>3. Content = [g \in File |-> NoFile]  BY <1>2, ContentIs DEF ContentOf
<1>. QED  BY <1>1, <1>3 DEF Init, Flat!Init

\* The invariant in every state, when no program makes a careless call.
THEOREM FilesAreKept == ASSUME Careful PROVE Spec => []FilesKept
<1>1. Init => FilesKept  BY InitKept
<1>2. FilesKept /\ [Next]_vars => FilesKept'  BY StepKeeps
<1>. QED  BY <1>1, <1>2, PTL DEF Spec

(***************************************************************************)
(* The calls of fs.c implement flat files (FlatFile): a write changes the  *)
(* bytes it names and no other, in its file and in every other, whichever  *)
(* blocks do_fwrite allocates on the way and whatever was in them.         *)
(***************************************************************************)
THEOREM FilesAreFlat == ASSUME Careful PROVE Spec => IsFlatFile
<1>1. Init => Flat!Init  BY FlatAtFirst
<1>2. FilesKept /\ [Next]_vars => [Flat!Next]_<<Content, writes>>  BY StepKeeps
<1>3. Spec => []FilesKept  BY FilesAreKept
<1>. QED  BY <1>1, <1>2, <1>3, PTL DEF Spec, IsFlatFile, Flat!Spec

\* The blocks of a file, as its inode and its index blocks name them.
LEMMA BlocksAreSlots ==
  ASSUME Shape(disk), NEW f \in File, Exists(f), NEW b \in Pointer, b # 0
  PROVE  b \in BlocksOf(f) <=> \E s \in Slot : At(disk, f, s) = b
<1>. PICK d : d = disk  OBVIOUS
<1>1. Shape(d) /\ d.inode[f] # NoFile  BY DEF Exists, inode
<1>2. PICK dir, lev : dir = d.inode[f].direct /\ lev = d.inode[f].lev1  OBVIOUS
<1>3. /\ dir \in [0 .. (DPTR - 1) -> Pointer] /\ lev \in [0 .. 2 -> Pointer] /\ lev[2] = 0
      /\ d.index \in [0 .. NumBlock -> [0 .. (LEV - 1) -> Pointer]] /\ d.index[0] = NoEntries
  BY <1>1, <1>2, NodeOf DEF Shape, Disk, Node
<1>4. /\ \A j : At(d, f, <<"direct", 0, j>>) = dir[j]
      /\ \A l : At(d, f, <<"level", l, 0>>) = lev[l]
      /\ \A l, e : At(d, f, <<"entry", l, e>>) = d.index[lev[l]][e]
  BY <1>1, <1>2, AtSlot
<1>5. b \in DirectOf(f) <=> \E j \in 0 .. (DPTR - 1) : dir[j] = b
  <2>1. DOMAIN dir = 0 .. (DPTR - 1)  BY <1>3
  <2>. QED  BY <2>1, <1>2 DEF DirectOf, FunRange, inode
<1>6. \A c : c \in LevelsOf(f) <=> c # 0 /\ \E l \in 0 .. 1 : lev[l] = c
  <2>1. DOMAIN lev = 0 .. 2  BY <1>3
  <2>2. \A c : c \in LevelsOf(f) <=> c # 0 /\ \E l \in 0 .. 2 : lev[l] = c
    BY <2>1, <1>2 DEF LevelsOf, FunRange, inode
  <2>3. \A l \in 0 .. 2 : l \in 0 .. 1 \/ l = 2  OBVIOUS
  <2>4. \A l \in 0 .. 1 : l \in 0 .. 2  OBVIOUS
  <2>. QED  BY <2>2, <2>3, <2>4, <1>3
<1>7. b \in UnderOf(f) <=> \E l \in 0 .. 1 : \E e \in 0 .. (LEV - 1) : d.index[lev[l]][e] = b
  <2>1. ASSUME NEW l \in 0 .. 1
        PROVE  lev[l] \in 0 .. NumBlock /\ DOMAIN d.index[lev[l]] = 0 .. (LEV - 1)
    <3>1. l \in 0 .. 2  OBVIOUS
    <3>2. PICK a \in 0 .. NumBlock : a = lev[l]  BY <3>1, <1>3 DEF Pointer
    <3>3. d.index[a] \in [0 .. (LEV - 1) -> Pointer]  BY <3>2, <1>3
    <3>. QED  BY <3>2, <3>3
  <2>2. ASSUME b \in UnderOf(f)
        PROVE  \E l \in 0 .. 1 : \E e \in 0 .. (LEV - 1) : d.index[lev[l]][e] = b
    <3>1. PICK c \in LevelsOf(f) : b \in FunRange(d.index[c])  BY <2>2 DEF UnderOf
    <3>2. PICK l \in 0 .. 1 : lev[l] = c  BY <1>6
    <3>. QED  BY <3>1, <3>2, <2>1 DEF FunRange
  <2>3. ASSUME NEW l \in 0 .. 1, NEW e \in 0 .. (LEV - 1), d.index[lev[l]][e] = b
        PROVE  b \in UnderOf(f)
    <3>1. lev[l] # 0  BY <2>3, <1>3 DEF NoEntries
    <3>2. lev[l] \in LevelsOf(f)  BY <3>1, <1>6
    <3>3. b \in FunRange(d.index[lev[l]])  BY <2>1, <2>3 DEF FunRange
    <3>4. PICK c : c \in LevelsOf(f) /\ b \in FunRange(disk.index[c])  BY <3>2, <3>3
    <3>5. b \in UNION {FunRange(disk.index[a]) : a \in LevelsOf(f)}  BY ONLY <3>4
    <3>. QED  BY <3>5 DEF UnderOf
  <2>. QED  BY <2>2, <2>3
<1>8. b \in BlocksOf(f) <=> b \in DirectOf(f) \/ b \in LevelsOf(f) \/ b \in UnderOf(f)
  BY DEF BlocksOf
<1>9. ASSUME b \in BlocksOf(f) PROVE \E s \in Slot : At(d, f, s) = b
  <2>1. CASE \E j \in 0 .. (DPTR - 1) : dir[j] = b  BY <2>1, <1>4, Slots
  <2>2. CASE \E l \in 0 .. 1 : lev[l] = b  BY <2>2, <1>4, Slots
  <2>3. CASE \E l \in 0 .. 1 : \E e \in 0 .. (LEV - 1) : d.index[lev[l]][e] = b
    BY <2>3, <1>4, Slots
  <2>. QED  BY <2>1, <2>2, <2>3, <1>5, <1>6, <1>7, <1>8, <1>9
<1>10. ASSUME NEW s \in Slot, At(d, f, s) = b PROVE b \in BlocksOf(f)
  <2>1. CASE \E j \in 0 .. (DPTR - 1) : s = <<"direct", 0, j>>
    BY <2>1, <1>4, <1>5, <1>8, <1>10
  <2>2. CASE \E l \in 0 .. 1 : s = <<"level", l, 0>>  BY <2>2, <1>4, <1>6, <1>8, <1>10
  <2>3. CASE \E l \in 0 .. 1 : \E e \in 0 .. (LEV - 1) : s = <<"entry", l, e>>
    BY <2>3, <1>4, <1>7, <1>8, <1>10
  <2>. QED  BY <2>1, <2>2, <2>3, SlotCases
<1>. QED  BY <1>9, <1>10

LEMMA KeptLeaksNothing == FilesKept => NothingLeaked
<1>1. SUFFICES ASSUME FilesKept PROVE NothingLeaked  OBVIOUS
<1>2. Shape(disk) /\ Marked(disk) /\ disk.bmap \subseteq Pointer
  <2>1. disk.bmap \subseteq Block  BY <1>1 DEF FilesKept, Sound, Shape, Disk
  <2>2. Block \subseteq Pointer  BY SizesOK DEF Block, Pointer
  <2>. QED  BY <2>1, <2>2, <1>1 DEF FilesKept, Sound
<1>3. \A f \in Files : BlocksOf(f) \subseteq Pointer \ {0}
  <2>1. SUFFICES ASSUME NEW f \in File, Exists(f), NEW b \in BlocksOf(f) PROVE b \in Pointer \ {0}
    BY DEF Files
  <2>2. PICK nd : nd = disk.inode[f] /\ nd \in Node  BY <2>1, <1>2, NodeOf DEF Exists, inode
  <2>3. b \in DirectOf(f) \/ b \in LevelsOf(f) \/ b \in UnderOf(f)  BY <2>1 DEF BlocksOf
  <2>3a. b # 0
    <3>1. 0 \notin DirectOf(f)  BY DEF DirectOf
    <3>2. 0 \notin LevelsOf(f)  BY DEF LevelsOf
    <3>3. 0 \notin UnderOf(f)  BY Zenon DEF UnderOf
    <3>. QED  BY ONLY <2>3, <3>1, <3>2, <3>3
  <2>4. CASE b \in DirectOf(f)
    <3>1. nd.direct \in [0 .. (DPTR - 1) -> Pointer]  BY <2>2 DEF Node
    <3>. QED  BY <3>1, <2>2, <2>4 DEF DirectOf, FunRange, inode
  <2>5. CASE b \in LevelsOf(f)  BY <2>2, <2>5 DEF LevelsOf, FunRange, inode, Node
  <2>6. CASE b \in UnderOf(f)
    <3>1. PICK c \in LevelsOf(f) : b \in FunRange(disk.index[c])  BY <2>6 DEF UnderOf
    <3>2. c \in Pointer  BY <2>2 DEF LevelsOf, FunRange, inode, Node
    <3>3. disk.index[c] \in [0 .. (LEV - 1) -> Pointer]  BY <3>2, <1>2 DEF Shape, Disk, Pointer
    <3>4. PICK x \in 0 .. (LEV - 1) : b = disk.index[c][x]  BY <3>1, <3>3 DEF FunRange
    <3>. QED  BY <2>3a, <3>3, <3>4
  <2>. QED  BY <2>3, <2>4, <2>5, <2>6
<1>4. ASSUME NEW b \in Pointer, b # 0
      PROVE  b \in disk.bmap <=> \E f \in Files : b \in BlocksOf(f)
  <2>1. b \in disk.bmap <=> \E f \in File, s \in Slot : At(disk, f, s) = b
    BY <1>2, <1>4 DEF Marked
  <2>2. ASSUME NEW f \in File, NEW s \in Slot, At(disk, f, s) = b PROVE Exists(f)
    BY <1>4, <2>2 DEF At, Exists, inode
  <2>3. \A f \in Files : b \in BlocksOf(f) <=> \E s \in Slot : At(disk, f, s) = b
    BY <1>2, <1>4, BlocksAreSlots DEF Files
  <2>. QED  BY <2>1, <2>2, <2>3 DEF Files
<1>5. 0 \notin disk.bmap
  <2>1. 0 \in Pointer  BY SizesOK DEF Pointer
  <2>. QED  BY <2>1, <1>2 DEF Marked
<1>6. \A b : b \in disk.bmap <=> \E f \in Files : b \in BlocksOf(f)  BY <1>2, <1>3, <1>4, <1>5
<1>. QED  BY <1>6 DEF NothingLeaked

(***************************************************************************)
(* No call of fs.c leaks a block of a file: what do_rm finds from usize is *)
(* all that the writes allocated, so the bitmap marks the blocks of the    *)
(* files and no other.                                                     *)
(***************************************************************************)
THEOREM NoBlockLost == ASSUME Careful PROVE Spec => []NothingLeaked
<1>1. FilesKept => NothingLeaked  BY KeptLeaksNothing
<1>2. Spec => []FilesKept  BY FilesAreKept
<1>. QED  BY <1>1, <1>2, PTL
=============================================================================
