-------------------------- MODULE FileSystemProofs --------------------------
(***************************************************************************)
(* The tree of directories, for any number of inodes, blocks, descriptors  *)
(* and names: it stays sound, the links are counted, no block is shared    *)
(* and none is lost, and what the kernel refers to stays in it, whatever   *)
(* calls programs make of those that Prudent leaves them, with the power   *)
(* failing after any write of do_mkdir and do_touch.                       *)
(*                                                                         *)
(* The argument is about a set T of inodes that hangs together by the      *)
(* links in its directories (Hang): each but the root has a name, and what *)
(* holds of the root and is handed on by links holds of all of T, so T is  *)
(* what the root reaches.  A call adds an inode or a name to T or takes    *)
(* one from it (NewAdded, NameAdded, NameDropped); a write of it on the    *)
(* way there changes nothing that T sees (Unseen).                         *)
(***************************************************************************)
EXTENDS FileSystem, FiniteSetTheorems, FunctionTheorems, SequenceTheorems,
        WellFoundedInduction, TLAPS

-----------------------------------------------------------------------------
(* What the folds compute, step by step. *)

\* A set of numbers that is not empty has a least one.
LEMMA HasLeast ==
  ASSUME NEW S, S \subseteq Nat, S # {}
  PROVE  \E x \in S : \A y \in S : x <= y
<1>. DEFINE R == {ss \in Nat \X Nat : ss[1] < ss[2]}
<1>1. IsWellFoundedOn(R, Nat)  BY NatLessThanWellFounded DEF OpToRel
<1>2. PICK x \in S : \A y \in S : ~ (<<y, x>> \in R)
  <2>. HIDE DEF R
  <2>. QED  BY <1>1, WFMin, Zenon
<1>3. \A y \in S : ~ (y < x)  BY <1>2, Zenon
<1>. QED  BY <1>3

\* What fails nowhere first fails nowhere: induction up to n.
LEMMA NoFirst ==
  ASSUME NEW n \in Nat, NEW B, B \subseteq 0 .. n, 0 \notin B,
         \A k \in 1 .. n : k \in B => k - 1 \in B
  PROVE  B = {}
<1>1. SUFFICES ASSUME B # {} PROVE FALSE  OBVIOUS
<1>2. B \subseteq Nat  OBVIOUS
<1>3. PICK m \in B : \A k \in B : m <= k  BY <1>1, <1>2, HasLeast, Zenon
<1>4. m \in 1 .. n
  <2>1. m \in Nat /\ m <= n /\ m # 0  BY <1>3, <1>2
  <2>. QED  BY <2>1
<1>5. m - 1 \in B /\ ~ (m <= m - 1)  BY <1>3, <1>4
<1>. QED  BY <1>3, <1>5

\* Max of a set within 1 .. n that has n.
LEMMA MaxOf ==
  ASSUME NEW n \in Nat, NEW s, s \subseteq 1 .. n, n \in s
  PROVE  Max(s) = n
<1>1. \A y \in s : n >= y  OBVIOUS
<1>2. Max(s) \in s /\ \A y \in s : Max(s) >= y  BY <1>1, Zenon DEF Max
<1>3. Max(s) \in 1 .. n  BY <1>2, Zenon
<1>. QED  BY <1>1, <1>2, <1>3

\* The writes of a call, one after the other.
Writes(g, d, ws, n) ==
  /\ g[0] = d /\ WrittenOver(d, ws) = g[n]
  /\ \A k \in 1 .. n : g[k] = Write(g[k - 1], ws[k])
LEMMA WriteByWrite ==
  ASSUME NEW d, NEW n \in Nat, NEW ws, DOMAIN ws = 1 .. n
  PROVE  \E g : Writes(g, d, ws, n)
<1>. DEFINE Row(f, m) == [s \in SUBSET (1 .. m) |->
                            IF s = {} THEN d ELSE Write(f[s \ {Max(s)}], ws[Max(s)])]
            Short == {m \in Nat : ~ \E f : f = Row(f, m)}
<1>1. Short = {}
  <2>1. SUFFICES ASSUME Short # {} PROVE FALSE  BY Zenon
  <2>2. PICK m \in Short : \A k \in Short : m <= k  BY <2>1, HasLeast, Zenon
  <2>3. m # 0
    <3>1. SUBSET (1 .. 0) = {{}}  OBVIOUS
    <3>2. [s \in {{}} |-> d] = Row([s \in {{}} |-> d], 0)  BY <3>1
    <3>. QED  BY <3>2, <2>2, Zenon
  <2>4. m - 1 \in Nat /\ m - 1 \notin Short
    <3>1. m \in Nat  BY <2>2
    <3>2. m - 1 \in Nat /\ ~ (m <= m - 1)  BY <3>1, <2>3
    <3>. QED  BY <3>2, <2>2, Zenon
  <2>5. PICK e : e = Row(e, m - 1)  BY <2>4, Zenon
  <2>. DEFINE f == [s \in SUBSET (1 .. m) |->
                      IF m \in s THEN Write(e[s \ {m}], ws[m]) ELSE e[s]]
  <2>6. \A s \in SUBSET (1 .. m) : m \notin s => s \in SUBSET (1 .. (m - 1))  BY <2>2
  <2>7. ASSUME NEW s \in SUBSET (1 .. m), s # {}, m \in s
        PROVE  f[s] = Write(f[s \ {Max(s)}], ws[Max(s)])
    <3>1. Max(s) = m  BY <2>7, <2>2, MaxOf, Zenon
    <3>2. s \ {m} \in SUBSET (1 .. m) /\ m \notin s \ {m}  OBVIOUS
    <3>. QED  BY <3>1, <3>2, <2>7
  <2>8. ASSUME NEW s \in SUBSET (1 .. m), s # {}, m \notin s
        PROVE  f[s] = Write(f[s \ {Max(s)}], ws[Max(s)])
    <3>1. s \in SUBSET (1 .. (m - 1))  BY <2>8, <2>6
    <3>2. e[s] = Write(e[s \ {Max(s)}], ws[Max(s)])  BY <2>5, <2>8, <3>1, Zenon
    <3>3. s \ {Max(s)} \in SUBSET (1 .. m) /\ m \notin s \ {Max(s)}  BY <2>8, Zenon
    <3>. QED  BY <3>2, <3>3, <2>8
  <2>9. f[{}] = d
    <3>1. {} \in SUBSET (1 .. (m - 1)) /\ {} \in SUBSET (1 .. m)  OBVIOUS
    <3>. QED  BY <3>1, <2>5
  <2>10. f = Row(f, m)
    <3>1. \A s \in SUBSET (1 .. m) : f[s] = Row(f, m)[s]  BY <2>7, <2>8, <2>9, Zenon
    <3>2. f = [s \in SUBSET (1 .. m) |-> f[s]]  OBVIOUS
    <3>3. Row(f, m) = [s \in SUBSET (1 .. m) |-> Row(f, m)[s]]  OBVIOUS
    <3>. HIDE DEF f, Row
    <3>. QED  BY <3>1, <3>2, <3>3, Zenon
  <2>. QED  BY <2>10, <2>2, Zenon
<1>2. PICK f : /\ f = Row(f, n) /\ WrittenOver(d, ws) = f[1 .. n]
  <2>1. WrittenOver(d, ws) = (CHOOSE f : f = Row(f, n))[1 .. n]
    BY DEF WrittenOver, FoldLeft, MapThenFoldSet
  <2>2. \E f : f = Row(f, n)
    <3>1. n \in Nat /\ n \notin Short  BY <1>1, Zenon
    <3>. QED  BY <3>1, Zenon
  <2>. QED  BY <2>1, <2>2, Zenon
<1>. DEFINE g == [k \in 0 .. n |-> f[1 .. k]]
<1>3. g[0] = d
  <2>1. 1 .. 0 = {} /\ {} \in SUBSET (1 .. n)  OBVIOUS
  <2>. QED  BY <2>1, <1>2
<1>4. ASSUME NEW k \in 1 .. n PROVE g[k] = Write(g[k - 1], ws[k])
  <2>1. Max(1 .. k) = k  BY MaxOf
  <2>2. (1 .. k) \ {k} = 1 .. (k - 1)  OBVIOUS
  <2>3. 1 .. k \in SUBSET (1 .. n) /\ 1 .. k # {}
    <3>1. k \in Nat /\ 1 <= k /\ k <= n  OBVIOUS
    <3>2. k \in 1 .. k /\ \A x \in 1 .. k : x \in 1 .. n  BY <3>1
    <3>. QED  BY <3>2, Zenon
  <2>4. f[1 .. k] = Write(f[1 .. (k - 1)], ws[k])  BY <1>2, <2>1, <2>2, <2>3, Zenon
  <2>. QED  BY <2>4
<1>5. n \in 0 .. n /\ g[n] = f[1 .. n]  OBVIOUS
<1>. HIDE DEF g
<1>6. Writes(g, d, ws, n)  BY <1>2, <1>3, <1>4, <1>5 DEF Writes
<1>. QED  BY <1>6

\* The rounds in which what can be reached from the root is collected.
Wider(S) == S \cup UNION {Named1(i) : i \in S}
LEMMA RoundByRound ==
  \E g : /\ g[0] = {Root} /\ Reached = g[NumIno - 1]
         /\ \A k \in 1 .. NumIno - 1 : g[k] = Wider(g[k - 1])
<1>. DEFINE n == NumIno - 1
<1>0. n \in Nat /\ n = NumIno - 1  BY FileSystemOK
<1>. HIDE DEF n
<1>. USE <1>0
<1>. DEFINE Row(f, m) == [s \in SUBSET (1 .. m) |->
                            IF s = {} THEN {Root} ELSE Wider(f[s \ {Max(s)}])]
            Short == {m \in Nat : ~ \E f : f = Row(f, m)}
<1>1. Short = {}
  <2>1. SUFFICES ASSUME Short # {} PROVE FALSE  BY Zenon
  <2>2. PICK m \in Short : \A k \in Short : m <= k  BY <2>1, HasLeast, Zenon
  <2>3. m # 0
    <3>1. SUBSET (1 .. 0) = {{}}  OBVIOUS
    <3>2. [s \in {{}} |-> {Root}] = Row([s \in {{}} |-> {Root}], 0)  BY <3>1
    <3>. QED  BY <3>2, <2>2, Zenon
  <2>4. m - 1 \in Nat /\ m - 1 \notin Short
    <3>1. m \in Nat  BY <2>2
    <3>2. m - 1 \in Nat /\ ~ (m <= m - 1)  BY <3>1, <2>3
    <3>. QED  BY <3>2, <2>2, Zenon
  <2>5. PICK e : e = Row(e, m - 1)  BY <2>4, Zenon
  <2>. DEFINE f == [s \in SUBSET (1 .. m) |->
                      IF m \in s THEN Wider(e[s \ {m}]) ELSE e[s]]
  <2>6. \A s \in SUBSET (1 .. m) : m \notin s => s \in SUBSET (1 .. (m - 1))  BY <2>2
  <2>7. ASSUME NEW s \in SUBSET (1 .. m), s # {}, m \in s
        PROVE  f[s] = Wider(f[s \ {Max(s)}])
    <3>1. Max(s) = m  BY <2>7, <2>2, MaxOf, Zenon
    <3>2. s \ {m} \in SUBSET (1 .. m) /\ m \notin s \ {m}  OBVIOUS
    <3>. QED  BY <3>1, <3>2, <2>7
  <2>8. ASSUME NEW s \in SUBSET (1 .. m), s # {}, m \notin s
        PROVE  f[s] = Wider(f[s \ {Max(s)}])
    <3>1. s \in SUBSET (1 .. (m - 1))  BY <2>8, <2>6
    <3>2. e[s] = Wider(e[s \ {Max(s)}])  BY <2>5, <2>8, <3>1, Zenon
    <3>3. s \ {Max(s)} \in SUBSET (1 .. m) /\ m \notin s \ {Max(s)}  BY <2>8, Zenon
    <3>. QED  BY <3>2, <3>3, <2>8
  <2>9. f[{}] = {Root}
    <3>1. {} \in SUBSET (1 .. (m - 1)) /\ {} \in SUBSET (1 .. m)  OBVIOUS
    <3>. QED  BY <3>1, <2>5
  <2>10. f = Row(f, m)
    <3>1. \A s \in SUBSET (1 .. m) : f[s] = Row(f, m)[s]  BY <2>7, <2>8, <2>9, Zenon
    <3>2. f = [s \in SUBSET (1 .. m) |-> f[s]]  OBVIOUS
    <3>3. Row(f, m) = [s \in SUBSET (1 .. m) |-> Row(f, m)[s]]  OBVIOUS
    <3>. HIDE DEF f, Row
    <3>. QED  BY <3>1, <3>2, <3>3, Zenon
  <2>. QED  BY <2>10, <2>2, Zenon
<1>2. PICK f : /\ f = Row(f, n) /\ Reached = f[1 .. n]
  <2>1. Reached = (CHOOSE f : f = Row(f, n))[1 .. n]
    <3>1. DOMAIN [k \in Ino \ {0} |-> k] = 1 .. n  BY DEF Ino
    <3>. QED  BY <3>1, Zenon DEF Reached, FoldLeft, MapThenFoldSet, Wider
  <2>2. \E f : f = Row(f, n)
    <3>1. n \in Nat /\ n \notin Short  BY <1>1, Zenon
    <3>. QED  BY <3>1, Zenon
  <2>. QED  BY <2>1, <2>2, Zenon
<1>. DEFINE g == [k \in 0 .. n |-> f[1 .. k]]
<1>3. g[0] = {Root}
  <2>1. 1 .. 0 = {} /\ {} \in SUBSET (1 .. n)  OBVIOUS
  <2>. QED  BY <2>1, <1>2
<1>4. ASSUME NEW k \in 1 .. n PROVE g[k] = Wider(g[k - 1])
  <2>1. Max(1 .. k) = k  BY MaxOf
  <2>2. (1 .. k) \ {k} = 1 .. (k - 1)  OBVIOUS
  <2>3. 1 .. k \in SUBSET (1 .. n) /\ 1 .. k # {}
    <3>1. k \in Nat /\ 1 <= k /\ k <= n  OBVIOUS
    <3>2. k \in 1 .. k /\ \A x \in 1 .. k : x \in 1 .. n  BY <3>1
    <3>. QED  BY <3>2
  <2>4. f[1 .. k] = Wider(f[1 .. (k - 1)])  BY <1>2, <2>1, <2>2, <2>3, Zenon
  <2>. QED  BY <2>4
<1>5. n \in 0 .. n /\ g[n] = f[1 .. n]  OBVIOUS
<1>. HIDE DEF g
<1>. QED  BY <1>2, <1>3, <1>4, <1>5, Zenon

\* What can be reached is the least set that has the root and, with a
\* directory, what its entries lead to: as many rounds as there are inodes
\* beside the root are enough.
LEMMA ReachedLeast ==
  (\A i \in Ino : Named1(i) \subseteq Ino) =>
     /\ Root \in Reached /\ Reached \subseteq Ino
     /\ \A i \in Reached : Named1(i) \subseteq Reached
     /\ \A S : Root \in S /\ (\A i \in S : Named1(i) \subseteq S) => Reached \subseteq S
<1>. SUFFICES ASSUME \A i \in Ino : Named1(i) \subseteq Ino
     PROVE  /\ Root \in Reached /\ Reached \subseteq Ino
            /\ \A i \in Reached : Named1(i) \subseteq Reached
            /\ \A S : Root \in S /\ (\A i \in S : Named1(i) \subseteq S) => Reached \subseteq S
  OBVIOUS
<1>. DEFINE n == NumIno - 1
<1>0. n \in Nat /\ NumIno = n + 1 /\ Ino = 0 .. n /\ Root = 0  BY FileSystemOK DEF Ino, Root
<1>1. PICK g : /\ g[0] = {Root} /\ Reached = g[n]
               /\ \A k \in 1 .. n : g[k] = Wider(g[k - 1])
  BY RoundByRound
<1>. HIDE DEF n
<1>2. \A k \in 0 .. n : Root \in g[k] /\ g[k] \subseteq Ino
  <2>. DEFINE B == {k \in 0 .. n : ~ (Root \in g[k] /\ g[k] \subseteq Ino)}
  <2>1. B \subseteq 0 .. n /\ 0 \notin B  BY <1>0, <1>1
  <2>2. ASSUME NEW k \in 1 .. n, k - 1 \notin B PROVE k \notin B
    <3>1. k - 1 \in 0 .. n  BY <1>0
    <3>2. Root \in g[k - 1] /\ g[k - 1] \subseteq Ino  BY <2>2, <3>1
    <3>3. Root \in g[k] /\ g[k] \subseteq Ino  BY <1>1, <3>2 DEF Wider
    <3>. QED  BY <3>3
  <2>3. \A k \in 1 .. n : k \in B => k - 1 \in B  BY <2>2
  <2>. HIDE DEF B
  <2>4. B = {}  BY <1>0, <2>1, <2>3, NoFirst, Zenon
  <2>. QED  BY <2>4 DEF B
<1>3. ASSUME NEW S, Root \in S, \A i \in S : Named1(i) \subseteq S
      PROVE  \A k \in 0 .. n : g[k] \subseteq S
  <2>. DEFINE B == {k \in 0 .. n : ~ (g[k] \subseteq S)}
  <2>1. B \subseteq 0 .. n /\ 0 \notin B  BY <1>0, <1>1, <1>3
  <2>2. ASSUME NEW k \in 1 .. n, k - 1 \notin B PROVE k \notin B
    <3>1. k - 1 \in 0 .. n  BY <1>0
    <3>2. g[k - 1] \subseteq S  BY <2>2, <3>1
    <3>3. g[k] \subseteq S  BY <1>1, <1>3, <3>2 DEF Wider
    <3>. QED  BY <3>3
  <2>3. \A k \in 1 .. n : k \in B => k - 1 \in B  BY <2>2, Zenon
  <2>. HIDE DEF B
  <2>4. B = {}  BY <1>0, <2>1, <2>3, NoFirst, Zenon
  <2>. QED  BY <2>4 DEF B
<1>4. IsFiniteSet(Ino) /\ Cardinality(Ino) = n + 1
  <2>1. IsFiniteSet(0 .. n) /\ Cardinality(0 .. n) = IF 0 > n THEN 0 ELSE n - 0 + 1
    BY <1>0, FS_Interval
  <2>. QED  BY <1>0, <2>1
<1>5. \A k \in 0 .. n : IsFiniteSet(g[k]) /\ Cardinality(g[k]) \in Nat
  BY <1>2, <1>4, FS_Subset, FS_CardinalityType
<1>6. \A k \in 0 .. n : Cardinality(g[k]) >= k + 1 \/ Wider(g[k]) = g[k]
  <2>. DEFINE B == {k \in 0 .. n : ~ (Cardinality(g[k]) >= k + 1 \/ Wider(g[k]) = g[k])}
  <2>1. B \subseteq 0 .. n /\ 0 \notin B
    <3>1. Cardinality({Root}) = 1  BY FS_Singleton
    <3>2. Cardinality(g[0]) >= 0 + 1  BY <1>1, <3>1
    <3>. QED  BY <1>0, <3>2
  <2>2. ASSUME NEW k \in 1 .. n, k - 1 \notin B PROVE k \notin B
    <3>1. k - 1 \in 0 .. n /\ k \in 0 .. n /\ g[k] = Wider(g[k - 1])  BY <1>0, <1>1
    <3>2. Cardinality(g[k - 1]) >= k - 1 + 1 \/ Wider(g[k - 1]) = g[k - 1]  BY <2>2, <3>1
    <3>3. CASE Wider(g[k - 1]) = g[k - 1]  BY <3>1, <3>3
    <3>4. CASE Wider(g[k - 1]) # g[k - 1]
      <4>1. g[k - 1] \subseteq g[k] /\ g[k - 1] # g[k]  BY <3>1, <3>4 DEF Wider
      <4>2. IsFiniteSet(g[k])  BY <1>5, <3>1
      <4>3. /\ Cardinality(g[k - 1]) <= Cardinality(g[k])
            /\ Cardinality(g[k]) = Cardinality(g[k - 1]) => g[k] = g[k - 1]
        BY <4>1, <4>2, FS_Subset
      <4>4. Cardinality(g[k]) \in Nat /\ Cardinality(g[k - 1]) \in Nat  BY <1>5, <3>1
      <4>5. Cardinality(g[k]) >= k + 1  BY <3>2, <3>4, <4>1, <4>3, <4>4
      <4>. QED  BY <4>5
    <3>. QED  BY <3>3, <3>4
  <2>3. \A k \in 1 .. n : k \in B => k - 1 \in B  BY <2>2
  <2>. HIDE DEF B
  <2>4. B = {}  BY <1>0, <2>1, <2>3, NoFirst, Zenon
  <2>. QED  BY <2>4 DEF B
<1>7. n \in 0 .. n  BY <1>0
<1>8. Wider(g[n]) = g[n]
  <2>1. CASE Wider(g[n]) = g[n]  BY <2>1
  <2>2. CASE Cardinality(g[n]) >= n + 1
    <3>1. g[n] \subseteq Ino  BY <1>2, <1>7
    <3>2. /\ Cardinality(g[n]) <= Cardinality(Ino)
          /\ Cardinality(Ino) = Cardinality(g[n]) => Ino = g[n]
      BY <3>1, <1>4, FS_Subset
    <3>3. Cardinality(g[n]) \in Nat  BY <1>5, <1>7
    <3>4. Ino = g[n]  BY <3>2, <3>3, <2>2, <1>4, <1>0
    <3>. QED  BY <3>4 DEF Wider
  <2>. QED  BY <2>1, <2>2, <1>6, <1>7
<1>9. \A i \in Reached : Named1(i) \subseteq Reached  BY <1>1, <1>8 DEF Wider
<1>. QED  BY <1>1, <1>2, <1>3, <1>7, <1>9

-----------------------------------------------------------------------------
(* Cards, directories and the tree, for any card d.                        *)

Dentries == [mode : {"DIR", "FILE"}, ino : Ino, name : Name \cup {".", ".."}]
Inodes == [mode : {"DIR", "FILE"}, nlinks : Nat, n : Nat, block : {0} \cup Block]
Disks == [magic : BOOLEAN, imap : SUBSET Ino, bmap : SUBSET Block,
          inode : [Ino -> Inodes], data : [Block -> Seq(Dentries)]]

\* The entries of an inode, as Entries(i).
Buf(d, b) == IF b = 0 THEN <<>> ELSE d.data[b]
Cut(b, n) == SubSeq(b, 1, IF n <= Len(b) THEN n ELSE Len(b))
Ent(d, i) == Cut(Buf(d, d.inode[i].block), d.inode[i].n)
Folder(d, i) == d.inode[i].mode = "DIR"
Father(d, i) == Ent(d, i)[2].ino

\* The entries of a directory i: two of its own, and those it was given.
Given(es) == {es[k] : k \in 3 .. Len(es)}
Row(es, i) ==
  /\ es \in Seq(Dentries) /\ Len(es) >= 2
  /\ es[1] = Dentry("DIR", i, ".") /\ es[2].name = ".." /\ es[2].mode = "DIR"
  /\ \A k \in 3 .. Len(es) : es[k].name \in Name
  /\ \A j, k \in 3 .. Len(es) : es[j].name = es[k].name => j = k

\* The links in the directories of T, and those to one inode.
Kids(d, T) == {l \in T \X Dentries : Folder(d, l[1]) /\ l[2] \in Given(Ent(d, l[1]))}
To(K, i) == {l \in K : l[2].ino = i}

\* T hangs together by the links K.
Hang(d, T, K) ==
  /\ Root \in T /\ T \subseteq Ino /\ Folder(d, Root) /\ Father(d, Root) = Root
  /\ \A l \in K : /\ l[1] \in T /\ Folder(d, l[1])
                  /\ l[2].ino \in T \ {Root} /\ l[2].mode = d.inode[l[2].ino].mode
                  /\ Folder(d, l[2].ino) => /\ Father(d, l[2].ino) = l[1]
                                            /\ To(K, l[2].ino) = {l}
  /\ \A i \in T \ {Root} : To(K, i) # {}
  /\ \A S \in SUBSET T : Root \in S /\ (\A l \in K : l[1] \in S => l[2].ino \in S) => S = T

\* The inodes of T: in use, with blocks of their own, and files without entries.
Shape(d, T) ==
  \A i \in T : /\ i \in d.imap /\ d.inode[i].block \in d.bmap
               /\ \A j \in T : d.inode[j].block = d.inode[i].block => j = i
               /\ IF Folder(d, i) THEN Row(Ent(d, i), i) /\ Len(Ent(d, i)) = d.inode[i].n
                  ELSE d.inode[i].n = 0

Counts(d, T, K) ==
  /\ IsFiniteSet(K)
  /\ \A i \in T : d.inode[i].nlinks = IF Folder(d, i) THEN d.inode[i].n - 2
                                      ELSE Cardinality(To(K, i))

\* The entries of a directory are in one block.
Fits(d, T) == \A i \in T : Folder(d, i) => d.inode[i].n <= PerBlock

-----------------------------------------------------------------------------
(* Entries come and go. *)

LEMMA AppendRow ==
  ASSUME NEW i, NEW es, Row(es, i), NEW x \in Dentries, x.name \in Name,
         Named(es, x.name) = {}
  PROVE  /\ Row(Append(es, x), i) /\ Len(Append(es, x)) = Len(es) + 1
         /\ Given(Append(es, x)) = Given(es) \cup {x} /\ x \notin Given(es)
         /\ Append(es, x)[2] = es[2]
<1>. DEFINE fs == Append(es, x)
<1>1. PICK n \in Nat : n = Len(es) /\ n >= 2 /\ DOMAIN es = 1 .. n
  BY LenProperties DEF Row
<1>2. /\ fs \in Seq(Dentries) /\ Len(fs) = n + 1
      /\ \A k \in 1 .. n : fs[k] = es[k]
      /\ fs[n + 1] = x
  BY <1>1, AppendProperties DEF Row
<1>3. \A k \in 1 .. n : es[k].name # x.name  BY <1>1 DEF Named
<1>. HIDE DEF fs
<1>4. \A k \in 3 .. (n + 1) : k \in 3 .. n \/ k = n + 1  BY <1>1
<1>5. 1 \in 1 .. n /\ 2 \in 1 .. n /\ 3 .. n \subseteq 1 .. n /\ 3 .. n \subseteq 3 .. (n + 1)
      /\ n + 1 \in 3 .. (n + 1)
  BY <1>1
<1>6. Row(fs, i)
  <2>1. \A k \in 3 .. (n + 1) : fs[k].name \in Name  BY <1>1, <1>2, <1>4, <1>5 DEF Row
  <2>2. \A j, k \in 3 .. (n + 1) : fs[j].name = fs[k].name => j = k
    BY <1>1, <1>2, <1>3, <1>4, <1>5 DEF Row
  <2>3. Len(fs) >= 2  BY <1>1, <1>2
  <2>. QED  BY <1>1, <1>2, <1>5, <2>1, <2>2, <2>3 DEF Row
<1>7. Given(fs) = Given(es) \cup {x}
  <2>1. \A y \in Given(fs) : y \in Given(es) \cup {x}  BY <1>1, <1>2, <1>4, <1>5 DEF Given
  <2>2. \A y \in Given(es) : y \in Given(fs)  BY <1>1, <1>2, <1>5 DEF Given
  <2>3. x \in Given(fs)  BY <1>2, <1>5 DEF Given
  <2>. QED  BY <2>1, <2>2, <2>3
<1>8. x \notin Given(es)  BY <1>1, <1>3, <1>5 DEF Given
<1>. QED  BY <1>1, <1>2, <1>5, <1>6, <1>7, <1>8 DEF fs

Without(es, k) == [j \in 1 .. (Len(es) - 1) |-> IF j >= k THEN es[j + 1] ELSE es[j]]
Dropped(es, fs, i, k) ==
  /\ Row(fs, i) /\ Len(fs) = Len(es) - 1
  /\ Given(fs) = Given(es) \ {es[k]} /\ es[k] \in Given(es)
  /\ fs[2] = es[2]
LEMMA DropRow ==
  ASSUME NEW i, NEW es, Row(es, i), NEW k, k \in 3 .. Len(es)
  PROVE  Dropped(es, Without(es, k), i, k)
<1>. PICK fs : fs = Without(es, k)  OBVIOUS
<1>1. PICK n \in Nat : n = Len(es) /\ n >= 3 /\ DOMAIN es = 1 .. n
  <2>1. Len(es) \in Nat /\ DOMAIN es = 1 .. Len(es)  BY LenProperties DEF Row
  <2>2. Len(es) >= 3  BY <2>1
  <2>. QED  BY <2>1, <2>2, Zenon
<1>2. k \in Nat /\ 3 <= k /\ k <= n /\ n - 1 \in Nat  BY <1>1
<1>3. /\ \A j \in 1 .. (n - 1) : fs[j] = IF j >= k THEN es[j + 1] ELSE es[j]
      /\ DOMAIN fs = 1 .. (n - 1) /\ fs = [j \in DOMAIN fs |-> fs[j]]
  BY <1>1 DEF Without
<1>4. \A j \in 1 .. n : es[j] \in Dentries  BY <1>1, ElementOfSeq DEF Row
<1>5. fs \in Seq(Dentries) /\ Len(fs) = n - 1
  <2>1. \A j \in 1 .. (n - 1) : fs[j] \in Dentries
    <3>1. \A j \in 1 .. (n - 1) : j \in 1 .. n /\ j + 1 \in 1 .. n  BY <1>1
    <3>. QED  BY <3>1, <1>3, <1>4
  <2>2. fs \in [1 .. (n - 1) -> Dentries]  BY <2>1, <1>3
  <2>3. fs \in Seq(Dentries)  BY <2>2, <1>2, SeqDef
  <2>. QED  BY <2>2, <2>3, <1>2, LenProperties
<1>6. \A j \in 3 .. (n - 1) : \E m \in 3 .. n :
          fs[j] = es[m] /\ m # k /\ m = (IF j >= k THEN j + 1 ELSE j)
  <2>. TAKE j \in 3 .. (n - 1)
  <2>1. j \in 1 .. (n - 1) /\ j \in Nat  BY <1>1
  <2>2. CASE j >= k
    <3>1. j + 1 \in 3 .. n /\ j + 1 # k  BY <2>1, <2>2, <1>1, <1>2
    <3>. QED  BY <3>1, <2>1, <2>2, <1>3
  <2>3. CASE ~ (j >= k)
    <3>1. j \in 3 .. n /\ j # k  BY <2>1, <2>3, <1>1, <1>2
    <3>. QED  BY <3>1, <2>1, <2>3, <1>3
  <2>. QED  BY <2>2, <2>3
<1>7. \A m \in 3 .. n : m # k => \E j \in 3 .. (n - 1) : fs[j] = es[m]
  <2>. TAKE m \in 3 .. n
  <2>1. CASE m < k
    <3>1. m \in 3 .. (n - 1) /\ m \in 1 .. (n - 1) /\ ~ (m >= k)  BY <2>1, <1>1, <1>2
    <3>. QED  BY <3>1, <1>3
  <2>2. CASE m > k
    <3>1. m - 1 \in 3 .. (n - 1) /\ m - 1 \in 1 .. (n - 1) /\ m - 1 >= k /\ m - 1 + 1 = m
      BY <2>2, <1>1, <1>2
    <3>. QED  BY <3>1, <1>3
  <2>3. m < k \/ m > k \/ m = k  BY <1>2
  <2>. QED  BY <2>1, <2>2, <2>3
<1>8. Row(fs, i) /\ fs[2] = es[2]
  <2>1. 1 \in 1 .. (n - 1) /\ 2 \in 1 .. (n - 1) /\ ~ (1 >= k) /\ ~ (2 >= k) /\ n - 1 >= 2
    BY <1>1, <1>2
  <2>2. fs[1] = es[1] /\ fs[2] = es[2]  BY <2>1, <1>3, Zenon
  <2>3. \A j \in 3 .. (n - 1) : fs[j].name \in Name  BY <1>1, <1>6 DEF Row
  <2>4. ASSUME NEW j \in 3 .. (n - 1), NEW m \in 3 .. (n - 1), fs[j].name = fs[m].name
        PROVE  j = m
    <3>1. PICK a \in 3 .. n : fs[j] = es[a] /\ a = (IF j >= k THEN j + 1 ELSE j)  BY <1>6
    <3>2. PICK b \in 3 .. n : fs[m] = es[b] /\ b = (IF m >= k THEN m + 1 ELSE m)  BY <1>6
    <3>3. a = b  BY <3>1, <3>2, <2>4, <1>1 DEF Row
    <3>4. j \in Nat /\ m \in Nat  BY <1>2
    <3>. QED  BY <3>1, <3>2, <3>3, <3>4, <1>2
  <2>. QED  BY <2>1, <2>2, <2>3, <2>4, <1>5 DEF Row
<1>9. Given(fs) = Given(es) \ {es[k]}
  <2>1. \A m \in 3 .. n : es[m] = es[k] => m = k  BY <1>1 DEF Row
  <2>2. \A y \in Given(fs) : y \in Given(es) \ {es[k]}  BY <1>1, <1>5, <1>6, <2>1 DEF Given
  <2>3. ASSUME NEW y \in Given(es), y # es[k] PROVE y \in Given(fs)
    <3>1. PICK m \in 3 .. n : y = es[m]  BY <1>1 DEF Given
    <3>2. m # k  BY <3>1, <2>3
    <3>3. PICK j \in 3 .. (n - 1) : fs[j] = es[m]  BY <3>2, <1>7
    <3>. QED  BY <3>1, <3>3, <1>5 DEF Given
  <2>. QED  BY <2>2, <2>3
<1>10. es[k] \in Given(es)  BY DEF Given
<1>11. Dropped(es, fs, i, k)  BY <1>1, <1>5, <1>8, <1>9, <1>10 DEF Dropped
<1>. QED  BY <1>11

-----------------------------------------------------------------------------
(* Links come and go. *)

\* Kinds and fathers of the inodes of T are the same on both cards.
Alike(d, e, T) ==
  \A i \in T : /\ e.inode[i].mode = d.inode[i].mode
               /\ Folder(d, i) => Father(e, i) = Father(d, i)

\* A name for a new inode, or one more for a file.
Comes(d, e, T, K, c, f, x) ==
  /\ Hang(d, T, K) /\ Alike(d, e, T)
  /\ c \in T /\ Folder(d, c) /\ x \in Ino \ {Root} /\ f.ino = x
  /\ f.mode = e.inode[x].mode /\ (x \notin T \/ ~ Folder(e, x))
  /\ Folder(e, x) => Father(e, x) = c

LEMMA HangAdd ==
  ASSUME NEW d, NEW e, NEW T, NEW K, NEW c, NEW f, NEW x, Comes(d, e, T, K, c, f, x)
  PROVE  /\ Hang(e, T \cup {x}, K \cup {<<c, f>>})
         /\ \A i \in T \ {x} : To(K \cup {<<c, f>>}, i) = To(K, i)
         /\ To(K \cup {<<c, f>>}, x) = To(K, x) \cup {<<c, f>>}
         /\ x \notin T => To(K, x) = {}
<1>. DEFINE U == T \cup {x}
            L == K \cup {<<c, f>>}
<1>. /\ Hang(d, T, K) /\ Alike(d, e, T)
     /\ c \in T /\ Folder(d, c) /\ x \in Ino \ {Root} /\ f.ino = x
     /\ f.mode = e.inode[x].mode /\ (x \notin T \/ ~ Folder(e, x))
     /\ Folder(e, x) => Father(e, x) = c
  BY DEF Comes
<1>1. /\ Root \in T /\ T \subseteq Ino /\ Folder(d, Root) /\ Father(d, Root) = Root
      /\ \A i \in T \ {Root} : To(K, i) # {}
  BY DEF Hang
<1>2. \A l \in K : /\ l[1] \in T /\ Folder(d, l[1])
                   /\ l[2].ino \in T \ {Root} /\ l[2].mode = d.inode[l[2].ino].mode
                   /\ Folder(d, l[2].ino) => /\ Father(d, l[2].ino) = l[1]
                                             /\ To(K, l[2].ino) = {l}
  BY Zenon DEF Hang
<1>3. \A i \in T : /\ Folder(e, i) <=> Folder(d, i)
                   /\ e.inode[i].mode = d.inode[i].mode
                   /\ Folder(d, i) => Father(e, i) = Father(d, i)
  BY DEF Alike, Folder
<1>4. <<c, f>>[1] = c /\ <<c, f>>[2] = f  OBVIOUS
<1>5. \A i : i # x => To(L, i) = To(K, i)  BY <1>4 DEF To
<1>6. To(L, x) = To(K, x) \cup {<<c, f>>}  BY <1>4 DEF To
<1>7. x \notin T => To(K, x) = {}  BY <1>2 DEF To
<1>. HIDE DEF L
<1>8. ASSUME NEW l \in L
      PROVE  /\ l[1] \in U /\ Folder(e, l[1])
             /\ l[2].ino \in U \ {Root} /\ l[2].mode = e.inode[l[2].ino].mode
             /\ Folder(e, l[2].ino) => Father(e, l[2].ino) = l[1] /\ To(L, l[2].ino) = {l}
  <2>1. CASE l \in K
    <3>1. l[1] \in T /\ Folder(d, l[1]) /\ l[2].ino \in T \ {Root}  BY <2>1, <1>2
    <3>2. Folder(e, l[2].ino) => l[2].ino # x  BY <3>1
    <3>. QED  BY <2>1, <3>1, <3>2, <1>2, <1>3, <1>5
  <2>2. CASE l = <<c, f>>
    <3>1. l[1] = c /\ l[2] = f  BY <2>2
    <3>2. Folder(e, x) => To(L, x) = {l}  BY <2>2, <1>6, <1>7
    <3>. QED  BY <3>1, <3>2, <1>3
  <2>. QED  BY <2>1, <2>2 DEF L
<1>9. \A i \in U \ {Root} : To(L, i) # {}  BY <1>1, <1>5, <1>6, Zenon
<1>10. ASSUME NEW S \in SUBSET U, Root \in S, \A l \in L : l[1] \in S => l[2].ino \in S
       PROVE  S = U
  <2>1. \A l \in K : l[1] \in S \cap T => l[2].ino \in S \cap T  BY <1>2, <1>10 DEF L
  <2>2. S \cap T \in SUBSET T /\ Root \in S \cap T  BY <1>1, <1>10
  <2>3. S \cap T = T  BY <2>1, <2>2, Zenon DEF Hang
  <2>4. <<c, f>> \in L  BY DEF L
  <2>5. x \in S  BY <2>3, <2>4, <1>4, <1>10
  <2>. QED  BY <2>3, <2>5
<1>11. Hang(e, U, L)
  <2>1. Root \in U /\ U \subseteq Ino /\ Folder(e, Root) /\ Father(e, Root) = Root
    BY <1>1, <1>3
  <2>. HIDE DEF U
  <2>. QED  BY <2>1, <1>8, <1>9, <1>10, Zenon DEF Hang
<1>. QED  BY <1>5, <1>6, <1>7, <1>11, Zenon DEF L

\* A name goes, of a file or of a directory without entries; with its last
\* name the inode leaves the tree.
Goes(d, e, T, K, c, f, x, U) ==
  /\ Hang(d, T, K) /\ Alike(d, e, T)
  /\ <<c, f>> \in K /\ x = f.ino /\ \A l \in K : l[1] # x
  /\ U = IF To(K, x) = {<<c, f>>} THEN T \ {x} ELSE T

LEMMA HangDrop ==
  ASSUME NEW d, NEW e, NEW T, NEW K, NEW c, NEW f, NEW x, NEW U, Goes(d, e, T, K, c, f, x, U)
  PROVE  /\ Hang(e, U, K \ {<<c, f>>})
         /\ \A i \in T \ {x} : To(K \ {<<c, f>>}, i) = To(K, i)
         /\ To(K \ {<<c, f>>}, x) = To(K, x) \ {<<c, f>>}
         /\ x \in T \ {Root} /\ c \in U /\ <<c, f>> \in To(K, x)
<1>. DEFINE L == K \ {<<c, f>>}
<1>. /\ Hang(d, T, K) /\ Alike(d, e, T)
     /\ <<c, f>> \in K /\ x = f.ino /\ \A l \in K : l[1] # x
     /\ U = IF To(K, x) = {<<c, f>>} THEN T \ {x} ELSE T
  BY DEF Goes
<1>1. /\ Root \in T /\ T \subseteq Ino /\ Folder(d, Root) /\ Father(d, Root) = Root
      /\ \A i \in T \ {Root} : To(K, i) # {}
  BY DEF Hang
<1>2. \A l \in K : /\ l[1] \in T /\ Folder(d, l[1])
                   /\ l[2].ino \in T \ {Root} /\ l[2].mode = d.inode[l[2].ino].mode
                   /\ Folder(d, l[2].ino) => /\ Father(d, l[2].ino) = l[1]
                                             /\ To(K, l[2].ino) = {l}
  BY Zenon DEF Hang
<1>3. \A i \in T : /\ Folder(e, i) <=> Folder(d, i)
                   /\ e.inode[i].mode = d.inode[i].mode
                   /\ Folder(d, i) => Father(e, i) = Father(d, i)
  BY DEF Alike, Folder
<1>4. <<c, f>>[1] = c /\ <<c, f>>[2] = f  OBVIOUS
<1>5. \A i : i # x => To(L, i) = To(K, i)  BY <1>4 DEF To
<1>6. To(L, x) = To(K, x) \ {<<c, f>>} /\ <<c, f>> \in To(K, x)  BY <1>4 DEF To
<1>7. x \in T \ {Root} /\ c \in T \ {x}  BY <1>2, <1>4
<1>. HIDE DEF L
<1>8. ASSUME NEW l \in L
      PROVE  /\ l[1] \in U /\ Folder(e, l[1])
             /\ l[2].ino \in U \ {Root} /\ l[2].mode = e.inode[l[2].ino].mode
             /\ Folder(e, l[2].ino) => Father(e, l[2].ino) = l[1] /\ To(L, l[2].ino) = {l}
  <2>1. l \in K /\ l # <<c, f>>  BY DEF L
  <2>2. l[1] \in T \ {x} /\ Folder(d, l[1]) /\ l[2].ino \in T \ {Root}  BY <2>1, <1>2
  <2>3. l[2].ino = x => l \in To(K, x)  BY <2>1 DEF To
  <2>4. l[2].ino \in U  BY <2>1, <2>2, <2>3
  <2>5. ASSUME Folder(e, l[2].ino) PROVE l[2].ino # x
    <3>1. SUFFICES ASSUME l[2].ino = x PROVE FALSE  OBVIOUS
    <3>2. Folder(d, x)  BY <2>2, <2>5, <3>1, <1>3
    <3>3. To(K, x) = {l} /\ To(K, x) = {<<c, f>>}  BY <2>1, <3>1, <3>2, <1>2, <1>4
    <3>. QED  BY <3>3, <2>1
  <2>. QED  BY <2>1, <2>2, <2>4, <2>5, <1>2, <1>3, <1>5, Zenon
<1>9. \A i \in U \ {Root} : To(L, i) # {}  BY <1>1, <1>5, <1>6
<1>10. ASSUME NEW S \in SUBSET U, Root \in S, \A l \in L : l[1] \in S => l[2].ino \in S
       PROVE  S = U
  <2>1. \A l \in K : l[1] \in S \cup {x} => l[2].ino \in S \cup {x}  BY <1>4, <1>10 DEF L
  <2>2. S \cup {x} \in SUBSET T /\ Root \in S \cup {x}  BY <1>7, <1>10
  <2>3. S \cup {x} = T  BY <2>1, <2>2, Zenon DEF Hang
  <2>4. CASE To(K, x) = {<<c, f>>}  BY <2>3, <2>4
  <2>5. CASE To(K, x) # {<<c, f>>}
    <3>1. PICK l \in To(K, x) : l # <<c, f>>  BY <2>5, <1>6
    <3>2. l \in L /\ l[2].ino = x /\ l[1] \in T \ {x}  BY <3>1, <1>2 DEF L, To
    <3>3. x \in S  BY <3>2, <2>3, <1>10
    <3>. QED  BY <3>3, <2>3, <2>5
  <2>. QED  BY <2>4, <2>5
<1>11. Hang(e, U, L)
  <2>1. Root \in U /\ U \subseteq Ino /\ Folder(e, Root) /\ Father(e, Root) = Root
    BY <1>1, <1>3, <1>7
  <2>. QED  BY <2>1, <1>8, <1>9, <1>10, Zenon DEF Hang
<1>. QED  BY <1>5, <1>6, <1>7, <1>11, Zenon DEF L

-----------------------------------------------------------------------------
(* Calls, as changes of the card and of the tree. *)

Good(d, T) ==
  /\ d \in Disks /\ d.magic
  /\ Shape(d, T) /\ Hang(d, T, Kids(d, T)) /\ Counts(d, T, Kids(d, T)) /\ Fits(d, T)
  /\ Cardinality(d.bmap) <= Cardinality(d.imap)

Agree(d, e, i) == e.inode[i] = d.inode[i] /\ Ent(e, i) = Ent(d, i)

LEMMA DiskTypes ==
  ASSUME NEW d \in Disks
  PROVE  /\ IsFiniteSet(d.imap) /\ IsFiniteSet(d.bmap)
         /\ Cardinality(d.imap) \in Nat /\ Cardinality(d.bmap) \in Nat
         /\ d.imap \subseteq Ino /\ d.bmap \subseteq Block
         /\ \A i \in Ino : /\ d.inode[i] \in Inodes /\ d.inode[i].nlinks \in Nat
                           /\ d.inode[i].n \in Nat /\ d.inode[i].mode \in {"DIR", "FILE"}
                           /\ d.inode[i].block \in {0} \cup Block
<1>1. d.imap \subseteq Ino /\ d.bmap \subseteq Block /\ d.inode \in [Ino -> Inodes]  BY DEF Disks
<1>2. IsFiniteSet(Ino) /\ IsFiniteSet(Block)
  <2>1. NumIno - 1 \in Int /\ NumBlock \in Int /\ 0 \in Int /\ 1 \in Int  BY FileSystemOK
  <2>. QED  BY <2>1, FS_Interval DEF Ino, Block
<1>3. IsFiniteSet(d.imap) /\ IsFiniteSet(d.bmap)  BY <1>1, <1>2, FS_Subset
<1>4. Cardinality(d.imap) \in Nat /\ Cardinality(d.bmap) \in Nat  BY <1>3, FS_CardinalityType
<1>5. \A i \in Ino : d.inode[i] \in Inodes  BY <1>1
<1>. QED  BY <1>1, <1>3, <1>4, <1>5 DEF Inodes

\* The links after a name has come: in c, for x, which has no entries.
LEMMA KidsAdd ==
  ASSUME NEW d, NEW e, NEW T, NEW c \in T, NEW x, NEW f \in Dentries,
         \A i \in T \ {c, x} : Agree(d, e, i), Folder(d, c), Folder(e, c),
         Given(Ent(e, c)) = Given(Ent(d, c)) \cup {f},
         Folder(e, x) => Given(Ent(e, x)) = {}, x \notin T \/ ~ Folder(d, x), x # c
  PROVE  Kids(e, T \cup {x}) = Kids(d, T) \cup {<<c, f>>}
<1>1. \A i \in T \ {c, x} : (Folder(e, i) <=> Folder(d, i)) /\ Ent(e, i) = Ent(d, i)
  BY DEF Agree, Folder
<1>2. ASSUME NEW i \in T \cup {x}, NEW g \in Dentries
      PROVE  <<i, g>> \in Kids(e, T \cup {x}) <=> <<i, g>> \in Kids(d, T) \cup {<<c, f>>}
  <2>1. <<i, g>> \in Kids(e, T \cup {x}) <=> Folder(e, i) /\ g \in Given(Ent(e, i))
    BY DEF Kids
  <2>2. <<i, g>> \in Kids(d, T) <=> i \in T /\ Folder(d, i) /\ g \in Given(Ent(d, i))
    BY DEF Kids
  <2>3. <<i, g>> = <<c, f>> <=> i = c /\ g = f  OBVIOUS
  <2>4. CASE i = c  BY <2>1, <2>2, <2>3, <2>4
  <2>5. CASE i = x  BY <2>1, <2>2, <2>3, <2>5
  <2>6. CASE i # c /\ i # x  BY <2>1, <2>2, <2>3, <2>6, <1>1
  <2>. QED  BY <2>4, <2>5, <2>6
<1>3. Kids(e, T \cup {x}) \subseteq (T \cup {x}) \X Dentries
      /\ Kids(d, T) \cup {<<c, f>>} \subseteq (T \cup {x}) \X Dentries
  BY DEF Kids
<1>4. ASSUME NEW l \in (T \cup {x}) \X Dentries
      PROVE  l \in Kids(e, T \cup {x}) <=> l \in Kids(d, T) \cup {<<c, f>>}
  <2>1. l = <<l[1], l[2]>> /\ l[1] \in T \cup {x} /\ l[2] \in Dentries  OBVIOUS
  <2>. QED  BY <2>1, <1>2
<1>. QED  BY <1>3, <1>4

\* The links after a name has gone from c, of x, which has no entries.
Loses(d, e, T, c, x, f, U) ==
  /\ c \in T /\ \A i \in T \ {c, x} : Agree(d, e, i)
  /\ Folder(d, c) /\ Folder(e, c) /\ x # c
  /\ Given(Ent(e, c)) = Given(Ent(d, c)) \ {f}
  /\ Folder(d, x) => Given(Ent(d, x)) = {}
  /\ U = T \ {x} \/ (U = T /\ ~ Folder(e, x) /\ ~ Folder(d, x))
LEMMA KidsDrop ==
  ASSUME NEW d, NEW e, NEW T, NEW c, NEW x, NEW f, NEW U, Loses(d, e, T, c, x, f, U)
  PROVE  Kids(e, U) = Kids(d, T) \ {<<c, f>>}
<1>. /\ c \in T /\ \A i \in T \ {c, x} : Agree(d, e, i)
     /\ Folder(d, c) /\ Folder(e, c) /\ x # c
     /\ Given(Ent(e, c)) = Given(Ent(d, c)) \ {f}
     /\ Folder(d, x) => Given(Ent(d, x)) = {}
     /\ U = T \ {x} \/ (U = T /\ ~ Folder(e, x) /\ ~ Folder(d, x))
  BY DEF Loses
<1>1. \A i \in T \ {c, x} : (Folder(e, i) <=> Folder(d, i)) /\ Ent(e, i) = Ent(d, i)
  BY DEF Agree, Folder
<1>2. ASSUME NEW i \in T, NEW g \in Dentries
      PROVE  <<i, g>> \in Kids(e, U) <=> <<i, g>> \in Kids(d, T) \ {<<c, f>>}
  <2>1. <<i, g>> \in Kids(e, U) <=> i \in U /\ Folder(e, i) /\ g \in Given(Ent(e, i))
    BY DEF Kids
  <2>2. <<i, g>> \in Kids(d, T) <=> Folder(d, i) /\ g \in Given(Ent(d, i))
    BY DEF Kids
  <2>3. <<i, g>> = <<c, f>> <=> i = c /\ g = f  OBVIOUS
  <2>4. CASE i = c  BY <2>1, <2>2, <2>3, <2>4
  <2>5. CASE i = x  BY <2>1, <2>2, <2>3, <2>5
  <2>6. CASE i # c /\ i # x  BY <2>1, <2>2, <2>3, <2>6, <1>1
  <2>. QED  BY <2>4, <2>5, <2>6
<1>3. Kids(e, U) \subseteq T \X Dentries /\ Kids(d, T) \ {<<c, f>>} \subseteq T \X Dentries
  BY DEF Kids
<1>. QED  BY <1>2, <1>3

\* What the two inodes of a new name are on the new card.
Grows(d, e, c, f) ==
  /\ e.inode[c] = [d.inode[c] EXCEPT !.nlinks = @ + 1, !.n = @ + 1]
  /\ Ent(e, c) = Append(Ent(d, c), f)

LEMMA Growing ==
  ASSUME NEW d \in Disks, NEW e, NEW T, Shape(d, T), Hang(d, T, Kids(d, T)), NEW c \in T,
         Folder(d, c), NEW f \in Dentries, f.name \in Name,
         Named(Ent(d, c), f.name) = {}, Grows(d, e, c, f)
  PROVE  /\ Row(Ent(e, c), c) /\ Len(Ent(e, c)) = e.inode[c].n
         /\ Given(Ent(e, c)) = Given(Ent(d, c)) \cup {f} /\ <<c, f>> \notin Kids(d, T)
         /\ Folder(e, c) /\ Father(e, c) = Father(d, c)
         /\ e.inode[c].mode = d.inode[c].mode /\ e.inode[c].block = d.inode[c].block
         /\ e.inode[c].nlinks = d.inode[c].nlinks + 1 /\ e.inode[c].n = d.inode[c].n + 1
<1>1. c \in Ino /\ d.inode[c] \in Inodes  BY DiskTypes DEF Hang
<1>2. /\ e.inode[c].mode = d.inode[c].mode /\ e.inode[c].block = d.inode[c].block
      /\ e.inode[c].nlinks = d.inode[c].nlinks + 1 /\ e.inode[c].n = d.inode[c].n + 1
  BY <1>1 DEF Grows, Inodes
<1>3. Row(Ent(d, c), c) /\ Len(Ent(d, c)) = d.inode[c].n  BY DEF Shape
<1>4. /\ Row(Ent(e, c), c) /\ Len(Ent(e, c)) = d.inode[c].n + 1
      /\ Given(Ent(e, c)) = Given(Ent(d, c)) \cup {f} /\ f \notin Given(Ent(d, c))
      /\ Ent(e, c)[2] = Ent(d, c)[2]
  <2>. DEFINE es == Ent(d, c)
  <2>1. Ent(e, c) = Append(es, f)  BY DEF Grows
  <2>2. Row(es, c) /\ Len(es) = d.inode[c].n /\ Named(es, f.name) = {}  BY <1>3
  <2>. SUFFICES /\ Row(Ent(e, c), c) /\ Len(Ent(e, c)) = d.inode[c].n + 1
                /\ Given(Ent(e, c)) = Given(es) \cup {f} /\ f \notin Given(es)
                /\ Ent(e, c)[2] = es[2]
    OBVIOUS
  <2>. HIDE DEF es
  <2>3. /\ Row(Append(es, f), c) /\ Len(Append(es, f)) = Len(es) + 1
        /\ Given(Append(es, f)) = Given(es) \cup {f} /\ f \notin Given(es)
        /\ Append(es, f)[2] = es[2]
    BY <2>2, AppendRow, Zenon
  <2>. QED  BY <2>1, <2>2, <2>3
<1>5. <<c, f>> \notin Kids(d, T)  BY <1>4 DEF Kids
<1>. QED  BY <1>2, <1>4, <1>5 DEF Folder, Father

\* do_mkdir and do_touch: x is a new directory or file in c, with the block b.
Creates(d, e, T, c, x, b, f) ==
  /\ c \in T /\ Folder(d, c) /\ x \in Ino \ d.imap /\ b \in Block \ d.bmap
  /\ f \in Dentries /\ f.ino = x /\ f.name \in Name /\ Named(Ent(d, c), f.name) = {}
  /\ d.inode[c].n < PerBlock
  /\ e \in Disks /\ e.magic /\ e.imap = d.imap \cup {x} /\ e.bmap = d.bmap \cup {b}
  /\ \A i \in T \ {c} : Agree(d, e, i)
  /\ Grows(d, e, c, f)
  /\ e.inode[x].mode = f.mode /\ e.inode[x].block = b
  /\ f.mode = "DIR" => /\ e.inode[x].nlinks = 0 /\ e.inode[x].n = 2
                       /\ Ent(e, x) = <<Dentry("DIR", x, "."), Dentry("DIR", c, "..")>>
  /\ f.mode = "FILE" => e.inode[x].nlinks = 1 /\ e.inode[x].n = 0

\* The entries of a new directory.
LEMMA NewRow ==
  ASSUME NEW x \in Ino, NEW c \in Ino,
         NEW es, es = <<Dentry("DIR", x, "."), Dentry("DIR", c, "..")>>
  PROVE  Row(es, x) /\ Len(es) = 2 /\ Given(es) = {} /\ es[2].ino = c
<1>1. Dentry("DIR", x, ".") \in Dentries /\ Dentry("DIR", c, "..") \in Dentries
  BY DEF Dentry, Dentries
<1>2. es \in Seq(Dentries) /\ Len(es) = 2  BY <1>1
<1>3. es[1] = Dentry("DIR", x, ".") /\ es[2] = Dentry("DIR", c, "..")  OBVIOUS
<1>4. 3 .. 2 = {}  OBVIOUS
<1>5. es[2].name = ".." /\ es[2].mode = "DIR" /\ es[2].ino = c  BY <1>3 DEF Dentry
<1>. HIDE DEF Row
<1>6. Given(es) = {}  BY <1>2, <1>4 DEF Given
<1>7. 2 >= 2  OBVIOUS
<1>8. Row(es, x)
  <2>1. \A k \in 3 .. Len(es) : FALSE  BY <1>2, <1>4
  <2>. QED  BY <1>2, <1>3, <1>5, <1>7, <2>1 DEF Row
<1>. QED  BY <1>2, <1>5, <1>6, <1>8

LEMMA NewAdded ==
  ASSUME NEW d, NEW e, NEW T, Good(d, T), NEW c, NEW x, NEW b, NEW f,
         Creates(d, e, T, c, x, b, f)
  PROVE  Good(e, T \cup {x})
<1>. DEFINE U == T \cup {x}
            K == Kids(d, T)
            L == K \cup {<<c, f>>}
<1>1. /\ d \in Disks /\ Shape(d, T) /\ Hang(d, T, K) /\ Counts(d, T, K)
      /\ Cardinality(d.bmap) <= Cardinality(d.imap)
  BY DEF Good
<1>2. /\ c \in T /\ Folder(d, c) /\ x \in Ino \ d.imap /\ b \in Block \ d.bmap
      /\ f \in Dentries /\ f.ino = x /\ f.name \in Name /\ Named(Ent(d, c), f.name) = {}
      /\ e \in Disks /\ e.magic /\ e.imap = d.imap \cup {x} /\ e.bmap = d.bmap \cup {b}
  BY DEF Creates
<1>3. /\ \A i \in T \ {c} : Agree(d, e, i)
      /\ Grows(d, e, c, f)
      /\ e.inode[x].mode = f.mode /\ e.inode[x].block = b
  BY DEF Creates
<1>4. /\ T \subseteq d.imap /\ T \subseteq Ino /\ Root \in T /\ x \notin T
      /\ \A i \in T : d.inode[i].block \in d.bmap
  BY <1>1, <1>2 DEF Shape, Hang
<1>5. x # c /\ c \in Ino /\ x \in Ino \ {Root}  BY <1>2, <1>4
<1>6. f.mode \in {"DIR", "FILE"}  BY <1>2 DEF Dentries
<1>7. /\ Row(Ent(e, c), c) /\ Len(Ent(e, c)) = e.inode[c].n
      /\ Given(Ent(e, c)) = Given(Ent(d, c)) \cup {f} /\ <<c, f>> \notin K
      /\ Folder(e, c) /\ Father(e, c) = Father(d, c)
      /\ e.inode[c].mode = d.inode[c].mode /\ e.inode[c].block = d.inode[c].block
      /\ e.inode[c].nlinks = d.inode[c].nlinks + 1 /\ e.inode[c].n = d.inode[c].n + 1
  BY <1>1, <1>2, <1>3, Growing
<1>8. Folder(e, x) => /\ Row(Ent(e, x), x) /\ Len(Ent(e, x)) = 2 /\ Given(Ent(e, x)) = {}
                      /\ Father(e, x) = c /\ e.inode[x].n = 2 /\ e.inode[x].nlinks = 0
  <2>1. SUFFICES ASSUME Folder(e, x)
                 PROVE  /\ Row(Ent(e, x), x) /\ Len(Ent(e, x)) = 2 /\ Given(Ent(e, x)) = {}
                        /\ Father(e, x) = c /\ e.inode[x].n = 2 /\ e.inode[x].nlinks = 0
    OBVIOUS
  <2>2. f.mode = "DIR"  BY <2>1, <1>3 DEF Folder
  <2>3. /\ Ent(e, x) = <<Dentry("DIR", x, "."), Dentry("DIR", c, "..")>>
        /\ e.inode[x].n = 2 /\ e.inode[x].nlinks = 0
    BY <2>2 DEF Creates
  <2>. DEFINE es == Ent(e, x)
  <2>4. es = <<Dentry("DIR", x, "."), Dentry("DIR", c, "..")>>  BY <2>3
  <2>. HIDE DEF es
  <2>5. Row(es, x) /\ Len(es) = 2 /\ Given(es) = {} /\ es[2].ino = c
    BY <2>4, <1>5, NewRow
  <2>. QED  BY <2>3, <2>5 DEF es, Father
<1>9. ~ Folder(e, x) => e.inode[x].n = 0 /\ e.inode[x].nlinks = 1
  BY <1>3, <1>6 DEF Folder, Creates
<1>10. \A i \in T \ {c} : e.inode[i] = d.inode[i] /\ Ent(e, i) = Ent(d, i)
  BY <1>3 DEF Agree
<1>11. Alike(d, e, T)  BY <1>7, <1>10 DEF Alike, Father
<1>12. /\ Hang(e, U, L)
       /\ \A i \in T \ {x} : To(L, i) = To(K, i)
       /\ To(L, x) = To(K, x) \cup {<<c, f>>} /\ To(K, x) = {}
  <2>. HIDE DEF K
  <2>1. f.mode = e.inode[x].mode /\ (Folder(e, x) => Father(e, x) = c)  BY <1>3, <1>8
  <2>2. /\ Hang(e, U, L)
        /\ \A i \in T \ {x} : To(L, i) = To(K, i)
        /\ To(L, x) = To(K, x) \cup {<<c, f>>}
        /\ x \notin T => To(K, x) = {}
    <3>1. Comes(d, e, T, K, c, f, x)  BY <1>1, <1>2, <1>4, <1>5, <1>11, <2>1 DEF Comes
    <3>. QED  BY <3>1, HangAdd, Zenon
  <2>. QED  BY <2>2, <1>4, Zenon
<1>13. Kids(e, U) = L
  BY <1>2, <1>3, <1>4, <1>5, <1>7, <1>8, KidsAdd
<1>. HIDE DEF L, K
<1>14. Shape(e, U)
  <2>1. ASSUME NEW i \in U, NEW j \in U, e.inode[j].block = e.inode[i].block PROVE j = i
    <3>1. \A k \in T : e.inode[k].block = d.inode[k].block /\ e.inode[k].block # b
      BY <1>2, <1>4, <1>7, <1>10
    <3>2. CASE i \in T /\ j \in T  BY <3>1, <3>2, <2>1, <1>1 DEF Shape
    <3>. QED  BY <3>1, <3>2, <2>1, <1>3
  <2>2. ASSUME NEW i \in U
        PROVE  /\ i \in e.imap /\ e.inode[i].block \in e.bmap
               /\ IF Folder(e, i) THEN Row(Ent(e, i), i) /\ Len(Ent(e, i)) = e.inode[i].n
                  ELSE e.inode[i].n = 0
    <3>1. CASE i = x  BY <3>1, <1>2, <1>3, <1>8, <1>9, Zenon
    <3>2. CASE i = c  BY <3>2, <1>2, <1>4, <1>7
    <3>3. CASE i # x /\ i # c
      <4>1. i \in T /\ e.inode[i] = d.inode[i] /\ Ent(e, i) = Ent(d, i)  BY <3>3, <1>10
      <4>2. /\ i \in d.imap /\ d.inode[i].block \in d.bmap
            /\ IF Folder(d, i) THEN Row(Ent(d, i), i) /\ Len(Ent(d, i)) = d.inode[i].n
               ELSE d.inode[i].n = 0
        BY <4>1, <1>1 DEF Shape
      <4>3. Folder(e, i) <=> Folder(d, i)  BY <4>1 DEF Folder
      <4>. QED  BY <4>1, <4>2, <4>3, <1>2
    <3>. QED  BY <3>1, <3>2, <3>3
  <2>. QED  BY <2>1, <2>2 DEF Shape
<1>15. Counts(e, U, L)
  <2>1. IsFiniteSet(L)  BY <1>1, FS_AddElement, Zenon DEF L, Counts, K
  <2>2. ASSUME NEW i \in U
        PROVE  e.inode[i].nlinks = IF Folder(e, i) THEN e.inode[i].n - 2
                                   ELSE Cardinality(To(L, i))
    <3>1. CASE i = x
      <4>1. CASE Folder(e, x)  BY <4>1, <3>1, <1>8
      <4>2. CASE ~ Folder(e, x)
        <5>1. To(L, x) = {<<c, f>>}  BY <1>12
        <5>2. Cardinality(To(L, x)) = 1  BY <5>1, FS_Singleton, Zenon
        <5>. QED  BY <4>2, <5>2, <3>1, <1>9
      <4>. QED  BY <4>1, <4>2
    <3>2. CASE i = c
      <4>1. d.inode[c].nlinks = d.inode[c].n - 2  BY <1>1, <1>2 DEF Counts
      <4>2. d.inode[c].n \in Nat  BY <1>1, <1>5, DiskTypes
      <4>. QED  BY <4>1, <4>2, <3>2, <1>7
    <3>3. CASE i # x /\ i # c
      <4>1. i \in T /\ e.inode[i] = d.inode[i] /\ To(L, i) = To(K, i)  BY <3>3, <1>10, <1>12
      <4>2. Folder(e, i) <=> Folder(d, i)  BY <4>1 DEF Folder
      <4>. QED  BY <4>1, <4>2, <1>1 DEF Counts
    <3>. QED  BY <3>1, <3>2, <3>3
  <2>. QED  BY <2>1, <2>2 DEF Counts
<1>16. Cardinality(e.bmap) <= Cardinality(e.imap)
  <2>1. /\ IsFiniteSet(d.imap) /\ IsFiniteSet(d.bmap)
        /\ Cardinality(d.imap) \in Nat /\ Cardinality(d.bmap) \in Nat
    BY <1>1, DiskTypes
  <2>2. Cardinality(d.imap \cup {x}) = Cardinality(d.imap) + 1  BY <2>1, <1>2, FS_AddElement, Zenon
  <2>3. Cardinality(d.bmap \cup {b}) = Cardinality(d.bmap) + 1  BY <2>1, <1>2, FS_AddElement, Zenon
  <2>. QED  BY <2>1, <2>2, <2>3, <1>1, <1>2
<1>17. Kids(e, U) = L  BY <1>13
<1>. HIDE DEF U
<1>18. Fits(e, U)
  <2>1. ASSUME NEW i \in U, Folder(e, i) PROVE e.inode[i].n <= PerBlock
    <3>1. CASE i = x
      <4>1. e.inode[x].n = 2  BY <2>1, <3>1, <1>8
      <4>. QED  BY <3>1, <4>1, FileSystemOK
    <3>2. CASE i = c
      <4>1. d.inode[c].n \in Nat /\ d.inode[c].n < PerBlock  BY <1>1, <1>5, DiskTypes DEF Creates
      <4>2. e.inode[c].n = d.inode[c].n + 1  BY <1>7
      <4>3. e.inode[c].n <= PerBlock  BY <4>1, <4>2, FileSystemOK
      <4>. QED  BY <3>2, <4>3
    <3>3. CASE i # x /\ i # c
      <4>1. i \in T /\ e.inode[i] = d.inode[i]  BY <3>3, <1>3 DEF Agree, U
      <4>2. Fits(d, T) /\ Folder(d, i)  BY <4>1, <2>1 DEF Good, Folder
      <4>. QED  BY <4>1, <4>2 DEF Fits
    <3>. QED  BY <3>1, <3>2, <3>3
  <2>. QED  BY <2>1 DEF Fits
<1>19. Good(e, U)  BY <1>2, <1>12, <1>14, <1>15, <1>16, <1>17, <1>18 DEF Good
<1>. QED  BY <1>19 DEF U

\* do_ln: the file x has one more name, in c.
Names(d, e, T, c, x, f) ==
  /\ c \in T /\ Folder(d, c) /\ x \in T /\ ~ Folder(d, x)
  /\ f \in Dentries /\ f.ino = x /\ f.mode = "FILE" /\ f.name \in Name
  /\ Named(Ent(d, c), f.name) = {} /\ d.inode[c].n < PerBlock
  /\ e \in Disks /\ e.magic /\ e.imap = d.imap /\ e.bmap = d.bmap
  /\ \A i \in T \ {c, x} : Agree(d, e, i)
  /\ Grows(d, e, c, f)
  /\ e.inode[x] = [d.inode[x] EXCEPT !.nlinks = @ + 1]

LEMMA NameAdded ==
  ASSUME NEW d, NEW e, NEW T, Good(d, T), NEW c, NEW x, NEW f, Names(d, e, T, c, x, f)
  PROVE  Good(e, T)
<1>. DEFINE K == Kids(d, T)
            L == K \cup {<<c, f>>}
<1>1. /\ d \in Disks /\ Shape(d, T) /\ Hang(d, T, K) /\ Counts(d, T, K)
      /\ Cardinality(d.bmap) <= Cardinality(d.imap)
  BY DEF Good
<1>2. /\ c \in T /\ Folder(d, c) /\ x \in T /\ ~ Folder(d, x)
      /\ f \in Dentries /\ f.ino = x /\ f.mode = "FILE" /\ f.name \in Name
      /\ Named(Ent(d, c), f.name) = {}
      /\ e \in Disks /\ e.magic /\ e.imap = d.imap /\ e.bmap = d.bmap
  BY DEF Names
<1>3. /\ \A i \in T \ {c, x} : e.inode[i] = d.inode[i] /\ Ent(e, i) = Ent(d, i)
      /\ Grows(d, e, c, f)
      /\ e.inode[x] = [d.inode[x] EXCEPT !.nlinks = @ + 1]
  BY DEF Names, Agree
<1>4. x # c /\ T \subseteq Ino /\ x \in Ino \ {Root} /\ T \cup {x} = T /\ d.inode[x] \in Inodes
  BY <1>1, <1>2, DiskTypes DEF Hang
<1>5. /\ e.inode[x].mode = d.inode[x].mode /\ e.inode[x].block = d.inode[x].block
      /\ e.inode[x].n = d.inode[x].n /\ e.inode[x].nlinks = d.inode[x].nlinks + 1
      /\ d.inode[x].mode = "FILE"
  BY <1>2, <1>3, <1>4 DEF Inodes, Folder
<1>6. ~ Folder(e, x)  BY <1>2, <1>5 DEF Folder
<1>7. /\ Row(Ent(e, c), c) /\ Len(Ent(e, c)) = e.inode[c].n
      /\ Given(Ent(e, c)) = Given(Ent(d, c)) \cup {f} /\ <<c, f>> \notin K
      /\ Folder(e, c) /\ Father(e, c) = Father(d, c)
      /\ e.inode[c].mode = d.inode[c].mode /\ e.inode[c].block = d.inode[c].block
      /\ e.inode[c].nlinks = d.inode[c].nlinks + 1 /\ e.inode[c].n = d.inode[c].n + 1
  BY <1>1, <1>2, <1>3, Growing
<1>8. Alike(d, e, T)  BY <1>2, <1>3, <1>5, <1>7, Zenon DEF Alike, Father
<1>9. /\ Hang(e, T, L)
      /\ \A i \in T \ {x} : To(L, i) = To(K, i)
      /\ To(L, x) = To(K, x) \cup {<<c, f>>}
  <2>. HIDE DEF K
  <2>1. Comes(d, e, T, K, c, f, x)  BY <1>1, <1>2, <1>4, <1>5, <1>6, <1>8 DEF Comes
  <2>2. /\ Hang(e, T \cup {x}, L)
        /\ \A i \in T \ {x} : To(L, i) = To(K, i)
        /\ To(L, x) = To(K, x) \cup {<<c, f>>}
        /\ x \notin T => To(K, x) = {}
    BY <2>1, HangAdd, Zenon
  <2>. HIDE DEF L
  <2>. QED  BY <2>2, <1>4
<1>10. Kids(e, T) = L
  <2>1. \A i \in T \ {c, x} : Agree(d, e, i)  BY DEF Names
  <2>. QED  BY <2>1, <1>2, <1>4, <1>6, <1>7, KidsAdd
<1>. HIDE DEF L, K
<1>11. Shape(e, T)
  <2>1. \A i \in T : e.inode[i].block = d.inode[i].block  BY <1>3, <1>5, <1>7, Zenon
  <2>2. ASSUME NEW i \in T
        PROVE  /\ i \in e.imap /\ e.inode[i].block \in e.bmap
               /\ \A j \in T : e.inode[j].block = e.inode[i].block => j = i
               /\ IF Folder(e, i) THEN Row(Ent(e, i), i) /\ Len(Ent(e, i)) = e.inode[i].n
                  ELSE e.inode[i].n = 0
    <3>1. /\ i \in d.imap /\ d.inode[i].block \in d.bmap
          /\ \A j \in T : d.inode[j].block = d.inode[i].block => j = i
          /\ IF Folder(d, i) THEN Row(Ent(d, i), i) /\ Len(Ent(d, i)) = d.inode[i].n
             ELSE d.inode[i].n = 0
      BY <1>1 DEF Shape
    <3>2. /\ i \in e.imap /\ e.inode[i].block \in e.bmap
          /\ \A j \in T : e.inode[j].block = e.inode[i].block => j = i
      BY <3>1, <2>1, <1>2
    <3>3. CASE i = x  BY <3>1, <3>2, <3>3, <1>2, <1>5, <1>6
    <3>4. CASE i = c  BY <3>2, <3>4, <1>7
    <3>5. CASE i # x /\ i # c
      <4>1. e.inode[i] = d.inode[i] /\ Ent(e, i) = Ent(d, i)  BY <3>5, <1>3
      <4>2. Folder(e, i) <=> Folder(d, i)  BY <4>1 DEF Folder
      <4>. QED  BY <3>1, <3>2, <4>1, <4>2
    <3>. QED  BY <3>3, <3>4, <3>5
  <2>. QED  BY <2>2 DEF Shape
<1>12. Counts(e, T, L)
  <2>1. IsFiniteSet(L) /\ IsFiniteSet(K)  BY <1>1, FS_AddElement, Zenon DEF L, Counts
  <2>2. ASSUME NEW i \in T
        PROVE  e.inode[i].nlinks = IF Folder(e, i) THEN e.inode[i].n - 2
                                   ELSE Cardinality(To(L, i))
    <3>1. CASE i = x
      <4>1. To(K, x) \subseteq K /\ <<c, f>> \notin To(K, x)  BY <1>7 DEF To, K
      <4>2. IsFiniteSet(To(K, x))  BY <4>1, <2>1, FS_Subset
      <4>3. Cardinality(To(K, x) \cup {<<c, f>>}) = Cardinality(To(K, x)) + 1
        BY <4>1, <4>2, FS_AddElement
      <4>4. d.inode[x].nlinks = Cardinality(To(K, x))  BY <1>1, <1>2 DEF Counts
      <4>. QED  BY <4>3, <4>4, <3>1, <1>5, <1>6, <1>9
    <3>2. CASE i = c
      <4>1. d.inode[c].nlinks = d.inode[c].n - 2  BY <1>1, <1>2 DEF Counts
      <4>2. d.inode[c].n \in Nat  BY <1>1, <1>2, <1>4, DiskTypes
      <4>. QED  BY <4>1, <4>2, <3>2, <1>7
    <3>3. CASE i # x /\ i # c
      <4>1. e.inode[i] = d.inode[i] /\ To(L, i) = To(K, i)  BY <3>3, <1>3, <1>9
      <4>2. Folder(e, i) <=> Folder(d, i)  BY <4>1 DEF Folder
      <4>. QED  BY <4>1, <4>2, <1>1 DEF Counts
    <3>. QED  BY <3>1, <3>2, <3>3
  <2>. QED  BY <2>1, <2>2 DEF Counts
<1>13. Fits(e, T)
  <2>1. ASSUME NEW i \in T, Folder(e, i) PROVE e.inode[i].n <= PerBlock
    <3>1. i # x  BY <2>1, <1>6
    <3>2. CASE i = c
      <4>1. d.inode[c].n \in Nat /\ d.inode[c].n < PerBlock  BY <1>1, <1>2, <1>4, DiskTypes DEF Names
      <4>. QED  BY <3>2, <4>1, <1>7, FileSystemOK
    <3>3. CASE i # c
      <4>1. e.inode[i] = d.inode[i]  BY <3>1, <3>3, <1>3
      <4>2. Fits(d, T) /\ Folder(d, i)  BY <4>1, <2>1 DEF Good, Folder
      <4>. QED  BY <4>1, <4>2 DEF Fits
    <3>. QED  BY <3>2, <3>3
  <2>. QED  BY <2>1 DEF Fits
<1>. QED  BY <1>1, <1>2, <1>9, <1>10, <1>11, <1>12, <1>13 DEF Good

\* What is not in the tree may change.
LEMMA Unseen ==
  ASSUME NEW d, NEW e, NEW T, Good(d, T), e \in Disks, e.magic,
         \A i \in T : Agree(d, e, i), d.imap \subseteq e.imap, d.bmap \subseteq e.bmap,
         Cardinality(e.bmap) <= Cardinality(e.imap)
  PROVE  Good(e, T)
<1>1. \A i \in T : /\ e.inode[i] = d.inode[i] /\ Ent(e, i) = Ent(d, i)
                   /\ Folder(e, i) <=> Folder(d, i)
  BY DEF Agree, Folder
<1>2. /\ Shape(d, T) /\ Hang(d, T, Kids(d, T)) /\ Counts(d, T, Kids(d, T))
  BY DEF Good
<1>3. Kids(e, T) = Kids(d, T)
  <2>1. \A l \in T \X Dentries : l[1] \in T  OBVIOUS
  <2>. QED  BY <1>1, <2>1 DEF Kids
<1>4. Shape(e, T)
  <2>1. ASSUME NEW i \in T
        PROVE  /\ i \in e.imap /\ e.inode[i].block \in e.bmap
               /\ \A j \in T : e.inode[j].block = e.inode[i].block => j = i
               /\ IF Folder(e, i) THEN Row(Ent(e, i), i) /\ Len(Ent(e, i)) = e.inode[i].n
                  ELSE e.inode[i].n = 0
    <3>1. /\ i \in d.imap /\ d.inode[i].block \in d.bmap
          /\ \A j \in T : d.inode[j].block = d.inode[i].block => j = i
          /\ IF Folder(d, i) THEN Row(Ent(d, i), i) /\ Len(Ent(d, i)) = d.inode[i].n
             ELSE d.inode[i].n = 0
      BY <1>2 DEF Shape
    <3>. QED  BY <3>1, <1>1
  <2>. QED  BY <2>1 DEF Shape
<1>5. Counts(e, T, Kids(d, T))  BY <1>1, <1>2 DEF Counts
<1>6. Hang(e, T, Kids(d, T))
  <2>. DEFINE K == Kids(d, T)
  <2>1. Hang(d, T, K)  BY <1>2
  <2>2. \A l \in K : l[1] \in T /\ Folder(e, l[1])  BY <1>3 DEF Kids
  <2>. HIDE DEF K
  <2>3. Root \in T /\ \A l \in K : l[2].ino \in T  BY <2>1 DEF Hang
  <2>4. \A i \in T : e.inode[i].mode = d.inode[i].mode /\ Father(e, i) = Father(d, i)
    BY <1>1 DEF Father
  <2>5. ASSUME NEW l \in K
        PROVE  /\ l[1] \in T /\ Folder(e, l[1])
               /\ l[2].ino \in T \ {Root} /\ l[2].mode = e.inode[l[2].ino].mode
               /\ Folder(e, l[2].ino) => Father(e, l[2].ino) = l[1] /\ To(K, l[2].ino) = {l}
    <3>1. /\ l[2].ino \in T \ {Root} /\ l[2].mode = d.inode[l[2].ino].mode
          /\ Folder(d, l[2].ino) => Father(d, l[2].ino) = l[1] /\ To(K, l[2].ino) = {l}
      BY <2>1, Zenon DEF Hang
    <3>. QED  BY <3>1, <2>2, <2>4, <1>1
  <2>6. T \subseteq Ino /\ Folder(e, Root) /\ Father(e, Root) = Root
    BY <2>1, <2>3, <2>4, <1>1 DEF Hang
  <2>7. /\ \A i \in T \ {Root} : To(K, i) # {}
        /\ \A S \in SUBSET T : Root \in S /\ (\A l \in K : l[1] \in S => l[2].ino \in S) => S = T
    BY <2>1 DEF Hang
  <2>8. Hang(e, T, K)  BY <2>3, <2>5, <2>6, <2>7, Zenon DEF Hang
  <2>. QED  BY <2>8 DEF K
<1>7. Fits(e, T)
  <2>1. Fits(d, T)  BY DEF Good
  <2>. QED  BY <2>1, <1>1 DEF Fits
<1>. QED  BY <1>3, <1>4, <1>5, <1>6, <1>7 DEF Good

\* What the directory of a name that goes is on the new card.
Shrinks(d, e, c, k) ==
  /\ e.inode[c].mode = d.inode[c].mode /\ e.inode[c].block = d.inode[c].block
  /\ e.inode[c].nlinks = d.inode[c].nlinks - 1 /\ e.inode[c].n = d.inode[c].n - 1
  /\ k \in 3 .. Len(Ent(d, c))
  /\ Ent(e, c) = Without(Ent(d, c), k)

LEMMA Shrinking ==
  ASSUME NEW d, NEW e, NEW T, Shape(d, T), NEW c \in T, Folder(d, c), NEW k,
         Shrinks(d, e, c, k)
  PROVE  /\ Row(Ent(e, c), c) /\ Len(Ent(e, c)) = e.inode[c].n
         /\ Given(Ent(e, c)) = Given(Ent(d, c)) \ {Ent(d, c)[k]}
         /\ Ent(d, c)[k] \in Given(Ent(d, c))
         /\ Folder(e, c) /\ Father(e, c) = Father(d, c)
<1>1. Row(Ent(d, c), c) /\ Len(Ent(d, c)) = d.inode[c].n  BY DEF Shape
<1>. DEFINE es == Ent(d, c)
            fs == Ent(e, c)
<1>2. /\ Row(es, c) /\ k \in 3 .. Len(es)
      /\ fs = Without(es, k)
  BY <1>1 DEF Shrinks
<1>. HIDE DEF es, fs
<1>3. /\ Row(fs, c) /\ Len(fs) = Len(es) - 1
      /\ Given(fs) = Given(es) \ {es[k]} /\ es[k] \in Given(es)
      /\ fs[2] = es[2]
  <2>1. PICK p : p = es  OBVIOUS
  <2>2. PICK q : q = fs  OBVIOUS
  <2>3. Row(p, c) /\ k \in 3 .. Len(p) /\ q = Without(p, k)  BY <1>2, <2>1, <2>2
  <2>4. Dropped(p, Without(p, k), c, k)  BY <2>3, DropRow, Zenon
  <2>. QED  BY <2>1, <2>2, <2>3, <2>4 DEF Dropped
<1>. QED  BY <1>1, <1>3 DEF es, fs, Shrinks, Folder, Father

\* do_rm and do_rmdir: the k-th entry of c goes, of a file or of a directory
\* without entries; with its last name the inode x leaves the tree, and its
\* inode and its block are free.
Drops(d, e, T, c, k, x, U) ==
  /\ c \in T /\ Folder(d, c) /\ Shrinks(d, e, c, k) /\ x = Ent(d, c)[k].ino
  /\ Folder(d, x) => d.inode[x].n = 2 /\ Ent(e, x) = Ent(d, x)
  /\ x # c
  /\ U = IF To(Kids(d, T), x) = {<<c, Ent(d, c)[k]>>} THEN T \ {x} ELSE T
  /\ e \in Disks /\ e.magic
  /\ \A i \in T \ {c, x} : Agree(d, e, i)
  /\ e.inode[x].mode = d.inode[x].mode /\ e.inode[x].block = d.inode[x].block
  /\ e.inode[x].n = d.inode[x].n
  /\ x \notin U => e.imap = d.imap \ {x} /\ e.bmap = d.bmap \ {d.inode[x].block}
  /\ x \in U => /\ e.imap = d.imap /\ e.bmap = d.bmap
                /\ e.inode[x].nlinks = d.inode[x].nlinks - 1

LEMMA NameDropped ==
  ASSUME NEW d, NEW e, NEW T, Good(d, T), NEW c, NEW k, NEW x, NEW U,
         Drops(d, e, T, c, k, x, U)
  PROVE  Good(e, U)
<1>. DEFINE K == Kids(d, T)
            f == Ent(d, c)[k]
            L == K \ {<<c, f>>}
<1>1. /\ d \in Disks /\ Shape(d, T) /\ Hang(d, T, K) /\ Counts(d, T, K)
      /\ Cardinality(d.bmap) <= Cardinality(d.imap)
  BY DEF Good
<1>2. /\ c \in T /\ Folder(d, c) /\ Shrinks(d, e, c, k) /\ x = f.ino /\ x # c
      /\ Folder(d, x) => d.inode[x].n = 2 /\ Ent(e, x) = Ent(d, x)
      /\ U = IF To(K, x) = {<<c, f>>} THEN T \ {x} ELSE T
      /\ e \in Disks /\ e.magic
      /\ e.inode[x].mode = d.inode[x].mode /\ e.inode[x].block = d.inode[x].block
      /\ e.inode[x].n = d.inode[x].n
  BY DEF Drops
<1>3. /\ \A i \in T \ {c, x} : Agree(d, e, i)
      /\ x \notin U => e.imap = d.imap \ {x} /\ e.bmap = d.bmap \ {d.inode[x].block}
      /\ x \in U => /\ e.imap = d.imap /\ e.bmap = d.bmap
                    /\ e.inode[x].nlinks = d.inode[x].nlinks - 1
  BY DEF Drops
<1>4. /\ Row(Ent(e, c), c) /\ Len(Ent(e, c)) = e.inode[c].n
      /\ Given(Ent(e, c)) = Given(Ent(d, c)) \ {f} /\ f \in Given(Ent(d, c))
      /\ Folder(e, c) /\ Father(e, c) = Father(d, c)
  BY <1>1, <1>2, Shrinking
<1>5. /\ e.inode[c].mode = d.inode[c].mode /\ e.inode[c].block = d.inode[c].block
      /\ e.inode[c].nlinks = d.inode[c].nlinks - 1 /\ e.inode[c].n = d.inode[c].n - 1
  BY <1>2 DEF Shrinks
<1>6. <<c, f>> \in K
  <2>1. Row(Ent(d, c), c)  BY <1>1, <1>2 DEF Shape
  <2>2. \A j \in 1 .. Len(Ent(d, c)) : Ent(d, c)[j] \in Dentries
    BY <2>1, ElementOfSeq DEF Row
  <2>3. f \in Dentries
    <3>1. k \in 1 .. Len(Ent(d, c))  BY <1>2 DEF Shrinks
    <3>. QED  BY <3>1, <2>2
  <2>. QED  BY <2>3, <1>2, <1>4 DEF Kids
<1>. HIDE DEF f
<1>7. x \in T \ {Root} /\ T \subseteq Ino
  <2>. HIDE DEF K
  <2>1. <<c, f>>[2].ino \in T \ {Root} /\ T \subseteq Ino  BY <1>1, <1>6 DEF Hang
  <2>. QED  BY <2>1, <1>2
<1>8. \A i \in T \ {c, x} : e.inode[i] = d.inode[i] /\ Ent(e, i) = Ent(d, i)
  BY <1>3 DEF Agree
<1>9. Folder(d, x) => Given(Ent(d, x)) = {} /\ Row(Ent(d, x), x) /\ Len(Ent(d, x)) = 2
  <2>1. SUFFICES ASSUME Folder(d, x)
                 PROVE  Given(Ent(d, x)) = {} /\ Row(Ent(d, x), x) /\ Len(Ent(d, x)) = 2
    OBVIOUS
  <2>2. Row(Ent(d, x), x) /\ Len(Ent(d, x)) = 2  BY <2>1, <1>1, <1>2, <1>7, Zenon DEF Shape
  <2>3. 3 .. 2 = {}  OBVIOUS
  <2>. QED  BY <2>2, <2>3 DEF Given
<1>10. \A l \in K : l[1] # x
  <2>1. ASSUME NEW l \in K, l[1] = x PROVE FALSE
    <3>1. Folder(d, x) /\ l[2] \in Given(Ent(d, x))  BY <2>1 DEF Kids
    <3>. QED  BY <3>1, <1>9
  <2>. QED  BY <2>1
<1>11. Alike(d, e, T)
  <2>1. Folder(d, x) => Father(e, x) = Father(d, x)  BY <1>2 DEF Father
  <2>. QED  BY <2>1, <1>2, <1>4, <1>5, <1>8 DEF Alike, Father
<1>12. /\ Hang(e, U, L)
       /\ \A i \in T \ {x} : To(L, i) = To(K, i)
       /\ To(L, x) = To(K, x) \ {<<c, f>>}
       /\ c \in U /\ <<c, f>> \in To(K, x)
  <2>. HIDE DEF K
  <2>1. Goes(d, e, T, K, c, f, x, U)  BY <1>1, <1>2, <1>6, <1>10, <1>11 DEF Goes
  <2>2. /\ Hang(e, U, K \ {<<c, f>>})
        /\ \A i \in T \ {x} : To(K \ {<<c, f>>}, i) = To(K, i)
        /\ To(K \ {<<c, f>>}, x) = To(K, x) \ {<<c, f>>}
        /\ x \in T \ {Root} /\ c \in U /\ <<c, f>> \in To(K, x)
    BY <2>1, HangDrop, Zenon
  <2>. QED  BY <2>2, Zenon
<1>13. x \in U => ~ Folder(d, x)
  <2>1. SUFFICES ASSUME Folder(d, x) PROVE To(K, x) = {<<c, f>>}  BY <1>2
  <2>2. <<c, f>>[2] = f  OBVIOUS
  <2>. HIDE DEF K
  <2>3. \A l \in K : Folder(d, l[2].ino) => To(K, l[2].ino) = {l}  BY <1>1, Zenon DEF Hang
  <2>. QED  BY <2>1, <2>2, <2>3, <1>2, <1>6
<1>14. Kids(e, U) = L
  <2>1. U = T \ {x} \/ (U = T /\ ~ Folder(e, x) /\ ~ Folder(d, x))
    BY <1>2, <1>7, <1>13 DEF Folder
  <2>2. Loses(d, e, T, c, x, f, U)  BY <2>1, <1>2, <1>3, <1>4, <1>9 DEF Loses
  <2>3. Kids(e, U) = Kids(d, T) \ {<<c, f>>}  BY <2>2, KidsDrop
  <2>. QED  BY <2>3
<1>. HIDE DEF L, K
<1>15. U \subseteq T /\ \A i \in U \ {c, x} : i \in T \ {c, x}  BY <1>2
<1>16. Shape(e, U)
  <2>1. \A i \in T : e.inode[i].block = d.inode[i].block  BY <1>2, <1>5, <1>8
  <2>2. ASSUME NEW i \in U
        PROVE  /\ i \in e.imap /\ e.inode[i].block \in e.bmap
               /\ \A j \in U : e.inode[j].block = e.inode[i].block => j = i
               /\ IF Folder(e, i) THEN Row(Ent(e, i), i) /\ Len(Ent(e, i)) = e.inode[i].n
                  ELSE e.inode[i].n = 0
    <3>1. /\ i \in d.imap /\ d.inode[i].block \in d.bmap
          /\ \A j \in T : d.inode[j].block = d.inode[i].block => j = i
          /\ IF Folder(d, i) THEN Row(Ent(d, i), i) /\ Len(Ent(d, i)) = d.inode[i].n
             ELSE d.inode[i].n = 0
      BY <1>1, <1>15 DEF Shape
    <3>2. \A j \in U : e.inode[j].block = e.inode[i].block => j = i
      BY <3>1, <2>1, <1>15
    <3>3. i \in e.imap /\ e.inode[i].block \in e.bmap
      <4>1. CASE x \in U  BY <4>1, <3>1, <2>1, <1>3, <1>15
      <4>2. CASE x \notin U
        <5>1. i # x /\ d.inode[x].block # d.inode[i].block  BY <4>2, <3>1, <1>7
        <5>. QED  BY <5>1, <4>2, <3>1, <2>1, <1>3, <1>15
      <4>. QED  BY <4>1, <4>2
    <3>4. CASE i = x
      <4>1. ~ Folder(e, x) /\ ~ Folder(d, x)  BY <3>4, <1>2, <1>13 DEF Folder
      <4>. QED  BY <4>1, <3>1, <3>2, <3>3, <3>4, <1>2
    <3>5. CASE i = c  BY <3>2, <3>3, <3>5, <1>4
    <3>6. CASE i # x /\ i # c
      <4>1. e.inode[i] = d.inode[i] /\ Ent(e, i) = Ent(d, i)  BY <3>6, <1>8, <1>15
      <4>2. Folder(e, i) <=> Folder(d, i)  BY <4>1 DEF Folder
      <4>. QED  BY <3>1, <3>2, <3>3, <4>1, <4>2
    <3>. QED  BY <3>4, <3>5, <3>6
  <2>. QED  BY <2>2 DEF Shape
<1>17. Counts(e, U, L)
  <2>1. IsFiniteSet(L) /\ IsFiniteSet(K)  BY <1>1, FS_RemoveElement, Zenon DEF L, Counts
  <2>2. ASSUME NEW i \in U
        PROVE  e.inode[i].nlinks = IF Folder(e, i) THEN e.inode[i].n - 2
                                   ELSE Cardinality(To(L, i))
    <3>1. CASE i = x
      <4>1. To(K, x) \subseteq K  BY DEF To
      <4>2. IsFiniteSet(To(K, x))  BY <4>1, <2>1, FS_Subset
      <4>3. Cardinality(To(K, x) \ {<<c, f>>}) = Cardinality(To(K, x)) - 1
        BY <1>12, <4>2, FS_RemoveElement, Zenon
      <4>4. ~ Folder(e, x) /\ ~ Folder(d, x)  BY <3>1, <1>2, <1>13 DEF Folder
      <4>5. d.inode[x].nlinks = Cardinality(To(K, x))  BY <4>4, <1>1, <1>7 DEF Counts
      <4>. QED  BY <4>3, <4>4, <4>5, <3>1, <1>3, <1>12
    <3>2. CASE i = c
      <4>1. d.inode[c].nlinks = d.inode[c].n - 2  BY <1>1, <1>2 DEF Counts
      <4>2. d.inode[c].n \in Nat  BY <1>1, <1>2, <1>7, DiskTypes
      <4>. QED  BY <4>1, <4>2, <3>2, <1>4, <1>5
    <3>3. CASE i # x /\ i # c
      <4>1. e.inode[i] = d.inode[i] /\ To(L, i) = To(K, i) /\ i \in T
        BY <3>3, <1>8, <1>12, <1>15
      <4>2. Folder(e, i) <=> Folder(d, i)  BY <4>1 DEF Folder
      <4>. QED  BY <4>1, <4>2, <1>1 DEF Counts
    <3>. QED  BY <3>1, <3>2, <3>3
  <2>. QED  BY <2>1, <2>2 DEF Counts
<1>18. Cardinality(e.bmap) <= Cardinality(e.imap)
  <2>1. /\ IsFiniteSet(d.imap) /\ IsFiniteSet(d.bmap)
        /\ Cardinality(d.imap) \in Nat /\ Cardinality(d.bmap) \in Nat
    BY <1>1, DiskTypes
  <2>2. x \in d.imap /\ d.inode[x].block \in d.bmap  BY <1>1, <1>7 DEF Shape
  <2>3. Cardinality(d.imap \ {x}) = Cardinality(d.imap) - 1  BY <2>1, <2>2, FS_RemoveElement, Zenon
  <2>4. Cardinality(d.bmap \ {d.inode[x].block}) = Cardinality(d.bmap) - 1
    BY <2>1, <2>2, FS_RemoveElement, Zenon
  <2>5. CASE x \in U
    <3>1. e.imap = d.imap /\ e.bmap = d.bmap  BY <2>5, <1>3
    <3>. QED  BY <3>1, <1>1
  <2>6. CASE x \notin U
    <3>1. e.imap = d.imap \ {x} /\ e.bmap = d.bmap \ {d.inode[x].block}  BY <2>6, <1>3
    <3>2. Cardinality(d.bmap) <= Cardinality(d.imap)  BY <1>1
    <3>. QED  BY <3>1, <3>2, <2>1, <2>3, <2>4
  <2>. QED  BY <2>5, <2>6
<1>19. Fits(e, U)
  <2>1. Fits(d, T)  BY DEF Good
  <2>2. ASSUME NEW i \in U, Folder(e, i) PROVE e.inode[i].n <= PerBlock
    <3>1. i \in T  BY <1>2
    <3>2. d.inode[i].n \in Nat  BY <1>1, <1>7, <3>1, DiskTypes
    <3>3. CASE i = c
      <4>1. d.inode[c].n <= PerBlock  BY <2>1, <1>2 DEF Fits
      <4>. QED  BY <4>1, <3>2, <3>3, <1>5, FileSystemOK
    <3>4. CASE i # c
      <4>1. e.inode[i].n = d.inode[i].n /\ e.inode[i].mode = d.inode[i].mode
        BY <3>1, <3>4, <1>2, <1>3 DEF Agree
      <4>2. Folder(d, i)  BY <4>1, <2>2 DEF Folder
      <4>. QED  BY <4>1, <4>2, <3>1, <2>1 DEF Fits
    <3>. QED  BY <3>3, <3>4
  <2>. QED  BY <2>2 DEF Fits
<1>. QED  BY <1>2, <1>12, <1>14, <1>16, <1>17, <1>18, <1>19 DEF Good

-----------------------------------------------------------------------------
(* The inductive invariant.  A tree T of the card is what the root reaches,*)
(* and every reference of the kernel is in it.                             *)
Refs(d, T, cur, fds) ==
  /\ cur \in T /\ Folder(d, cur)
  /\ fds \in [1 .. MAXFD -> Ino]
  /\ \A fd \in 1 .. MAXFD : fds[fd] # Root => fds[fd] \in T /\ ~ Folder(d, fds[fd])
Used(d, T) == d.imap = T /\ d.bmap = {d.inode[i].block : i \in T}
IInv ==
  /\ Good(disk, Reached) /\ Refs(disk, Reached, current, file_d)
  /\ crashed \in BOOLEAN /\ (~ crashed => Used(disk, Reached))

-----------------------------------------------------------------------------
(* What the root reaches. *)

LEMMA CutFacts ==
  ASSUME NEW S, NEW s \in Seq(S), NEW n \in Nat
  PROVE  /\ Cut(s, n) \in Seq(S)
         /\ n <= Len(s) => Len(Cut(s, n)) = n /\ \A k \in 1 .. n : Cut(s, n)[k] = s[k]
         /\ Cut(s, Len(s)) = s
         /\ Len(s) < n => Cut(s, n) = s
<1>1. PICK l \in Nat : l = Len(s)  BY LenProperties
<1>2. SubSeq(s, 1, l) = s
  <2>1. /\ SubSeq(s, 1, l) \in Seq(S) /\ Len(SubSeq(s, 1, l)) = l
        /\ \A k \in 1 .. l : SubSeq(s, 1, l)[k] = s[k]
    <3>1. 1 \in 1 .. (Len(s) + 1) /\ l \in 1 - 1 .. Len(s)  BY <1>1
    <3>2. l - 1 + 1 = l /\ \A k \in 1 .. l : 1 + k - 1 = k  BY <1>1
    <3>. QED  BY <3>1, <3>2, SubSeqProperties
  <2>. QED  BY <2>1, <1>1, SeqEqual
<1>3. ASSUME n <= l
      PROVE  /\ SubSeq(s, 1, n) \in Seq(S) /\ Len(SubSeq(s, 1, n)) = n
             /\ \A k \in 1 .. n : SubSeq(s, 1, n)[k] = s[k]
  <2>1. 1 \in 1 .. (Len(s) + 1) /\ n \in 1 - 1 .. Len(s)  BY <1>1, <1>3
  <2>2. n - 1 + 1 = n /\ \A k \in 1 .. n : 1 + k - 1 = k  OBVIOUS
  <2>. QED  BY <2>1, <2>2, SubSeqProperties
<1>4. CASE n <= l  BY <1>1, <1>2, <1>3, <1>4 DEF Cut
<1>5. CASE ~ (n <= l)  BY <1>1, <1>2, <1>5 DEF Cut
<1>. QED  BY <1>4, <1>5

LEMMA EntSeq ==
  ASSUME NEW d \in Disks, NEW i \in Ino
  PROVE  Ent(d, i) \in Seq(Dentries) /\ (d.inode[i].n = 0 => Ent(d, i) = <<>>)
<1>1. Buf(d, d.inode[i].block) \in Seq(Dentries)
  <2>1. d.inode[i].block \in {0} \cup Block /\ d.data \in [Block -> Seq(Dentries)]
    BY DiskTypes DEF Disks
  <2>2. <<>> \in Seq(Dentries)  OBVIOUS
  <2>. QED  BY <2>1, <2>2 DEF Buf
<1>2. PICK n \in Nat : n = d.inode[i].n  BY DiskTypes
<1>. DEFINE s == Buf(d, d.inode[i].block)
<1>3. Ent(d, i) = Cut(s, n) /\ s \in Seq(Dentries)  BY <1>1, <1>2 DEF Ent
<1>. HIDE DEF s
<1>4. Cut(s, n) \in Seq(Dentries) /\ (n <= Len(s) => Len(Cut(s, n)) = n)  BY <1>3, CutFacts
<1>5. Len(s) \in Nat  BY <1>3, LenProperties
<1>6. n = 0 => Cut(s, n) = <<>>
  <2>1. SUFFICES ASSUME n = 0 PROVE Cut(s, n) = <<>>  OBVIOUS
  <2>2. Len(Cut(s, n)) = 0  BY <2>1, <1>4, <1>5
  <2>. QED  BY <2>2, <1>4, EmptySeq
<1>. QED  BY <1>2, <1>3, <1>4, <1>6

LEMMA SameEntries == \A i : Entries(i) = Ent(disk, i) /\ (IsDir(i) <=> Folder(disk, i))
  BY DEF Entries, Ent, Buffer, Buf, Cut, inode, IsDir, Folder

LEMMA EntriesTyped ==
  ASSUME disk \in Disks, NEW i \in Ino
  PROVE  /\ Entries(i) \in Seq(Dentries) /\ DOMAIN Entries(i) = 1 .. Len(Entries(i))
         /\ \A k \in 1 .. Len(Entries(i)) : Entries(i)[k] \in Dentries
         /\ Len(Entries(i)) \in Nat
<1>1. Entries(i) \in Seq(Dentries)  BY EntSeq, SameEntries
<1>. QED  BY <1>1, LenProperties, ElementOfSeq

LEMMA NamedTyped ==
  ASSUME disk \in Disks
  PROVE  \A i \in Ino : Named1(i) \subseteq Ino
<1>. SUFFICES ASSUME NEW i \in Ino, IsDir(i), NEW k \in DOMAIN Entries(i)
              PROVE  Entries(i)[k].ino \in Ino
  BY DEF Named1, Range
<1>1. Entries(i)[k] \in Dentries  BY EntriesTyped
<1>. QED  BY <1>1 DEF Dentries

\* The father of a directory of the tree is in the tree.
LEMMA FatherIn ==
  ASSUME NEW d, NEW T, NEW K, Hang(d, T, K), NEW i \in T, Folder(d, i)
  PROVE  Father(d, i) \in T
<1>1. CASE i = Root  BY <1>1 DEF Hang
<1>2. CASE i # Root
  <2>1. PICK l \in To(K, i) : TRUE  BY <1>2 DEF Hang
  <2>2. l \in K /\ l[2].ino = i  BY <2>1 DEF To
  <2>3. l[1] \in T /\ Father(d, i) = l[1]  BY <2>2 DEF Hang
  <2>. QED  BY <2>3
<1>. QED  BY <1>1, <1>2

TreeReached == \A T : Good(disk, T) => T = Reached
LEMMA TreeIsReached == TreeReached
<1>. SUFFICES ASSUME NEW T, Good(disk, T) PROVE T = Reached  BY DEF TreeReached
<1>. DEFINE K == Kids(disk, T)
<1>1. disk \in Disks /\ Shape(disk, T) /\ Hang(disk, T, K)  BY DEF Good
<1>2. \A i \in Ino : Named1(i) \subseteq Ino  BY <1>1, NamedTyped
<1>3. /\ Root \in Reached /\ \A i \in Reached : Named1(i) \subseteq Reached
      /\ \A S : Root \in S /\ (\A i \in S : Named1(i) \subseteq S) => Reached \subseteq S
  BY <1>2, ReachedLeast
<1>4. T \subseteq Ino /\ Root \in T  BY <1>1 DEF Hang
<1>5. ASSUME NEW i \in T, Folder(disk, i), NEW j \in Named1(i) PROVE j \in T
  <2>1. PICK n \in Nat : n = Len(Entries(i)) /\ DOMAIN Entries(i) = 1 .. n
    BY <1>1, <1>4, EntriesTyped
  <2>2. PICK k \in 1 .. n : j = Entries(i)[k].ino  BY <2>1, <1>5, SameEntries DEF Named1, Range
  <2>3. Row(Entries(i), i)  BY <1>1, <1>5, SameEntries DEF Shape
  <2>4. CASE k = 1  BY <2>2, <2>3, <2>4 DEF Row, Dentry
  <2>5. CASE k = 2
    <3>1. j = Father(disk, i)  BY <2>2, <2>5, SameEntries DEF Father
    <3>. QED  BY <3>1, <1>1, <1>5, FatherIn
  <2>6. CASE k \in 3 .. n
    <3>1. Entries(i)[k] \in Dentries  BY <2>1, <1>1, <1>4, EntriesTyped
    <3>2. Entries(i)[k] \in Given(Entries(i))  BY <2>1, <2>6 DEF Given
    <3>3. <<i, Entries(i)[k]>> \in K  BY <3>1, <3>2, <1>5, SameEntries DEF Kids
    <3>4. <<i, Entries(i)[k]>>[2].ino \in T
      <4>. HIDE DEF K
      <4>. QED  BY <3>3, <1>1 DEF Hang
    <3>. QED  BY <3>4, <2>2
  <2>7. k = 1 \/ k = 2 \/ k \in 3 .. n  BY <2>1
  <2>. QED  BY <2>4, <2>5, <2>6, <2>7
<1>6. \A i \in T : Named1(i) \subseteq T
  <2>1. ASSUME NEW i \in T, ~ Folder(disk, i) PROVE Named1(i) = {}
    BY <2>1, SameEntries DEF Named1
  <2>. QED  BY <2>1, <1>5
<1>7. Reached \subseteq T  BY <1>3, <1>4, <1>6
<1>8. ASSUME NEW l \in K, l[1] \in Reached PROVE l[2].ino \in Reached
  <2>1. l[1] \in T /\ l[2] \in Dentries /\ Folder(disk, l[1]) /\ l[2] \in Given(Ent(disk, l[1]))
    BY DEF Kids
  <2>2. PICK k \in 3 .. Len(Entries(l[1])) : l[2] = Entries(l[1])[k]
    BY <2>1, SameEntries DEF Given
  <2>3. k \in DOMAIN Entries(l[1])
    <3>1. DOMAIN Entries(l[1]) = 1 .. Len(Entries(l[1])) /\ Len(Entries(l[1])) \in Nat
      BY <2>1, <1>1, <1>4, EntriesTyped
    <3>. QED  BY <3>1, <2>2
  <2>4. l[2].ino \in Named1(l[1])  BY <2>1, <2>2, <2>3, SameEntries DEF Named1, Range
  <2>. QED  BY <2>4, <1>3, <1>8
<1>. HIDE DEF K
<1>9. Reached = T
  <2>1. Reached \in SUBSET T /\ Root \in Reached  BY <1>3, <1>7
  <2>. QED  BY <2>1, <1>1, <1>8 DEF Hang
<1>. QED  BY <1>9

-----------------------------------------------------------------------------
(* Where paths lead. *)

Walk(w, name) ==
  IF w.ok /\ Found(w.at, name) THEN [ok |-> TRUE, at |-> lookup(w.at, name)]
  ELSE [w EXCEPT !.ok = FALSE]
Start(path) == [ok |-> TRUE, at |-> IF path.absolute THEN Root ELSE current]

\* The names of a path, one after the other.
LEMMA NameByName ==
  ASSUME NEW path, NEW n \in Nat, DOMAIN path.names = 1 .. n
  PROVE  \E g : /\ g[0] = Start(path) /\ find_dir(path) = g[n]
                /\ \A k \in 1 .. n : g[k] = Walk(g[k - 1], path.names[k])
<1>. DEFINE Rec(f, m) == [s \in SUBSET (1 .. m) |->
                            IF s = {} THEN Start(path)
                            ELSE Walk(f[s \ {Max(s)}], path.names[Max(s)])]
            Short == {m \in Nat : ~ \E f : f = Rec(f, m)}
<1>1. Short = {}
  <2>1. SUFFICES ASSUME Short # {} PROVE FALSE  BY Zenon
  <2>2. PICK m \in Short : \A k \in Short : m <= k  BY <2>1, HasLeast, Zenon
  <2>3. m # 0
    <3>1. SUBSET (1 .. 0) = {{}}  OBVIOUS
    <3>2. [s \in {{}} |-> Start(path)] = Rec([s \in {{}} |-> Start(path)], 0)  BY <3>1
    <3>. QED  BY <3>2, <2>2, Zenon
  <2>4. m - 1 \in Nat /\ m - 1 \notin Short
    <3>1. m \in Nat  BY <2>2
    <3>2. m - 1 \in Nat /\ ~ (m <= m - 1)  BY <3>1, <2>3
    <3>. QED  BY <3>2, <2>2, Zenon
  <2>5. PICK e : e = Rec(e, m - 1)  BY <2>4, Zenon
  <2>. DEFINE f == [s \in SUBSET (1 .. m) |->
                      IF m \in s THEN Walk(e[s \ {m}], path.names[m]) ELSE e[s]]
  <2>6. \A s \in SUBSET (1 .. m) : m \notin s => s \in SUBSET (1 .. (m - 1))  BY <2>2
  <2>7. ASSUME NEW s \in SUBSET (1 .. m), s # {}, m \in s
        PROVE  f[s] = Walk(f[s \ {Max(s)}], path.names[Max(s)])
    <3>1. Max(s) = m  BY <2>7, <2>2, MaxOf, Zenon
    <3>2. s \ {m} \in SUBSET (1 .. m) /\ m \notin s \ {m}  OBVIOUS
    <3>. QED  BY <3>1, <3>2, <2>7
  <2>8. ASSUME NEW s \in SUBSET (1 .. m), s # {}, m \notin s
        PROVE  f[s] = Walk(f[s \ {Max(s)}], path.names[Max(s)])
    <3>1. s \in SUBSET (1 .. (m - 1))  BY <2>8, <2>6
    <3>2. e[s] = Walk(e[s \ {Max(s)}], path.names[Max(s)])  BY <2>5, <2>8, <3>1, Zenon
    <3>3. s \ {Max(s)} \in SUBSET (1 .. m) /\ m \notin s \ {Max(s)}  BY <2>8, Zenon
    <3>. QED  BY <3>2, <3>3, <2>8
  <2>9. f[{}] = Start(path)
    <3>1. {} \in SUBSET (1 .. (m - 1)) /\ {} \in SUBSET (1 .. m)  OBVIOUS
    <3>. QED  BY <3>1, <2>5
  <2>10. f = Rec(f, m)
    <3>1. \A s \in SUBSET (1 .. m) : f[s] = Rec(f, m)[s]  BY <2>7, <2>8, <2>9, Zenon
    <3>2. f = [s \in SUBSET (1 .. m) |-> f[s]]  OBVIOUS
    <3>3. Rec(f, m) = [s \in SUBSET (1 .. m) |-> Rec(f, m)[s]]  OBVIOUS
    <3>. HIDE DEF f, Rec
    <3>. QED  BY <3>1, <3>2, <3>3, Zenon
  <2>. QED  BY <2>10, <2>2, Zenon
<1>2. PICK f : /\ f = Rec(f, n) /\ find_dir(path) = f[1 .. n]
  <2>1. find_dir(path) = (CHOOSE f : f = Rec(f, n))[1 .. n]
    BY DEF find_dir, Start, FoldLeft, MapThenFoldSet, Walk
  <2>2. \E f : f = Rec(f, n)
    <3>1. n \in Nat /\ n \notin Short  BY <1>1, Zenon
    <3>. QED  BY <3>1, Zenon
  <2>. QED  BY <2>1, <2>2, Zenon
<1>. DEFINE g == [k \in 0 .. n |-> f[1 .. k]]
<1>3. g[0] = Start(path)
  <2>1. 1 .. 0 = {} /\ {} \in SUBSET (1 .. n)  OBVIOUS
  <2>. QED  BY <2>1, <1>2
<1>4. ASSUME NEW k \in 1 .. n PROVE g[k] = Walk(g[k - 1], path.names[k])
  <2>1. Max(1 .. k) = k  BY MaxOf
  <2>2. (1 .. k) \ {k} = 1 .. (k - 1)  OBVIOUS
  <2>3. 1 .. k \in SUBSET (1 .. n) /\ 1 .. k # {}
    <3>1. k \in Nat /\ 1 <= k /\ k <= n  OBVIOUS
    <3>2. k \in 1 .. k /\ \A x \in 1 .. k : x \in 1 .. n  BY <3>1
    <3>. QED  BY <3>2
  <2>4. f[1 .. k] = Walk(f[1 .. (k - 1)], path.names[k])  BY <1>2, <2>1, <2>2, <2>3, Zenon
  <2>. QED  BY <2>4
<1>5. n \in 0 .. n /\ g[n] = f[1 .. n]  OBVIOUS
<1>. HIDE DEF g
<1>. QED  BY <1>2, <1>3, <1>4, <1>5, Zenon

\* First fit: the least of a set of numbers is in it.
LEMMA LeastIn ==
  ASSUME NEW S, S \subseteq Nat, S # {}
  PROVE  Least(S) \in S /\ \A y \in S : Least(S) <= y
  BY HasLeast, Zenon DEF Least

\* A name that is found is an entry of the directory, and leads into the tree.
LEMMA LookedUp ==
  ASSUME NEW T, Good(disk, T), NEW i \in T, NEW name, Found(i, name)
  PROVE  /\ Folder(disk, i) /\ lookup(i, name) \in T
         /\ Least(Named(Entries(i), name)) \in 1 .. Len(Entries(i))
         /\ Entries(i)[Least(Named(Entries(i), name))].name = name
<1>1. disk \in Disks /\ Shape(disk, T) /\ Hang(disk, T, Kids(disk, T))  BY DEF Good
<1>2. T = Reached  BY TreeIsReached DEF TreeReached
<1>3. i \in Ino  BY <1>1 DEF Hang
<1>4. DOMAIN Entries(i) = 1 .. Len(Entries(i)) /\ Len(Entries(i)) \in Nat
  BY <1>1, <1>3, EntriesTyped
<1>. DEFINE at == Named(Entries(i), name)
<1>5. at \subseteq 1 .. Len(Entries(i)) /\ at # {}  BY <1>4 DEF Named, Found
<1>6. at \subseteq Nat  BY <1>4, <1>5
<1>. HIDE DEF at
<1>7. Least(at) \in at  BY <1>5, <1>6, LeastIn, Zenon
<1>8. Entries(i)[Least(at)].name = name  BY <1>7 DEF at, Named
<1>9. Folder(disk, i)
  <2>1. SUFFICES ASSUME ~ Folder(disk, i) PROVE FALSE  OBVIOUS
  <2>2. disk.inode[i].n = 0  BY <2>1, <1>1 DEF Shape
  <2>3. Entries(i) = <<>>  BY <2>2, <1>1, <1>3, EntSeq, SameEntries
  <2>4. Len(Entries(i)) = 0  BY <2>3
  <2>5. 1 .. 0 = {}  OBVIOUS
  <2>. QED  BY <2>4, <2>5, <1>5, Zenon
<1>10. lookup(i, name) \in T
  <2>1. Least(at) \in DOMAIN Entries(i)  BY <1>4, <1>5, <1>7, Zenon
  <2>2. Entries(i)[Least(at)].ino \in Named1(i)
    BY <2>1, <1>9, SameEntries DEF Named1, Range
  <2>3. \A j \in Ino : Named1(j) \subseteq Ino  BY <1>1, NamedTyped
  <2>4. Named1(i) \subseteq Reached  BY <2>3, <1>2, ReachedLeast
  <2>. QED  BY <2>2, <2>4, <1>2 DEF at, lookup
<1>. QED  BY <1>5, <1>7, <1>8, <1>9, <1>10 DEF at

\* A path leads into the tree, however far.
LEMMA PathsStay ==
  ASSUME NEW T, Good(disk, T), current \in T, NEW path \in Path
  PROVE  find_dir(path).ok \in BOOLEAN /\ find_dir(path).at \in T
<1>1. PICK n \in Nat : DOMAIN path.names = 1 .. n
  <2>1. path.names \in Seq(Name \cup {".", ".."})  BY DEF Path
  <2>. QED  BY <2>1, LenProperties
<1>2. PICK g : /\ g[0] = Start(path) /\ find_dir(path) = g[n]
               /\ \A k \in 1 .. n : g[k] = Walk(g[k - 1], path.names[k])
  BY <1>1, NameByName
<1>. DEFINE W2 == [ok : BOOLEAN, at : T]
            B == {k \in 0 .. n : g[k] \notin W2}
<1>3. B \subseteq 0 .. n  OBVIOUS
<1>4. 0 \notin B
  <2>1. Root \in T  BY DEF Good, Hang
  <2>2. PICK v \in T : v = IF path.absolute THEN Root ELSE current  BY <2>1
  <2>3. g[0] = [ok |-> TRUE, at |-> v]  BY <2>2, <1>2 DEF Start
  <2>4. g[0] \in W2  BY <2>3
  <2>. QED  BY <2>4
<1>5. ASSUME NEW k \in 1 .. n, k - 1 \notin B PROVE k \notin B
  <2>1. k - 1 \in 0 .. n  BY <1>1
  <2>2. g[k - 1] \in W2  BY <1>5, <2>1
  <2>3. CASE g[k - 1].ok /\ Found(g[k - 1].at, path.names[k])
    <3>1. g[k - 1].at \in T  BY <2>2
    <3>2. lookup(g[k - 1].at, path.names[k]) \in T  BY <2>3, <3>1, LookedUp
    <3>3. g[k] = [ok |-> TRUE, at |-> lookup(g[k - 1].at, path.names[k])]
      BY <2>3, <1>2, Zenon DEF Walk
    <3>4. PICK v \in T : v = lookup(g[k - 1].at, path.names[k])  BY <3>2
    <3>5. g[k] = [ok |-> TRUE, at |-> v]  BY <3>3, <3>4
    <3>6. g[k] \in W2  BY <3>5
    <3>. QED  BY <3>6
  <2>4. CASE ~ (g[k - 1].ok /\ Found(g[k - 1].at, path.names[k]))
    <3>1. g[k] = [g[k - 1] EXCEPT !.ok = FALSE]  BY <2>4, <1>2, Zenon DEF Walk
    <3>. QED  BY <3>1, <2>2, Zenon
  <2>. QED  BY <2>3, <2>4
<1>6. \A k \in 1 .. n : k \in B => k - 1 \in B  BY <1>5
<1>. HIDE DEF B
<1>7. B = {}  BY <1>3, <1>4, <1>6, NoFirst, Zenon
<1>8. g[n] \in W2
  <2>1. n \in 0 .. n  OBVIOUS
  <2>. QED  BY <2>1, <1>7 DEF B
<1>. QED  BY <1>2, <1>8

-----------------------------------------------------------------------------
(* Writes to the card, one by one. *)

HasImap(d, e, v) ==
  /\ e \in Disks /\ e.imap = v /\ e.magic = d.magic /\ e.bmap = d.bmap
  /\ e.inode = d.inode /\ e.data = d.data
HasBmap(d, e, v) ==
  /\ e \in Disks /\ e.bmap = v /\ e.magic = d.magic /\ e.imap = d.imap
  /\ e.inode = d.inode /\ e.data = d.data
HasInode(d, e, i, v) ==
  /\ e \in Disks /\ e.inode = [d.inode EXCEPT ![i] = v] /\ e.magic = d.magic
  /\ e.imap = d.imap /\ e.bmap = d.bmap /\ e.data = d.data
HasData(d, e, b, v) ==
  /\ e \in Disks /\ e.data = [d.data EXCEPT ![b] = v] /\ e.magic = d.magic
  /\ e.imap = d.imap /\ e.bmap = d.bmap /\ e.inode = d.inode

LEMMA WriteImap ==
  ASSUME NEW d \in Disks, NEW i \in Ino
  PROVE  /\ HasImap(d, Write(d, W("imap", i, TRUE)), d.imap \cup {i})
         /\ HasImap(d, Write(d, W("imap", i, FALSE)), d.imap \ {i})
<1>1. /\ Write(d, W("imap", i, TRUE)) = [d EXCEPT !.imap = d.imap \cup {i}]
      /\ Write(d, W("imap", i, FALSE)) = [d EXCEPT !.imap = d.imap \ {i}]
  BY DEF Write, W, Disks
<1>2. d.imap \cup {i} \in SUBSET Ino /\ d.imap \ {i} \in SUBSET Ino  BY DiskTypes
<1>3. ASSUME NEW v \in SUBSET Ino PROVE HasImap(d, [d EXCEPT !.imap = v], v)
  BY Zenon DEF HasImap, Disks
<1>. QED  BY <1>1, <1>2, <1>3, Zenon

LEMMA WriteBmap ==
  ASSUME NEW d \in Disks, NEW b \in Block
  PROVE  /\ HasBmap(d, Write(d, W("bmap", b, TRUE)), d.bmap \cup {b})
         /\ HasBmap(d, Write(d, W("bmap", b, FALSE)), d.bmap \ {b})
<1>1. /\ Write(d, W("bmap", b, TRUE)) = [d EXCEPT !.bmap = d.bmap \cup {b}]
      /\ Write(d, W("bmap", b, FALSE)) = [d EXCEPT !.bmap = d.bmap \ {b}]
  BY DEF Write, W, Disks
<1>2. d.bmap \cup {b} \in SUBSET Block /\ d.bmap \ {b} \in SUBSET Block  BY DiskTypes
<1>3. ASSUME NEW v \in SUBSET Block PROVE HasBmap(d, [d EXCEPT !.bmap = v], v)
  BY Zenon DEF HasBmap, Disks
<1>. QED  BY <1>1, <1>2, <1>3, Zenon

LEMMA WriteInode ==
  ASSUME NEW d \in Disks, NEW i \in Ino, NEW v \in Inodes
  PROVE  HasInode(d, Write(d, W("inode", i, v)), i, v)
<1>1. Write(d, W("inode", i, v)) = [d EXCEPT !.inode[i] = v]  BY DEF Write, W
<1>. QED  BY <1>1 DEF HasInode, Disks

LEMMA WriteData ==
  ASSUME NEW d \in Disks, NEW b \in Block, NEW v \in Seq(Dentries)
  PROVE  HasData(d, Write(d, W("data", b, v)), b, v)
<1>1. b # 0  BY DEF Block
<1>2. Write(d, W("data", b, v)) = [d EXCEPT !.data[b] = v]  BY <1>1 DEF Write, W
<1>. QED  BY <1>2, Zenon DEF HasData, Disks

\* What is on the card after the first k writes of a call.
Stages(g, d, ws, n) ==
  /\ Writes(g, d, ws, n)
  /\ \A k \in 0 .. n : WrittenOver(d, SubSeq(ws, 1, k)) = g[k]
LEMMA WriteStages ==
  ASSUME NEW d, NEW S, NEW ws \in Seq(S), NEW n \in Nat, n = Len(ws)
  PROVE  \E g : Stages(g, d, ws, n)
<1>1. DOMAIN ws = 1 .. n  BY LenProperties
<1>2. PICK w : Writes(w, d, ws, n)  BY <1>1, WriteByWrite, Zenon
<1>3. ASSUME NEW k \in 0 .. n PROVE WrittenOver(d, SubSeq(ws, 1, k)) = w[k]
  <2>0. PICK us : us = SubSeq(ws, 1, k)  BY Zenon
  <2>1. us \in Seq(S) /\ Len(us) = k /\ \A j \in 1 .. k : us[j] = ws[j]
    <3>1. 1 \in 1 .. (Len(ws) + 1) /\ k \in 1 - 1 .. Len(ws)  OBVIOUS
    <3>2. k - 1 + 1 = k /\ \A j \in 1 .. k : 1 + j - 1 = j  OBVIOUS
    <3>. QED  BY <2>0, <3>1, <3>2, SubSeqProperties
  <2>2. DOMAIN us = 1 .. k /\ k \in Nat  BY <2>1, LenProperties
  <2>3. PICK h : Writes(h, d, us, k)  BY <2>2, WriteByWrite, Zenon
  <2>. DEFINE B == {j \in 0 .. k : h[j] # w[j]}
  <2>4. B \subseteq 0 .. k /\ 0 \notin B  BY <2>3, <1>2 DEF Writes
  <2>5. ASSUME NEW j \in 1 .. k, j - 1 \notin B PROVE j \notin B
    <3>1. j - 1 \in 0 .. k /\ j \in 1 .. n  OBVIOUS
    <3>2. h[j - 1] = w[j - 1]  BY <2>5, <3>1
    <3>3. h[j] = w[j]  BY <3>1, <3>2, <2>1, <2>3, <1>2 DEF Writes
    <3>. QED  BY <3>3
  <2>6. \A j \in 1 .. k : j \in B => j - 1 \in B  BY <2>5
  <2>. HIDE DEF B
  <2>7. B = {}  BY <2>2, <2>4, <2>6, NoFirst, Zenon
  <2>8. k \in 0 .. k  BY <2>2
  <2>9. h[k] = w[k]  BY <2>7, <2>8 DEF B
  <2>. QED  BY <2>0, <2>3, <2>9 DEF Writes
<1>4. Stages(w, d, ws, n)  BY <1>2, <1>3 DEF Stages
<1>. QED  BY <1>4

\* The entries of an inode on a card whose blocks changed.
LEMMA SameEnt ==
  ASSUME NEW d, NEW e, NEW i, e.inode[i] = d.inode[i],
         e.data[d.inode[i].block] = d.data[d.inode[i].block]
  PROVE  Agree(d, e, i)
  BY DEF Agree, Ent, Buf

\* The directory whose block holds one more entry than its inode says.
LEMMA HalfNamed ==
  ASSUME NEW d \in Disks, NEW T, Shape(d, T), NEW c \in T, c \in Ino, Folder(d, c), NEW f \in Dentries,
         NEW e, e.inode[c] = d.inode[c], e.data[d.inode[c].block] = Append(Ent(d, c), f)
  PROVE  Agree(d, e, c)
<1>1. Len(Ent(d, c)) = d.inode[c].n /\ d.inode[c].block \in d.bmap  BY DEF Shape
<1>2. d.inode[c].block # 0
  <2>1. d.bmap \subseteq Block  BY DiskTypes
  <2>. QED  BY <2>1, <1>1 DEF Block
<1>3. Ent(d, c) \in Seq(Dentries)  BY EntSeq
<1>4. Ent(e, c) = Cut(Append(Ent(d, c), f), Len(Ent(d, c)))  BY <1>1, <1>2 DEF Ent, Buf
<1>5. Ent(e, c) = Ent(d, c)
  <2>. DEFINE es == Ent(d, c)
  <2>1. es \in Seq(Dentries) /\ Ent(e, c) = Cut(Append(es, f), Len(es))  BY <1>3, <1>4
  <2>. SUFFICES Ent(e, c) = es  OBVIOUS
  <2>. HIDE DEF es
  <2>2. PICK n \in Nat : n = Len(es)  BY <2>1, LenProperties
  <2>3. /\ Append(es, f) \in Seq(Dentries) /\ Len(Append(es, f)) = n + 1
        /\ \A k \in 1 .. n : Append(es, f)[k] = es[k]
    BY <2>1, <2>2, AppendProperties
  <2>4. n <= Len(Append(es, f))  BY <2>2, <2>3
  <2>5. /\ Cut(Append(es, f), n) \in Seq(Dentries) /\ Len(Cut(Append(es, f), n)) = n
        /\ \A k \in 1 .. n : Cut(Append(es, f), n)[k] = Append(es, f)[k]
    BY <2>3, <2>4, CutFacts, Zenon
  <2>6. \A k \in 1 .. n : Cut(Append(es, f), n)[k] = es[k]  BY <2>3, <2>5
  <2>7. Cut(Append(es, f), n) = es  BY <2>1, <2>2, <2>5, <2>6, SeqEqual
  <2>. QED  BY <2>1, <2>2, <2>7
<1>. QED  BY <1>5 DEF Agree

\* The directory when both are written.
Add(d, c) == [d.inode[c] EXCEPT !.nlinks = @ + 1, !.n = @ + 1]
BothWritten(d, e, T, c, f) ==
  /\ d \in Disks /\ Shape(d, T) /\ c \in T /\ c \in Ino /\ Folder(d, c) /\ f \in Dentries
  /\ e.inode[c] = Add(d, c) /\ e.data[d.inode[c].block] = Append(Ent(d, c), f)
LEMMA FullyNamed ==
  ASSUME NEW d, NEW T, NEW c, NEW f, NEW e, BothWritten(d, e, T, c, f)
  PROVE  Grows(d, e, c, f)
<1>. /\ d \in Disks /\ Shape(d, T) /\ c \in T /\ c \in Ino /\ Folder(d, c) /\ f \in Dentries
     /\ e.inode[c] = [d.inode[c] EXCEPT !.nlinks = @ + 1, !.n = @ + 1]
     /\ e.data[d.inode[c].block] = Append(Ent(d, c), f)
  BY DEF BothWritten, Add
<1>1. Len(Ent(d, c)) = d.inode[c].n /\ d.inode[c].block \in d.bmap  BY DEF Shape
<1>2. d.inode[c].block # 0 /\ d.inode[c] \in Inodes
  <2>1. d.bmap \subseteq Block /\ d.inode[c] \in Inodes  BY DiskTypes
  <2>. QED  BY <2>1, <1>1 DEF Block
<1>3. Ent(d, c) \in Seq(Dentries)  BY EntSeq
<1>4. Ent(e, c) = Cut(Append(Ent(d, c), f), Len(Ent(d, c)) + 1)
  <2>1. e.inode[c].n = d.inode[c].n + 1 /\ e.inode[c].block = d.inode[c].block
    BY <1>2 DEF Inodes
  <2>. QED  BY <2>1, <1>1, <1>2, Zenon DEF Ent, Buf
<1>5. Ent(e, c) = Append(Ent(d, c), f)
  <2>. DEFINE es == Ent(d, c)
  <2>1. es \in Seq(Dentries) /\ Ent(e, c) = Cut(Append(es, f), Len(es) + 1)  BY <1>3, <1>4
  <2>. SUFFICES Ent(e, c) = Append(es, f)  OBVIOUS
  <2>. HIDE DEF es
  <2>2. Append(es, f) \in Seq(Dentries) /\ Len(Append(es, f)) = Len(es) + 1
    BY <2>1, AppendProperties
  <2>. DEFINE as == Append(es, f)
  <2>3. as \in Seq(Dentries) /\ Ent(e, c) = Cut(as, Len(as))  BY <2>1, <2>2
  <2>. SUFFICES Ent(e, c) = as  OBVIOUS
  <2>. HIDE DEF as
  <2>4. Len(as) \in Nat  BY <2>3, LenProperties, Zenon
  <2>5. Cut(as, Len(as)) = as  BY <2>3, <2>4, CutFacts, Zenon
  <2>. QED  BY <2>3, <2>5
<1>. QED  BY <1>5 DEF Grows

-----------------------------------------------------------------------------
(* do_mkdir and do_touch, write by write. *)

\* The card between the first and the last write of a call that makes x, with
\* the block b, in c: what is in the tree is as before.
Halfway(d, e, T, c, x, b, f) ==
  /\ c \in T /\ Folder(d, c) /\ x \in Ino \ d.imap /\ b \in Block \ d.bmap /\ f \in Dentries
  /\ e \in Disks /\ e.magic
  /\ \/ e.imap = d.imap /\ e.bmap = d.bmap
     \/ e.imap = d.imap \cup {x} /\ e.bmap = d.bmap
     \/ e.imap = d.imap \cup {x} /\ e.bmap = d.bmap \cup {b}
  /\ \A i \in Ino \ {x} : e.inode[i] = d.inode[i]
  /\ \A j \in Block \ {b} : \/ e.data[j] = d.data[j]
                            \/ j = d.inode[c].block /\ e.data[j] = Append(Ent(d, c), f)

LEMMA HalfwayGood ==
  ASSUME NEW d, NEW e, NEW T, Good(d, T), NEW c, NEW x, NEW b, NEW f,
         Halfway(d, e, T, c, x, b, f)
  PROVE  Good(e, T)
<1>1. /\ d \in Disks /\ Shape(d, T) /\ Hang(d, T, Kids(d, T))
      /\ Cardinality(d.bmap) <= Cardinality(d.imap)
  BY DEF Good
<1>2. /\ c \in T /\ Folder(d, c) /\ x \in Ino \ d.imap /\ b \in Block \ d.bmap /\ f \in Dentries
      /\ e \in Disks /\ e.magic
  BY DEF Halfway
<1>3. /\ \A i \in Ino \ {x} : e.inode[i] = d.inode[i]
      /\ \A j \in Block \ {b} : \/ e.data[j] = d.data[j]
                                \/ j = d.inode[c].block /\ e.data[j] = Append(Ent(d, c), f)
  BY DEF Halfway
<1>4. \/ e.imap = d.imap /\ e.bmap = d.bmap
      \/ e.imap = d.imap \cup {x} /\ e.bmap = d.bmap
      \/ e.imap = d.imap \cup {x} /\ e.bmap = d.bmap \cup {b}
  BY DEF Halfway
<1>5. ASSUME NEW i \in T PROVE Agree(d, e, i)
  <2>1. i \in Ino \ {x} /\ d.inode[i].block \in d.bmap /\ c \in Ino
    BY <1>1, <1>2 DEF Shape, Hang
  <2>2. d.inode[i].block \in Block \ {b}  BY <2>1, <1>1, <1>2, DiskTypes
  <2>3. e.inode[i] = d.inode[i]  BY <2>1, <1>3
  <2>4. CASE e.data[d.inode[i].block] = d.data[d.inode[i].block]  BY <2>3, <2>4, SameEnt
  <2>5. CASE /\ d.inode[i].block = d.inode[c].block
             /\ e.data[d.inode[i].block] = Append(Ent(d, c), f)
    <3>1. i = c  BY <2>5, <1>1, <1>2 DEF Shape
    <3>. QED  BY <3>1, <2>1, <2>3, <2>5, <1>1, <1>2, HalfNamed
  <2>. QED  BY <2>2, <2>4, <2>5, <1>3
<1>6. d.imap \subseteq e.imap /\ d.bmap \subseteq e.bmap  BY <1>4
<1>7. Cardinality(e.bmap) <= Cardinality(e.imap)
  <2>1. /\ IsFiniteSet(d.imap) /\ IsFiniteSet(d.bmap)
        /\ Cardinality(d.imap) \in Nat /\ Cardinality(d.bmap) \in Nat
    BY <1>1, DiskTypes
  <2>2. Cardinality(d.imap \cup {x}) = Cardinality(d.imap) + 1  BY <2>1, <1>2, FS_AddElement, Zenon
  <2>3. Cardinality(d.bmap \cup {b}) = Cardinality(d.bmap) + 1  BY <2>1, <1>2, FS_AddElement, Zenon
  <2>. QED  BY <2>1, <2>2, <2>3, <1>1, <1>4
<1>. QED  BY <1>2, <1>5, <1>6, <1>7, Unseen

\* What the six writes of do_mkdir are, and the five of do_touch.
DirWrites(d, c, x, b, f) ==
  <<W("imap", x, TRUE), W("bmap", b, TRUE), W("inode", x, Inode("DIR", 0, 2, b)),
    W("data", b, <<Dentry("DIR", x, "."), Dentry("DIR", c, "..")>>),
    W("data", d.inode[c].block, Append(Ent(d, c), f)), W("inode", c, Add(d, c))>>
FileWrites(d, c, x, b, f) ==
  <<W("imap", x, TRUE), W("bmap", b, TRUE), W("inode", x, Inode("FILE", 1, 0, b)),
    W("data", d.inode[c].block, Append(Ent(d, c), f)), W("inode", c, Add(d, c))>>

\* What both start from.
Before(d, T, c, x, b, f) ==
  /\ Good(d, T) /\ c \in T /\ Folder(d, c) /\ x \in Ino \ d.imap /\ b \in Block \ d.bmap
  /\ f \in Dentries /\ f.ino = x /\ f.name \in Name /\ Named(Ent(d, c), f.name) = {}
  /\ d.inode[c].n < PerBlock

LEMMA BeforeFacts ==
  ASSUME NEW d, NEW T, NEW c, NEW x, NEW b, NEW f, Before(d, T, c, x, b, f)
  PROVE  /\ d \in Disks /\ d.magic /\ Shape(d, T) /\ T \subseteq Ino /\ x \notin T /\ c # x
         /\ c \in Ino /\ x \in Ino /\ b \in Block /\ d.inode[c].block \in Block \ {b}
         /\ Add(d, c) \in Inodes /\ Append(Ent(d, c), f) \in Seq(Dentries)
         /\ \A i \in T : d.inode[i].block \in Block \ {b}
         /\ \A i \in T \ {c} : d.inode[i].block # d.inode[c].block
<1>1. /\ d \in Disks /\ d.magic /\ Shape(d, T) /\ T \subseteq Ino
      /\ c \in T /\ x \in Ino \ d.imap /\ b \in Block \ d.bmap /\ f \in Dentries
  BY DEF Before, Good, Hang
<1>2. \A i \in T : /\ i \in d.imap /\ d.inode[i].block \in d.bmap
                   /\ \A j \in T : d.inode[j].block = d.inode[i].block => j = i
  BY <1>1 DEF Shape
<1>3. d.bmap \subseteq Block /\ d.inode[c] \in Inodes  BY <1>1, DiskTypes
<1>4. Add(d, c) \in Inodes
  <2>1. PICK v \in Inodes : v = d.inode[c]  BY <1>3
  <2>2. v.nlinks + 1 \in Nat /\ v.n + 1 \in Nat  BY DEF Inodes
  <2>3. PICK j \in Nat, k \in Nat : j = v.nlinks + 1 /\ k = v.n + 1  BY <2>2
  <2>4. Add(d, c) = [v EXCEPT !.nlinks = j, !.n = k]  BY <2>1, <2>3 DEF Add, Inodes
  <2>5. [v EXCEPT !.nlinks = j, !.n = k] \in Inodes  BY Zenon DEF Inodes
  <2>. QED  BY <2>4, <2>5
<1>5. Ent(d, c) \in Seq(Dentries)  BY <1>1, EntSeq
<1>6. Append(Ent(d, c), f) \in Seq(Dentries)  BY <1>1, <1>5, AppendProperties
<1>. QED  BY <1>1, <1>2, <1>3, <1>4, <1>6

LEMMA DirMade ==
  ASSUME NEW d, NEW T, NEW c, NEW x, NEW b, NEW f, Before(d, T, c, x, b, f), f.mode = "DIR",
         NEW ws, ws = DirWrites(d, c, x, b, f)
  PROVE  /\ Len(ws) = 6 /\ \A k \in 0 .. 5 : Good(WrittenOver(d, SubSeq(ws, 1, k)), T)
         /\ Creates(d, WrittenOver(d, ws), T, c, x, b, f)
<1>. DEFINE own == <<Dentry("DIR", x, "."), Dentry("DIR", c, "..")>>
            more == Append(Ent(d, c), f)
            at == d.inode[c].block
            new == Inode("DIR", 0, 2, b)
<1>1. /\ d \in Disks /\ d.magic /\ Shape(d, T) /\ T \subseteq Ino /\ x \notin T /\ c # x
      /\ c \in Ino /\ x \in Ino /\ b \in Block /\ at \in Block \ {b}
      /\ Add(d, c) \in Inodes /\ more \in Seq(Dentries)
      /\ \A i \in T : d.inode[i].block \in Block \ {b}
      /\ \A i \in T \ {c} : d.inode[i].block # at
  BY BeforeFacts
<1>2. own \in Seq(Dentries) /\ new \in Inodes
  <2>1. Dentry("DIR", x, ".") \in Dentries /\ Dentry("DIR", c, "..") \in Dentries
    BY <1>1 DEF Dentry, Dentries
  <2>. QED  BY <2>1, <1>1 DEF Inode, Inodes
<1>20. /\ x \in Ino /\ c \in Ino /\ b \in Block /\ at \in Block /\ Add(d, c) \in Inodes
       /\ more \in Seq(Dentries) /\ own \in Seq(Dentries) /\ new \in Inodes
  BY <1>1, <1>2
<1>3. \E S : ws \in Seq(S) /\ Len(ws) = 6
  <2>. DEFINE S == {ws[k] : k \in 1 .. 6}
  <2>1. Len(ws) = 6 /\ ws = [k \in 1 .. 6 |-> ws[k]]  BY DEF DirWrites
  <2>2. ws \in [1 .. 6 -> S]  BY <2>1
  <2>. HIDE DEF S
  <2>3. 6 \in Nat  OBVIOUS
  <2>4. ws \in Seq(S)  BY <2>2, <2>3, SeqDef, Zenon
  <2>. QED  BY <2>1, <2>4
<1>4. PICK g : Stages(g, d, ws, 6)  BY <1>3, WriteStages, Zenon
<1>5. /\ g[0] = d /\ WrittenOver(d, ws) = g[6]
      /\ \A k \in 0 .. 6 : WrittenOver(d, SubSeq(ws, 1, k)) = g[k]
      /\ \A k \in 1 .. 6 : g[k] = Write(g[k - 1], ws[k])
  BY <1>4 DEF Stages, Writes
<1>. HIDE DEF own, more, at, new
<1>6. /\ g[1] = Write(d, W("imap", x, TRUE)) /\ g[2] = Write(g[1], W("bmap", b, TRUE))
      /\ g[3] = Write(g[2], W("inode", x, new)) /\ g[4] = Write(g[3], W("data", b, own))
      /\ g[5] = Write(g[4], W("data", at, more)) /\ g[6] = Write(g[5], W("inode", c, Add(d, c)))
  <2>1. /\ ws[1] = W("imap", x, TRUE) /\ ws[2] = W("bmap", b, TRUE)
        /\ ws[3] = W("inode", x, new) /\ ws[4] = W("data", b, own)
        /\ ws[5] = W("data", at, more) /\ ws[6] = W("inode", c, Add(d, c))
    BY DEF DirWrites, own, more, at, new
  <2>2. /\ g[1] = Write(g[0], ws[1]) /\ g[2] = Write(g[1], ws[2]) /\ g[3] = Write(g[2], ws[3])
        /\ g[4] = Write(g[3], ws[4]) /\ g[5] = Write(g[4], ws[5]) /\ g[6] = Write(g[5], ws[6])
    <3>1. /\ 1 \in 1 .. 6 /\ 2 \in 1 .. 6 /\ 3 \in 1 .. 6 /\ 4 \in 1 .. 6 /\ 5 \in 1 .. 6
          /\ 6 \in 1 .. 6 /\ 1 - 1 = 0 /\ 2 - 1 = 1 /\ 3 - 1 = 2 /\ 4 - 1 = 3 /\ 5 - 1 = 4
          /\ 6 - 1 = 5
      OBVIOUS
    <3>. QED  BY <3>1, <1>5
  <2>. QED  BY <2>1, <2>2, <1>5
<1>7. /\ g[1] \in Disks /\ g[1].magic /\ g[1].imap = d.imap \cup {x} /\ g[1].bmap = d.bmap
      /\ g[1].inode = d.inode /\ g[1].data = d.data
  <2>1. HasImap(d, g[1], d.imap \cup {x})  BY <1>1, <1>6, WriteImap, Zenon
  <2>. QED  BY <2>1, <1>1 DEF HasImap
<1>8. /\ g[2] \in Disks /\ g[2].magic /\ g[2].imap = d.imap \cup {x}
      /\ g[2].bmap = d.bmap \cup {b} /\ g[2].inode = d.inode /\ g[2].data = d.data
  <2>1. HasBmap(g[1], g[2], g[1].bmap \cup {b})  BY <1>1, <1>6, <1>7, WriteBmap, Zenon
  <2>. QED  BY <2>1, <1>7 DEF HasBmap
<1>9. /\ g[3] \in Disks /\ g[3].magic /\ g[3].imap = d.imap \cup {x}
      /\ g[3].bmap = d.bmap \cup {b} /\ g[3].inode = [d.inode EXCEPT ![x] = new]
      /\ g[3].data = d.data
  <2>0. g[2] \in Disks  BY <1>8
  <2>1. HasInode(g[2], g[3], x, new)
    <3>1. HasInode(g[2], Write(g[2], W("inode", x, new)), x, new)  BY <2>0, <1>20, WriteInode
    <3>. QED  BY <3>1, <1>6, Zenon
  <2>. QED  BY <2>1, <1>8 DEF HasInode
<1>10. /\ g[4] \in Disks /\ g[4].magic /\ g[4].imap = d.imap \cup {x}
       /\ g[4].bmap = d.bmap \cup {b} /\ g[4].inode = [d.inode EXCEPT ![x] = new]
       /\ g[4].data = [d.data EXCEPT ![b] = own]
  <2>0. g[3] \in Disks  BY <1>9
  <2>1. HasData(g[3], g[4], b, own)
    <3>1. HasData(g[3], Write(g[3], W("data", b, own)), b, own)  BY <2>0, <1>20, WriteData
    <3>. QED  BY <3>1, <1>6, Zenon
  <2>. QED  BY <2>1, <1>9 DEF HasData
<1>11. /\ g[5] \in Disks /\ g[5].magic /\ g[5].imap = d.imap \cup {x}
       /\ g[5].bmap = d.bmap \cup {b} /\ g[5].inode = [d.inode EXCEPT ![x] = new]
       /\ g[5].data = [[d.data EXCEPT ![b] = own] EXCEPT ![at] = more]
  <2>0. g[4] \in Disks  BY <1>10
  <2>1. HasData(g[4], g[5], at, more)
    <3>1. HasData(g[4], Write(g[4], W("data", at, more)), at, more)  BY <2>0, <1>20, WriteData
    <3>. QED  BY <3>1, <1>6, Zenon
  <2>. QED  BY <2>1, <1>10 DEF HasData
<1>12. /\ g[6] \in Disks /\ g[6].magic /\ g[6].imap = d.imap \cup {x}
       /\ g[6].bmap = d.bmap \cup {b}
       /\ g[6].inode = [[d.inode EXCEPT ![x] = new] EXCEPT ![c] = Add(d, c)]
       /\ g[6].data = [[d.data EXCEPT ![b] = own] EXCEPT ![at] = more]
  <2>0. g[5] \in Disks  BY <1>11
  <2>1. HasInode(g[5], g[6], c, Add(d, c))
    <3>1. HasInode(g[5], Write(g[5], W("inode", c, Add(d, c))), c, Add(d, c))  BY <2>0, <1>20, WriteInode
    <3>. QED  BY <3>1, <1>6, Zenon
  <2>. QED  BY <2>1, <1>11 DEF HasInode
<1>13. d.inode \in [Ino -> Inodes] /\ d.data \in [Block -> Seq(Dentries)]  BY <1>1 DEF Disks
<1>14. /\ \A i \in Ino \ {x} : /\ g[3].inode[i] = d.inode[i] /\ g[4].inode[i] = d.inode[i]
                               /\ g[5].inode[i] = d.inode[i]
       /\ \A i \in Ino \ {x, c} : g[6].inode[i] = d.inode[i]
       /\ g[6].inode[c] = Add(d, c) /\ g[6].inode[x] = new
  BY <1>1, <1>9, <1>10, <1>11, <1>12, <1>13
<1>15. /\ \A j \in Block \ {b} : g[4].data[j] = d.data[j]
       /\ \A j \in Block \ {b, at} : g[5].data[j] = d.data[j] /\ g[6].data[j] = d.data[j]
       /\ g[5].data[at] = more /\ g[6].data[at] = more /\ g[6].data[b] = own
  BY <1>1, <1>10, <1>11, <1>12, <1>13
<1>16. \A k \in 0 .. 5 : Halfway(d, g[k], T, c, x, b, f)
  <2>0. /\ c \in T /\ Folder(d, c) /\ x \in Ino \ d.imap /\ b \in Block \ d.bmap
        /\ f \in Dentries
    BY DEF Before
  <2>1. Halfway(d, g[0], T, c, x, b, f)  BY <2>0, <1>1, <1>5 DEF Halfway
  <2>2. Halfway(d, g[1], T, c, x, b, f)  BY <2>0, <1>7 DEF Halfway
  <2>3. Halfway(d, g[2], T, c, x, b, f)  BY <2>0, <1>8 DEF Halfway
  <2>4. Halfway(d, g[3], T, c, x, b, f)  BY <2>0, <1>9, <1>14 DEF Halfway
  <2>5. Halfway(d, g[4], T, c, x, b, f)  BY <2>0, <1>10, <1>14, <1>15 DEF Halfway
  <2>6. Halfway(d, g[5], T, c, x, b, f)
    BY <2>0, <1>11, <1>14, <1>15, Zenon DEF Halfway, at, more
  <2>7. \A k \in 0 .. 5 : k = 0 \/ k = 1 \/ k = 2 \/ k = 3 \/ k = 4 \/ k = 5  OBVIOUS
  <2>. QED  BY <2>1, <2>2, <2>3, <2>4, <2>5, <2>6, <2>7
<1>17. Good(d, T)  BY DEF Before
<1>18. \A k \in 0 .. 5 : Good(g[k], T)  BY <1>16, <1>17, HalfwayGood
<1>19. Creates(d, g[6], T, c, x, b, f)
  <2>0. /\ c \in T /\ Folder(d, c) /\ x \in Ino \ d.imap /\ b \in Block \ d.bmap
        /\ f \in Dentries /\ f.ino = x /\ f.name \in Name /\ Named(Ent(d, c), f.name) = {}
        /\ d.inode[c].n < PerBlock
    BY DEF Before
  <2>1. ASSUME NEW i \in T \ {c} PROVE Agree(d, g[6], i)
    <3>1. g[6].inode[i] = d.inode[i] /\ d.inode[i].block \in Block \ {b, at}
      BY <1>1, <1>14
    <3>2. g[6].data[d.inode[i].block] = d.data[d.inode[i].block]  BY <3>1, <1>15
    <3>. QED  BY <3>1, <3>2, SameEnt
  <2>2. Grows(d, g[6], c, f)
    <3>1. /\ g[6].inode[c] = Add(d, c)
          /\ g[6].data[d.inode[c].block] = Append(Ent(d, c), f)
      BY <1>14, <1>15 DEF at, more
    <3>2. BothWritten(d, g[6], T, c, f)  BY <3>1, <2>0, <1>1 DEF BothWritten
    <3>. QED  BY <3>2, FullyNamed
  <2>3. /\ g[6].inode[x].mode = "DIR" /\ g[6].inode[x].nlinks = 0 /\ g[6].inode[x].n = 2
        /\ g[6].inode[x].block = b
    BY <1>14 DEF new, Inode
  <2>4. Ent(g[6], x) = own
    <3>1. b # 0  BY <1>1 DEF Block
    <3>2. Ent(g[6], x) = Cut(own, 2)  BY <3>1, <2>3, <1>15 DEF Ent, Buf
    <3>3. Len(own) = 2  BY DEF own
    <3>. QED  BY <3>2, <3>3, <1>2, CutFacts, Zenon
  <2>. QED  BY <2>0, <2>1, <2>2, <2>3, <2>4, <1>12 DEF Creates, own
<1>. QED  BY <1>3, <1>5, <1>18, <1>19

LEMMA FileMade ==
  ASSUME NEW d, NEW T, NEW c, NEW x, NEW b, NEW f, Before(d, T, c, x, b, f), f.mode = "FILE",
         NEW ws, ws = FileWrites(d, c, x, b, f)
  PROVE  /\ Len(ws) = 5 /\ \A k \in 0 .. 4 : Good(WrittenOver(d, SubSeq(ws, 1, k)), T)
         /\ Creates(d, WrittenOver(d, ws), T, c, x, b, f)
<1>. DEFINE more == Append(Ent(d, c), f)
            at == d.inode[c].block
            new == Inode("FILE", 1, 0, b)
<1>1. /\ d \in Disks /\ d.magic /\ Shape(d, T) /\ T \subseteq Ino /\ x \notin T /\ c # x
      /\ c \in Ino /\ x \in Ino /\ b \in Block /\ at \in Block \ {b}
      /\ Add(d, c) \in Inodes /\ more \in Seq(Dentries)
      /\ \A i \in T : d.inode[i].block \in Block \ {b}
      /\ \A i \in T \ {c} : d.inode[i].block # at
  BY BeforeFacts
<1>2. /\ x \in Ino /\ c \in Ino /\ b \in Block /\ at \in Block /\ Add(d, c) \in Inodes
      /\ more \in Seq(Dentries) /\ new \in Inodes
  BY <1>1 DEF Inode, Inodes
<1>3. \E S : ws \in Seq(S) /\ Len(ws) = 5
  <2>. DEFINE S == {ws[k] : k \in 1 .. 5}
  <2>1. Len(ws) = 5 /\ ws = [k \in 1 .. 5 |-> ws[k]]  BY DEF FileWrites
  <2>2. ws \in [1 .. 5 -> S]  BY <2>1
  <2>. HIDE DEF S
  <2>3. 5 \in Nat  OBVIOUS
  <2>4. ws \in Seq(S)  BY <2>2, <2>3, SeqDef, Zenon
  <2>. QED  BY <2>1, <2>4
<1>4. PICK g : Stages(g, d, ws, 5)  BY <1>3, WriteStages, Zenon
<1>5. /\ g[0] = d /\ WrittenOver(d, ws) = g[5]
      /\ \A k \in 0 .. 5 : WrittenOver(d, SubSeq(ws, 1, k)) = g[k]
      /\ \A k \in 1 .. 5 : g[k] = Write(g[k - 1], ws[k])
  BY <1>4 DEF Stages, Writes
<1>. HIDE DEF more, at, new
<1>6. /\ g[1] = Write(d, W("imap", x, TRUE)) /\ g[2] = Write(g[1], W("bmap", b, TRUE))
      /\ g[3] = Write(g[2], W("inode", x, new)) /\ g[4] = Write(g[3], W("data", at, more))
      /\ g[5] = Write(g[4], W("inode", c, Add(d, c)))
  <2>1. /\ ws[1] = W("imap", x, TRUE) /\ ws[2] = W("bmap", b, TRUE)
        /\ ws[3] = W("inode", x, new) /\ ws[4] = W("data", at, more)
        /\ ws[5] = W("inode", c, Add(d, c))
    BY DEF FileWrites, more, at, new
  <2>2. /\ g[1] = Write(g[0], ws[1]) /\ g[2] = Write(g[1], ws[2]) /\ g[3] = Write(g[2], ws[3])
        /\ g[4] = Write(g[3], ws[4]) /\ g[5] = Write(g[4], ws[5])
    <3>1. /\ 1 \in 1 .. 5 /\ 2 \in 1 .. 5 /\ 3 \in 1 .. 5 /\ 4 \in 1 .. 5 /\ 5 \in 1 .. 5
          /\ 1 - 1 = 0 /\ 2 - 1 = 1 /\ 3 - 1 = 2 /\ 4 - 1 = 3 /\ 5 - 1 = 4
      OBVIOUS
    <3>. QED  BY <3>1, <1>5
  <2>. QED  BY <2>1, <2>2, <1>5
<1>7. /\ g[1] \in Disks /\ g[1].magic /\ g[1].imap = d.imap \cup {x} /\ g[1].bmap = d.bmap
      /\ g[1].inode = d.inode /\ g[1].data = d.data
  <2>1. HasImap(d, g[1], d.imap \cup {x})  BY <1>1, <1>6, WriteImap, Zenon
  <2>. QED  BY <2>1, <1>1 DEF HasImap
<1>8. /\ g[2] \in Disks /\ g[2].magic /\ g[2].imap = d.imap \cup {x}
      /\ g[2].bmap = d.bmap \cup {b} /\ g[2].inode = d.inode /\ g[2].data = d.data
  <2>1. HasBmap(g[1], g[2], g[1].bmap \cup {b})  BY <1>1, <1>6, <1>7, WriteBmap, Zenon
  <2>. QED  BY <2>1, <1>7 DEF HasBmap
<1>9. /\ g[3] \in Disks /\ g[3].magic /\ g[3].imap = d.imap \cup {x}
      /\ g[3].bmap = d.bmap \cup {b} /\ g[3].inode = [d.inode EXCEPT ![x] = new]
      /\ g[3].data = d.data
  <2>0. g[2] \in Disks  BY <1>8
  <2>1. HasInode(g[2], g[3], x, new)
    <3>1. HasInode(g[2], Write(g[2], W("inode", x, new)), x, new)  BY <2>0, <1>2, WriteInode
    <3>. QED  BY <3>1, <1>6, Zenon
  <2>. QED  BY <2>1, <1>8 DEF HasInode
<1>10. /\ g[4] \in Disks /\ g[4].magic /\ g[4].imap = d.imap \cup {x}
       /\ g[4].bmap = d.bmap \cup {b} /\ g[4].inode = [d.inode EXCEPT ![x] = new]
       /\ g[4].data = [d.data EXCEPT ![at] = more]
  <2>0. g[3] \in Disks  BY <1>9
  <2>1. HasData(g[3], g[4], at, more)
    <3>1. HasData(g[3], Write(g[3], W("data", at, more)), at, more)  BY <2>0, <1>2, WriteData
    <3>. QED  BY <3>1, <1>6, Zenon
  <2>. QED  BY <2>1, <1>9 DEF HasData
<1>11. /\ g[5] \in Disks /\ g[5].magic /\ g[5].imap = d.imap \cup {x}
       /\ g[5].bmap = d.bmap \cup {b}
       /\ g[5].inode = [[d.inode EXCEPT ![x] = new] EXCEPT ![c] = Add(d, c)]
       /\ g[5].data = [d.data EXCEPT ![at] = more]
  <2>0. g[4] \in Disks  BY <1>10
  <2>1. HasInode(g[4], g[5], c, Add(d, c))
    <3>1. HasInode(g[4], Write(g[4], W("inode", c, Add(d, c))), c, Add(d, c))
      BY <2>0, <1>2, WriteInode
    <3>. QED  BY <3>1, <1>6, Zenon
  <2>. QED  BY <2>1, <1>10 DEF HasInode
<1>12. d.inode \in [Ino -> Inodes] /\ d.data \in [Block -> Seq(Dentries)]  BY <1>1 DEF Disks
<1>13. /\ \A i \in Ino \ {x} : g[3].inode[i] = d.inode[i] /\ g[4].inode[i] = d.inode[i]
       /\ \A i \in Ino \ {x, c} : g[5].inode[i] = d.inode[i]
       /\ g[5].inode[c] = Add(d, c) /\ g[5].inode[x] = new
  BY <1>1, <1>9, <1>10, <1>11, <1>12
<1>14. /\ \A j \in Block \ {at} : g[4].data[j] = d.data[j] /\ g[5].data[j] = d.data[j]
       /\ g[4].data[at] = more /\ g[5].data[at] = more
  BY <1>1, <1>10, <1>11, <1>12
<1>15. \A k \in 0 .. 4 : Halfway(d, g[k], T, c, x, b, f)
  <2>0. /\ c \in T /\ Folder(d, c) /\ x \in Ino \ d.imap /\ b \in Block \ d.bmap
        /\ f \in Dentries
    BY DEF Before
  <2>1. Halfway(d, g[0], T, c, x, b, f)  BY <2>0, <1>1, <1>5 DEF Halfway
  <2>2. Halfway(d, g[1], T, c, x, b, f)  BY <2>0, <1>7 DEF Halfway
  <2>3. Halfway(d, g[2], T, c, x, b, f)  BY <2>0, <1>8 DEF Halfway
  <2>4. Halfway(d, g[3], T, c, x, b, f)  BY <2>0, <1>9, <1>13 DEF Halfway
  <2>5. Halfway(d, g[4], T, c, x, b, f)
    BY <2>0, <1>10, <1>13, <1>14 DEF Halfway, at, more
  <2>6. \A k \in 0 .. 4 : k = 0 \/ k = 1 \/ k = 2 \/ k = 3 \/ k = 4  OBVIOUS
  <2>. QED  BY <2>1, <2>2, <2>3, <2>4, <2>5, <2>6
<1>16. Good(d, T)  BY DEF Before
<1>17. \A k \in 0 .. 4 : Good(g[k], T)  BY <1>15, <1>16, HalfwayGood
<1>18. Creates(d, g[5], T, c, x, b, f)
  <2>0. /\ c \in T /\ Folder(d, c) /\ x \in Ino \ d.imap /\ b \in Block \ d.bmap
        /\ f \in Dentries /\ f.ino = x /\ f.name \in Name /\ Named(Ent(d, c), f.name) = {}
        /\ d.inode[c].n < PerBlock
    BY DEF Before
  <2>1. ASSUME NEW i \in T \ {c} PROVE Agree(d, g[5], i)
    <3>1. g[5].inode[i] = d.inode[i] /\ d.inode[i].block \in Block \ {at}
      BY <1>1, <1>13
    <3>2. g[5].data[d.inode[i].block] = d.data[d.inode[i].block]  BY <3>1, <1>14
    <3>. QED  BY <3>1, <3>2, SameEnt
  <2>2. Grows(d, g[5], c, f)
    <3>1. /\ g[5].inode[c] = Add(d, c)
          /\ g[5].data[d.inode[c].block] = Append(Ent(d, c), f)
      BY <1>13, <1>14 DEF at, more
    <3>2. BothWritten(d, g[5], T, c, f)  BY <3>1, <2>0, <1>1 DEF BothWritten
    <3>. QED  BY <3>2, FullyNamed
  <2>3. /\ g[5].inode[x].mode = "FILE" /\ g[5].inode[x].nlinks = 1 /\ g[5].inode[x].n = 0
        /\ g[5].inode[x].block = b
    BY <1>13 DEF new, Inode
  <2>. QED  BY <2>0, <2>1, <2>2, <2>3, <1>11 DEF Creates
<1>. QED  BY <1>3, <1>5, <1>17, <1>18

-----------------------------------------------------------------------------
(* No count of links overflows: fs.c has 512 inodes, and 128 entries fit   *)
(* in the block of a directory, two of them its own.                       *)
Roomy == NumIno * (PerBlock - 2) < 65536

Place == Ino \X (3 .. PerBlock)
LEMMA PlacesFit ==
  ASSUME Roomy, NEW S, NEW m \in Injection(S, Place)
  PROVE  IsFiniteSet(S) /\ Cardinality(S) < 65536
<1>1. IsFiniteSet(Ino) /\ Cardinality(Ino) = NumIno
  <2>1. PICK n \in Nat : n = NumIno - 1 /\ NumIno = n + 1 /\ Ino = 0 .. n
    BY FileSystemOK DEF Ino
  <2>2. IsFiniteSet(0 .. n) /\ Cardinality(0 .. n) = n - 0 + 1  BY FS_Interval
  <2>. QED  BY <2>1, <2>2
<1>2. IsFiniteSet(3 .. PerBlock) /\ Cardinality(3 .. PerBlock) = PerBlock - 2
  <2>1. PICK n \in Nat : n = PerBlock /\ n >= 2  BY FileSystemOK
  <2>2. /\ IsFiniteSet(3 .. n)
        /\ Cardinality(3 .. n) = IF 3 > n THEN 0 ELSE n - 3 + 1
    BY FS_Interval
  <2>3. CASE 3 > n  BY <2>1, <2>2, <2>3
  <2>4. CASE ~ (3 > n)  BY <2>1, <2>2, <2>4
  <2>. QED  BY <2>3, <2>4
<1>3. IsFiniteSet(Place) /\ Cardinality(Place) = NumIno * (PerBlock - 2)
  BY <1>1, <1>2, FS_Product DEF Place
<1>4. Cardinality(Place) \in Nat /\ Cardinality(Place) < 65536
  BY <1>3, FS_CardinalityType DEF Roomy
<1>5. IsFiniteSet(S) /\ Cardinality(S) <= Cardinality(Place)  BY <1>3, FS_Injection
<1>6. Cardinality(S) \in Nat  BY <1>5, FS_CardinalityType
<1>. QED  BY <1>4, <1>5, <1>6

LEMMA LinksFit ==
  ASSUME Roomy, NEW d, NEW T, Good(d, T), NEW i \in T
  PROVE  d.inode[i].nlinks \in Nat /\ d.inode[i].nlinks < 65536
<1>. DEFINE K == Kids(d, T)
<1>1. /\ d \in Disks /\ Shape(d, T) /\ Hang(d, T, K) /\ Counts(d, T, K) /\ Fits(d, T)
  BY DEF Good
<1>2. T \subseteq Ino  BY <1>1 DEF Hang
<1>3. d.inode[i].nlinks \in Nat /\ d.inode[i].n \in Nat  BY <1>1, <1>2, DiskTypes
<1>4. CASE Folder(d, i)
  <2>1. d.inode[i].nlinks = d.inode[i].n - 2 /\ d.inode[i].n <= PerBlock
    BY <1>1, <1>4, Zenon DEF Counts, Fits
  <2>2. PerBlock - 2 < 65536
    <3>1. PICK p \in Nat : p = PerBlock - 2  BY FileSystemOK
    <3>2. PICK q \in Nat : q = NumIno - 1  BY FileSystemOK
    <3>3. NumIno * (PerBlock - 2) = q * p + p  BY <3>1, <3>2, FileSystemOK
    <3>4. q * p \in Nat  OBVIOUS
    <3>. QED  BY <3>1, <3>3, <3>4 DEF Roomy
  <2>. QED  BY <2>1, <2>2, <1>3, FileSystemOK
<1>5. CASE ~ Folder(d, i)
  <2>. DEFINE L == To(K, i)
              at(l) == CHOOSE k \in 3 .. PerBlock : Ent(d, l[1])[k] = l[2]
              m == [l \in L |-> <<l[1], at(l)>>]
  <2>1. ASSUME NEW l \in L
        PROVE  /\ l[1] \in T /\ l[2] \in Dentries /\ l = <<l[1], l[2]>>
               /\ at(l) \in 3 .. PerBlock /\ Ent(d, l[1])[at(l)] = l[2]
    <3>1. l \in T \X Dentries /\ Folder(d, l[1]) /\ l[2] \in Given(Ent(d, l[1]))
      BY DEF To, Kids
    <3>2. l[1] \in T  BY <3>1
    <3>3. PICK n \in Nat : n = d.inode[l[1]].n /\ n = Len(Ent(d, l[1])) /\ n <= PerBlock
      <4>1. d.inode[l[1]].n = Len(Ent(d, l[1]))  BY <3>1, <3>2, <1>1 DEF Shape
      <4>2. d.inode[l[1]].n <= PerBlock  BY <3>1, <3>2, <1>1 DEF Fits
      <4>3. d.inode[l[1]].n \in Nat  BY <3>2, <1>1, <1>2, DiskTypes
      <4>. QED  BY <4>1, <4>2, <4>3
    <3>4. PICK k \in 3 .. n : Ent(d, l[1])[k] = l[2]  BY <3>1, <3>3 DEF Given
    <3>5. k \in 3 .. PerBlock  BY <3>3, <3>4, FileSystemOK
    <3>. QED  BY <3>1, <3>2, <3>4, <3>5
  <2>. HIDE DEF L, K, at
  <2>2. m \in [L -> Place]  BY <2>1, <1>2 DEF Place
  <2>3. \A a, b \in L : m[a] = m[b] => a = b
    <3>1. ASSUME NEW a \in L, NEW b \in L, m[a] = m[b] PROVE a = b
      <4>1. a[1] = b[1] /\ at(a) = at(b)  BY <3>1
      <4>2. a[2] = b[2]  BY <4>1, <2>1
      <4>. QED  BY <4>1, <4>2, <2>1
    <3>. QED  BY <3>1
  <2>4. m \in Injection(L, Place)
    <3>. HIDE DEF m
    <3>. QED  BY <2>2, <2>3 DEF Injection, IsInjective
  <2>. HIDE DEF m
  <2>5. Cardinality(L) < 65536  BY <2>4, PlacesFit
  <2>6. d.inode[i].nlinks = Cardinality(L)  BY <1>1, <1>5 DEF Counts, L
  <2>. QED  BY <2>5, <2>6, <1>3
<1>6. Folder(d, i) \/ ~ Folder(d, i)  OBVIOUS
<1>. QED  BY <1>4, <1>5, <1>6

\* A name of a directory leads neither to it nor to its father: a directory
\* has one name, and without it the root does not reach it.
LEMMA NoCycle ==
  ASSUME NEW d, NEW T, NEW K, Hang(d, T, K), NEW l \in K, Folder(d, l[2].ino)
  PROVE  l[2].ino # l[1] /\ l[2].ino # Father(d, l[1])
<1>. DEFINE c == l[1]
            x == l[2].ino
<1>1. /\ Root \in T /\ c \in T /\ Folder(d, c) /\ x \in T \ {Root} /\ To(K, x) = {l}
      /\ Father(d, Root) = Root
  BY DEF Hang
<1>2. \A S \in SUBSET T : Root \in S /\ (\A k \in K : k[1] \in S => k[2].ino \in S) => S = T
  BY DEF Hang
<1>3. \A k \in K : k[2].ino \in T /\ (k[2].ino = x => k = l)
  <2>1. \A k \in K : k[2].ino = x => k \in To(K, x)  BY DEF To
  <2>2. \A k \in K : k[2].ino \in T  BY DEF Hang
  <2>. QED  BY <2>1, <2>2, <1>1
<1>4. x # c
  <2>1. SUFFICES ASSUME x = c PROVE FALSE  OBVIOUS
  <2>. DEFINE S == T \ {x}
  <2>2. S \in SUBSET T /\ Root \in S  BY <1>1
  <2>3. \A k \in K : k[1] \in S => k[2].ino \in S  BY <2>1, <1>3
  <2>. HIDE DEF S
  <2>4. S = T  BY <2>2, <2>3, <1>2
  <2>. QED  BY <2>4, <1>1 DEF S
<1>5. x # Father(d, c)
  <2>1. SUFFICES ASSUME x = Father(d, c) PROVE FALSE  OBVIOUS
  <2>2. c # Root  BY <2>1, <1>1
  <2>3. PICK m \in K : m[2].ino = c
    <3>1. To(K, c) # {}  BY <2>2, <1>1 DEF Hang
    <3>. QED  BY <3>1 DEF To
  <2>4. m[1] = x /\ \A k \in K : k[2].ino = c => k = m
    <3>1. Father(d, c) = m[1] /\ To(K, c) = {m}  BY <2>3, <1>1 DEF Hang
    <3>. QED  BY <3>1, <2>1 DEF To
  <2>. DEFINE S == T \ {x, c}
  <2>5. S \in SUBSET T /\ Root \in S  BY <1>1, <2>2
  <2>6. \A k \in K : k[1] \in S => k[2].ino \in S  BY <2>4, <1>3
  <2>. HIDE DEF S
  <2>7. S = T  BY <2>5, <2>6, <1>2
  <2>. QED  BY <2>7, <1>1 DEF S
<1>. QED  BY <1>4, <1>5

-----------------------------------------------------------------------------
(* do_ln, do_rm and do_rmdir, write by write. *)

LEMMA TupleSeq ==
  ASSUME NEW n \in Nat, NEW ws, Len(ws) = n, ws = [k \in 1 .. n |-> ws[k]]
  PROVE  \E S : ws \in Seq(S)
<1>. DEFINE S == {ws[k] : k \in 1 .. n}
<1>1. ws \in [1 .. n -> S]  OBVIOUS
<1>. HIDE DEF S
<1>2. ws \in Seq(S)  BY <1>1, SeqDef
<1>. QED  BY <1>2, Zenon

One(d, x) == [d.inode[x] EXCEPT !.nlinks = @ + 1]
LinkWrites(d, c, x, f) ==
  <<W("data", d.inode[c].block, Append(Ent(d, c), f)), W("inode", c, Add(d, c)),
    W("inode", x, One(d, x))>>
BeforeLink(d, T, c, x, f) ==
  /\ Good(d, T) /\ c \in T /\ Folder(d, c) /\ x \in T /\ ~ Folder(d, x)
  /\ f \in Dentries /\ f.ino = x /\ f.mode = "FILE" /\ f.name \in Name
  /\ Named(Ent(d, c), f.name) = {} /\ d.inode[c].n < PerBlock

LEMMA Linked ==
  ASSUME NEW d, NEW T, NEW c, NEW x, NEW f, BeforeLink(d, T, c, x, f),
         NEW ws, ws = LinkWrites(d, c, x, f)
  PROVE  Names(d, WrittenOver(d, ws), T, c, x, f)
<1>. DEFINE more == Append(Ent(d, c), f)
            at == d.inode[c].block
<1>0. /\ c \in T /\ Folder(d, c) /\ x \in T /\ ~ Folder(d, x)
      /\ f \in Dentries /\ f.ino = x /\ f.mode = "FILE" /\ f.name \in Name
      /\ Named(Ent(d, c), f.name) = {} /\ d.inode[c].n < PerBlock
  BY DEF BeforeLink
<1>1. d \in Disks /\ d.magic /\ Shape(d, T) /\ T \subseteq Ino
  BY DEF BeforeLink, Good, Hang
<1>2. /\ x # c /\ c \in Ino /\ x \in Ino /\ at \in Block
      /\ \A i \in T \ {c} : d.inode[i].block # at
      /\ \A i \in T : d.inode[i].block \in Block
  <2>1. \A i \in T : /\ d.inode[i].block \in d.bmap
                     /\ \A j \in T : d.inode[j].block = d.inode[i].block => j = i
    BY <1>1 DEF Shape
  <2>2. d.bmap \subseteq Block  BY <1>1, DiskTypes
  <2>. QED  BY <2>1, <2>2, <1>0, <1>1
<1>3. Add(d, c) \in Inodes /\ One(d, x) \in Inodes
  <2>1. PICK v \in Inodes : v = d.inode[c]  BY <1>1, <1>2, DiskTypes
  <2>2. PICK u \in Inodes : u = d.inode[x]  BY <1>1, <1>2, DiskTypes
  <2>3. v.nlinks + 1 \in Nat /\ v.n + 1 \in Nat /\ u.nlinks + 1 \in Nat  BY DEF Inodes
  <2>4. PICK j \in Nat, k \in Nat : j = v.nlinks + 1 /\ k = v.n + 1  BY <2>3
  <2>5. PICK l \in Nat : l = u.nlinks + 1  BY <2>3
  <2>6. Add(d, c) = [v EXCEPT !.nlinks = j, !.n = k]  BY <2>1, <2>4 DEF Add, Inodes
  <2>7. One(d, x) = [u EXCEPT !.nlinks = l]  BY <2>2, <2>5 DEF One, Inodes
  <2>8. [v EXCEPT !.nlinks = j, !.n = k] \in Inodes  BY Zenon DEF Inodes
  <2>9. [u EXCEPT !.nlinks = l] \in Inodes  BY DEF Inodes
  <2>. QED  BY <2>6, <2>7, <2>8, <2>9
<1>4. more \in Seq(Dentries)
  <2>1. Ent(d, c) \in Seq(Dentries)  BY <1>1, <1>2, EntSeq
  <2>. QED  BY <2>1, <1>0, AppendProperties
<1>5. Len(ws) = 3 /\ \E S : ws \in Seq(S)
  <2>1. Len(ws) = 3 /\ ws = [k \in 1 .. 3 |-> ws[k]]  BY DEF LinkWrites
  <2>2. 3 \in Nat  OBVIOUS
  <2>. QED  BY <2>1, <2>2, TupleSeq, Zenon
<1>6. PICK g : Stages(g, d, ws, 3)  BY <1>5, WriteStages, Zenon
<1>7. /\ g[0] = d /\ WrittenOver(d, ws) = g[3]
      /\ \A k \in 1 .. 3 : g[k] = Write(g[k - 1], ws[k])
  BY <1>6 DEF Stages, Writes
<1>. HIDE DEF more, at
<1>8. /\ g[1] = Write(d, W("data", at, more)) /\ g[2] = Write(g[1], W("inode", c, Add(d, c)))
      /\ g[3] = Write(g[2], W("inode", x, One(d, x)))
  <2>1. /\ ws[1] = W("data", at, more) /\ ws[2] = W("inode", c, Add(d, c))
        /\ ws[3] = W("inode", x, One(d, x))
    BY DEF LinkWrites, more, at
  <2>2. g[1] = Write(g[0], ws[1]) /\ g[2] = Write(g[1], ws[2]) /\ g[3] = Write(g[2], ws[3])
    <3>1. /\ 1 \in 1 .. 3 /\ 2 \in 1 .. 3 /\ 3 \in 1 .. 3
          /\ 1 - 1 = 0 /\ 2 - 1 = 1 /\ 3 - 1 = 2
      OBVIOUS
    <3>. QED  BY <3>1, <1>7
  <2>. QED  BY <2>1, <2>2, <1>7
<1>9. HasData(d, g[1], at, more)
  <2>1. HasData(d, Write(d, W("data", at, more)), at, more)  BY <1>1, <1>2, <1>4, WriteData
  <2>. QED  BY <2>1, <1>8
<1>10. HasInode(g[1], g[2], c, Add(d, c))
  <2>1. g[1] \in Disks  BY <1>9 DEF HasData
  <2>2. HasInode(g[1], Write(g[1], W("inode", c, Add(d, c))), c, Add(d, c))
    BY <2>1, <1>2, <1>3, WriteInode
  <2>. QED  BY <2>2, <1>8
<1>11. HasInode(g[2], g[3], x, One(d, x))
  <2>1. g[2] \in Disks  BY <1>10 DEF HasInode
  <2>2. HasInode(g[2], Write(g[2], W("inode", x, One(d, x))), x, One(d, x))
    BY <2>1, <1>2, <1>3, WriteInode
  <2>. QED  BY <2>2, <1>8
<1>12. /\ g[3] \in Disks /\ g[3].magic /\ g[3].imap = d.imap /\ g[3].bmap = d.bmap
       /\ g[3].inode = [[d.inode EXCEPT ![c] = Add(d, c)] EXCEPT ![x] = One(d, x)]
       /\ g[3].data = [d.data EXCEPT ![at] = more]
  BY <1>1, <1>9, <1>10, <1>11 DEF HasData, HasInode
<1>13. d.inode \in [Ino -> Inodes] /\ d.data \in [Block -> Seq(Dentries)]  BY <1>1 DEF Disks
<1>14. /\ \A i \in Ino \ {x, c} : g[3].inode[i] = d.inode[i]
       /\ g[3].inode[c] = Add(d, c) /\ g[3].inode[x] = One(d, x)
  BY <1>2, <1>12, <1>13
<1>15. /\ \A j \in Block \ {at} : g[3].data[j] = d.data[j]
       /\ g[3].data[at] = more
  BY <1>2, <1>12, <1>13
<1>16. ASSUME NEW i \in T \ {c, x} PROVE Agree(d, g[3], i)
  <2>1. g[3].inode[i] = d.inode[i] /\ d.inode[i].block \in Block \ {at}
    BY <1>1, <1>2, <1>14
  <2>2. g[3].data[d.inode[i].block] = d.data[d.inode[i].block]  BY <2>1, <1>15
  <2>. QED  BY <2>1, <2>2, SameEnt
<1>17. Grows(d, g[3], c, f)
  <2>1. BothWritten(d, g[3], T, c, f)
    BY <1>0, <1>1, <1>2, <1>14, <1>15 DEF BothWritten, at, more
  <2>. QED  BY <2>1, FullyNamed
<1>. QED  BY <1>0, <1>7, <1>12, <1>14, <1>16, <1>17 DEF Names, One

Sub(d, c) == [d.inode[c] EXCEPT !.nlinks = (@ - 1) % 65536, !.n = @ - 1]
After(d, c, k) ==
  [j \in DOMAIN Ent(d, c) |->
     IF j >= k /\ j < Len(Ent(d, c)) THEN Ent(d, c)[j + 1] ELSE Ent(d, c)[j]]
BeforeDrop(d, T, c, k) ==
  Good(d, T) /\ c \in T /\ Folder(d, c) /\ k \in 3 .. Len(Ent(d, c))

\* Counts do not wrap around where there is something to count down.
LEMMA CountDown ==
  ASSUME NEW a \in Nat, a < 65536, a # 0
  PROVE  (a - 1) % 65536 = a - 1
<1>1. a - 1 \in Nat /\ a - 1 < 65536  OBVIOUS
<1>. QED  BY <1>1

LEMMA SubFacts ==
  ASSUME Roomy, NEW d, NEW T, NEW c, NEW k, BeforeDrop(d, T, c, k)
  PROVE  /\ Sub(d, c) \in Inodes
         /\ Sub(d, c).nlinks = d.inode[c].nlinks - 1 /\ Sub(d, c).n = d.inode[c].n - 1
         /\ Sub(d, c).mode = d.inode[c].mode /\ Sub(d, c).block = d.inode[c].block
<1>1. /\ d \in Disks /\ Shape(d, T) /\ T \subseteq Ino /\ Counts(d, T, Kids(d, T))
      /\ c \in T /\ Folder(d, c) /\ k \in 3 .. Len(Ent(d, c))
  BY DEF BeforeDrop, Good, Hang
<1>2. PICK v \in Inodes : v = d.inode[c]  BY <1>1, DiskTypes
<1>3. PICK n \in Nat : n = v.n /\ n = Len(Ent(d, c))
  <2>1. v.n \in Nat  BY DEF Inodes
  <2>. QED  BY <2>1, <1>1, <1>2 DEF Shape
<1>4. n >= 3 /\ n - 1 \in Nat  BY <1>1, <1>3
<1>5. v.nlinks = n - 2  BY <1>1, <1>2, <1>3, Zenon DEF Counts
<1>6. n - 2 \in Nat /\ n - 2 # 0 /\ n - 2 < 65536 /\ n - 2 - 1 \in Nat
  <2>1. Good(d, T) /\ c \in T  BY DEF BeforeDrop
  <2>2. d.inode[c].nlinks < 65536  BY <2>1, LinksFit
  <2>. QED  BY <2>2, <1>2, <1>4, <1>5
<1>7. (n - 2 - 1) % 65536 = n - 2 - 1  BY <1>6, CountDown
<1>8. (v.nlinks - 1) % 65536 = n - 2 - 1 /\ v.n - 1 = n - 1  BY <1>3, <1>5, <1>7
<1>9. PICK j \in Nat, m \in Nat :
        j = n - 2 - 1 /\ m = n - 1 /\ j = (v.nlinks - 1) % 65536 /\ m = v.n - 1
  BY <1>4, <1>6, <1>8
<1>10. Sub(d, c) = [v EXCEPT !.nlinks = j, !.n = m]
  <2>1. j = (v.nlinks - 1) % 65536 /\ m = v.n - 1  BY <1>9
  <2>. QED  BY <2>1, <1>2 DEF Sub, Inodes
<1>11. /\ [v EXCEPT !.nlinks = j, !.n = m] \in Inodes
       /\ [v EXCEPT !.nlinks = j, !.n = m].nlinks = j /\ [v EXCEPT !.nlinks = j, !.n = m].n = m
       /\ [v EXCEPT !.nlinks = j, !.n = m].mode = v.mode
       /\ [v EXCEPT !.nlinks = j, !.n = m].block = v.block
  BY Zenon DEF Inodes
<1>12. /\ Sub(d, c) \in Inodes /\ Sub(d, c).nlinks = j /\ Sub(d, c).n = m
       /\ Sub(d, c).mode = v.mode /\ Sub(d, c).block = v.block
  BY <1>10, <1>11
<1>13. j = d.inode[c].nlinks - 1 /\ m = d.inode[c].n - 1  BY <1>2, <1>3, <1>5, <1>9
<1>. QED  BY <1>2, <1>12, <1>13

\* What the block of the directory holds, cut to one entry less.
LEMMA AfterCut ==
  ASSUME NEW es \in Seq(Dentries), NEW k \in 3 .. Len(es), NEW as,
         as = [j \in DOMAIN es |-> IF j >= k /\ j < Len(es) THEN es[j + 1] ELSE es[j]]
  PROVE  as \in Seq(Dentries) /\ Cut(as, Len(es) - 1) = Without(es, k)
<1>0. PICK n \in Nat : n = Len(es)  BY LenProperties
<1>1. n = Len(es) /\ DOMAIN es = 1 .. n /\ n >= 3 /\ n - 1 \in Nat
  <2>1. DOMAIN es = 1 .. n  BY <1>0, LenProperties
  <2>2. k \in 3 .. n  BY <1>0
  <2>3. n >= 3 /\ n - 1 \in Nat  BY <2>2
  <2>. QED  BY <1>0, <2>1, <2>3
<1>2. \A j \in 1 .. n : es[j] \in Dentries  BY <1>1, ElementOfSeq
<1>3. k \in Nat  BY <1>1
<1>4. \A j \in 1 .. n : as[j] = IF j >= k /\ j < n THEN es[j + 1] ELSE es[j]  BY <1>1
<1>5. as \in Seq(Dentries) /\ Len(as) = n
  <2>1. ASSUME NEW j \in 1 .. n PROVE as[j] \in Dentries
    <3>1. CASE j >= k /\ j < n
      <4>1. j + 1 \in 1 .. n  BY <3>1
      <4>. QED  BY <4>1, <3>1, <1>2, <1>4, Zenon
    <3>2. CASE ~ (j >= k /\ j < n)  BY <3>2, <1>2, <1>4, Zenon
    <3>. QED  BY <3>1, <3>2
  <2>2. DOMAIN as = 1 .. n /\ as = [j \in DOMAIN as |-> as[j]]  BY <1>1
  <2>3. as \in [1 .. n -> Dentries]  BY <2>1, <2>2
  <2>4. as \in Seq(Dentries)  BY <2>3, SeqDef
  <2>. QED  BY <2>3, <2>4, LenProperties
<1>6. /\ Cut(as, n - 1) \in Seq(Dentries) /\ Len(Cut(as, n - 1)) = n - 1
      /\ \A j \in 1 .. (n - 1) : Cut(as, n - 1)[j] = as[j]
  <2>1. PICK m \in Nat : m = n - 1 /\ m <= Len(as)  BY <1>1, <1>5
  <2>2. /\ Cut(as, m) \in Seq(Dentries) /\ Len(Cut(as, m)) = m
        /\ \A j \in 1 .. m : Cut(as, m)[j] = as[j]
    <3>1. PICK s \in Seq(Dentries) : s = as  BY <1>5, Zenon
    <3>2. m <= Len(s)  BY <2>1, <3>1
    <3>3. /\ Cut(s, m) \in Seq(Dentries) /\ Len(Cut(s, m)) = m
          /\ \A j \in 1 .. m : Cut(s, m)[j] = s[j]
      BY <3>2, CutFacts
    <3>. QED  BY <3>1, <3>3, Zenon
  <2>. QED  BY <2>1, <2>2, Zenon
<1>. DEFINE cs == Cut(as, n - 1)
            fs == Without(es, k)
<1>7. /\ DOMAIN fs = 1 .. (n - 1) /\ fs = [j \in DOMAIN fs |-> fs[j]]
      /\ \A j \in 1 .. (n - 1) : fs[j] = IF j >= k THEN es[j + 1] ELSE es[j]
  BY <1>1 DEF Without
<1>. HIDE DEF cs, fs
<1>8. \A j \in 1 .. (n - 1) : cs[j] = fs[j]
  <2>1. \A j \in 1 .. (n - 1) : j \in 1 .. n /\ j < n  BY <1>1
  <2>. QED  BY <2>1, <1>4, <1>6, <1>7, Zenon DEF cs
<1>9. DOMAIN cs = 1 .. (n - 1) /\ cs = [j \in DOMAIN cs |-> cs[j]]
  <2>1. cs \in Seq(Dentries) /\ Len(cs) = n - 1  BY <1>6 DEF cs
  <2>. QED  BY <2>1, LenProperties
<1>10. cs = fs  BY <1>7, <1>8, <1>9, Zenon
<1>. QED  BY <1>1, <1>5, <1>10 DEF cs, fs

\* The directory when its block and its inode are written.
DropWritten(d, e, T, c, k) ==
  /\ BeforeDrop(d, T, c, k)
  /\ e.inode[c] = Sub(d, c) /\ e.data[d.inode[c].block] = After(d, c, k)
LEMMA FullyDropped ==
  ASSUME Roomy, NEW d, NEW e, NEW T, NEW c, NEW k, DropWritten(d, e, T, c, k)
  PROVE  Shrinks(d, e, c, k)
<1>1. BeforeDrop(d, T, c, k) /\ e.inode[c] = Sub(d, c) /\ e.data[d.inode[c].block] = After(d, c, k)
  BY DEF DropWritten
<1>2. /\ d \in Disks /\ Shape(d, T) /\ T \subseteq Ino
      /\ c \in T /\ Folder(d, c) /\ k \in 3 .. Len(Ent(d, c))
  BY <1>1 DEF BeforeDrop, Good, Hang
<1>3. /\ e.inode[c].nlinks = d.inode[c].nlinks - 1 /\ e.inode[c].n = d.inode[c].n - 1
      /\ e.inode[c].mode = d.inode[c].mode /\ e.inode[c].block = d.inode[c].block
  BY <1>1, SubFacts
<1>4. Len(Ent(d, c)) = d.inode[c].n /\ d.inode[c].block # 0
  <2>1. Len(Ent(d, c)) = d.inode[c].n /\ d.inode[c].block \in d.bmap  BY <1>2 DEF Shape
  <2>2. d.bmap \subseteq Block  BY <1>2, DiskTypes
  <2>. QED  BY <2>1, <2>2 DEF Block
<1>5. Ent(e, c) = Cut(After(d, c, k), Len(Ent(d, c)) - 1)
  BY <1>1, <1>3, <1>4 DEF Ent, Buf
<1>6. Ent(d, c) \in Seq(Dentries)  BY <1>2, EntSeq
<1>7. Cut(After(d, c, k), Len(Ent(d, c)) - 1) = Without(Ent(d, c), k)
  <2>1. PICK es \in Seq(Dentries) : es = Ent(d, c)  BY <1>6
  <2>2. PICK as : as = After(d, c, k)  OBVIOUS
  <2>3. as = [j \in DOMAIN es |-> IF j >= k /\ j < Len(es) THEN es[j + 1] ELSE es[j]]
    BY <2>1, <2>2 DEF After
  <2>4. k \in 3 .. Len(es)  BY <2>1, <1>2
  <2>5. Cut(as, Len(es) - 1) = Without(es, k)  BY <2>3, <2>4, AfterCut, Zenon
  <2>. QED  BY <2>1, <2>2, <2>5
<1>. QED  BY <1>2, <1>3, <1>5, <1>7 DEF Shrinks

LEMMA AfterTyped ==
  ASSUME NEW d, NEW T, NEW c, NEW k, BeforeDrop(d, T, c, k)
  PROVE  After(d, c, k) \in Seq(Dentries)
<1>1. d \in Disks /\ c \in Ino /\ k \in 3 .. Len(Ent(d, c))  BY DEF BeforeDrop, Good, Hang
<1>2. PICK es \in Seq(Dentries) : es = Ent(d, c)  BY <1>1, EntSeq
<1>3. PICK as : as = After(d, c, k)  OBVIOUS
<1>4. as = [j \in DOMAIN es |-> IF j >= k /\ j < Len(es) THEN es[j + 1] ELSE es[j]]
  BY <1>2, <1>3 DEF After
<1>5. k \in 3 .. Len(es)  BY <1>1, <1>2
<1>6. as \in Seq(Dentries)  BY <1>4, <1>5, AfterCut, Zenon
<1>. QED  BY <1>3, <1>6

\* The card after a call took the last name of x, and what the call starts from.
BeforeGone(d, T, c, k, x) ==
  /\ BeforeDrop(d, T, c, k) /\ x = Ent(d, c)[k].ino /\ x \in T /\ x # c
  /\ Folder(d, x) => d.inode[x].n = 2
Gone(d, e, c, k, x) ==
  /\ e \in Disks /\ e.magic = d.magic
  /\ e.imap = d.imap \ {x} /\ e.bmap = d.bmap \ {d.inode[x].block}
  /\ e.inode = [d.inode EXCEPT ![c] = Sub(d, c)]
  /\ e.data = [d.data EXCEPT ![d.inode[c].block] = After(d, c, k)]

LEMMA GoneFacts ==
  ASSUME NEW d, NEW T, NEW c, NEW k, NEW x, BeforeGone(d, T, c, k, x)
  PROVE  /\ d \in Disks /\ d.magic /\ T \subseteq Ino /\ c \in T /\ Folder(d, c) /\ c \in Ino
         /\ x \in Ino /\ x \in T /\ x # c /\ x = Ent(d, c)[k].ino
         /\ d.inode[c].block \in Block /\ d.inode[x].block \in Block
         /\ \A i \in T : d.inode[i].block \in Block
         /\ \A i \in T \ {c} : d.inode[i].block # d.inode[c].block
         /\ Good(d, T)
<1>1. /\ Good(d, T) /\ c \in T /\ Folder(d, c) /\ x \in T /\ x # c /\ x = Ent(d, c)[k].ino
  BY DEF BeforeGone, BeforeDrop
<1>2. d \in Disks /\ d.magic /\ Shape(d, T) /\ T \subseteq Ino  BY <1>1 DEF Good, Hang
<1>3. \A i \in T : /\ d.inode[i].block \in d.bmap
                   /\ \A j \in T : d.inode[j].block = d.inode[i].block => j = i
  BY <1>2 DEF Shape
<1>4. d.bmap \subseteq Block  BY <1>2, DiskTypes
<1>. QED  BY <1>1, <1>2, <1>3, <1>4

LEMMA LastNameGone ==
  ASSUME Roomy, NEW d, NEW e, NEW T, NEW c, NEW k, NEW x, BeforeGone(d, T, c, k, x),
         Gone(d, e, c, k, x), To(Kids(d, T), x) = {<<c, Ent(d, c)[k]>>}
  PROVE  Drops(d, e, T, c, k, x, T \ {x})
<1>1. /\ d \in Disks /\ d.magic /\ T \subseteq Ino /\ c \in T /\ Folder(d, c) /\ c \in Ino
      /\ x \in Ino /\ x \in T /\ x # c /\ x = Ent(d, c)[k].ino
      /\ d.inode[c].block \in Block /\ d.inode[x].block \in Block
      /\ \A i \in T : d.inode[i].block \in Block
      /\ \A i \in T \ {c} : d.inode[i].block # d.inode[c].block
  BY GoneFacts
<1>2. /\ e \in Disks /\ e.magic = d.magic
      /\ e.imap = d.imap \ {x} /\ e.bmap = d.bmap \ {d.inode[x].block}
      /\ e.inode = [d.inode EXCEPT ![c] = Sub(d, c)]
      /\ e.data = [d.data EXCEPT ![d.inode[c].block] = After(d, c, k)]
  BY DEF Gone
<1>3. d.inode \in [Ino -> Inodes] /\ d.data \in [Block -> Seq(Dentries)]  BY <1>1 DEF Disks
<1>4. /\ e.inode[c] = Sub(d, c) /\ \A i \in Ino \ {c} : e.inode[i] = d.inode[i]
      /\ e.data[d.inode[c].block] = After(d, c, k)
      /\ \A j \in Block \ {d.inode[c].block} : e.data[j] = d.data[j]
  BY <1>1, <1>2, <1>3
<1>5. \A i \in T \ {c} : Agree(d, e, i)
  <2>1. ASSUME NEW i \in T \ {c} PROVE Agree(d, e, i)
    <3>1. e.inode[i] = d.inode[i] /\ d.inode[i].block \in Block \ {d.inode[c].block}
      BY <1>1, <1>4
    <3>2. e.data[d.inode[i].block] = d.data[d.inode[i].block]  BY <3>1, <1>4
    <3>. QED  BY <3>1, <3>2, SameEnt
  <2>. QED  BY <2>1
<1>6. Shrinks(d, e, c, k)
  <2>1. DropWritten(d, e, T, c, k)  BY <1>4 DEF DropWritten, BeforeGone
  <2>. QED  BY <2>1, FullyDropped
<1>7. Folder(d, x) => d.inode[x].n = 2 /\ Ent(e, x) = Ent(d, x)
  BY <1>1, <1>5 DEF BeforeGone, Agree
<1>. QED  BY <1>1, <1>2, <1>4, <1>5, <1>6, <1>7 DEF Drops

\* The card after a call took one of the names of the file x.
Less(d, x) == [d.inode[x] EXCEPT !.nlinks = (d.inode[x].nlinks - 1) % 65536]
OneGone(d, e, c, k, x) ==
  /\ e \in Disks /\ e.magic = d.magic /\ e.imap = d.imap /\ e.bmap = d.bmap
  /\ e.inode = [[d.inode EXCEPT ![c] = Sub(d, c)] EXCEPT ![x] = Less(d, x)]
  /\ e.data = [d.data EXCEPT ![d.inode[c].block] = After(d, c, k)]

\* The links to a file, counted in its inode.
LEMMA NamesCounted ==
  ASSUME Roomy, NEW d, NEW T, NEW c, NEW k, NEW x, BeforeGone(d, T, c, k, x), ~ Folder(d, x)
  PROVE  /\ d.inode[x].nlinks \in Nat
         /\ (d.inode[x].nlinks - 1) % 65536 = d.inode[x].nlinks - 1
         /\ d.inode[x].nlinks - 1 \in Nat
         /\ d.inode[x].nlinks - 1 = 0 <=> To(Kids(d, T), x) = {<<c, Ent(d, c)[k]>>}
<1>. DEFINE K == Kids(d, T)
            l == <<c, Ent(d, c)[k]>>
            L == To(K, x)
<1>1. /\ d \in Disks /\ T \subseteq Ino /\ c \in T /\ Folder(d, c) /\ c \in Ino
      /\ x \in T /\ x = Ent(d, c)[k].ino /\ Good(d, T)
  BY GoneFacts
<1>2. l \in L
  <2>1. k \in 3 .. Len(Ent(d, c))  BY DEF BeforeGone, BeforeDrop
  <2>2. Ent(d, c) \in Seq(Dentries)  BY <1>1, EntSeq
  <2>3. k \in 1 .. Len(Ent(d, c))
    <3>1. Len(Ent(d, c)) \in Nat  BY <2>2, LenProperties
    <3>. QED  BY <3>1, <2>1
  <2>4. Ent(d, c)[k] \in Dentries  BY <2>2, <2>3, ElementOfSeq
  <2>5. Ent(d, c)[k] \in Given(Ent(d, c))  BY <2>1 DEF Given
  <2>. QED  BY <1>1, <2>4, <2>5 DEF Kids, To
<1>. HIDE DEF l, L, K
<1>3. IsFiniteSet(L) /\ d.inode[x].nlinks = Cardinality(L)
  <2>1. Counts(d, T, K)  BY <1>1 DEF Good, K
  <2>2. IsFiniteSet(K) /\ d.inode[x].nlinks = Cardinality(L)  BY <2>1, <1>1 DEF Counts, L
  <2>3. L \subseteq K  BY DEF L, To
  <2>. QED  BY <2>2, <2>3, FS_Subset
<1>4. Cardinality(L) \in Nat /\ IsFiniteSet(L \ {l}) /\ Cardinality(L \ {l}) = Cardinality(L) - 1
  BY <1>2, <1>3, FS_CardinalityType, FS_RemoveElement
<1>5. Cardinality(L \ {l}) \in Nat  BY <1>4, FS_CardinalityType
<1>6. Cardinality(L \ {l}) = 0 <=> L \ {l} = {}  BY <1>4, FS_EmptySet
<1>7. L \ {l} = {} <=> L = {l}  BY <1>2
<1>8. d.inode[x].nlinks < 65536  BY <1>1, LinksFit
<1>9. PICK n \in Nat : n = Cardinality(L) /\ n - 1 \in Nat /\ n < 65536 /\ n # 0
  BY <1>3, <1>4, <1>5, <1>8
<1>10. (n - 1) % 65536 = n - 1  BY <1>9, CountDown
<1>11. n - 1 = 0 <=> L = {l}  BY <1>4, <1>6, <1>7, <1>9
<1>. QED  BY <1>3, <1>9, <1>10, <1>11 DEF L, K, l

LEMMA OneNameGone ==
  ASSUME Roomy, NEW d, NEW e, NEW T, NEW c, NEW k, NEW x, BeforeGone(d, T, c, k, x),
         ~ Folder(d, x), OneGone(d, e, c, k, x), To(Kids(d, T), x) # {<<c, Ent(d, c)[k]>>}
  PROVE  Drops(d, e, T, c, k, x, T)
<1>1. /\ d \in Disks /\ d.magic /\ T \subseteq Ino /\ c \in T /\ Folder(d, c) /\ c \in Ino
      /\ x \in Ino /\ x \in T /\ x # c /\ x = Ent(d, c)[k].ino
      /\ d.inode[c].block \in Block /\ d.inode[x].block \in Block
      /\ \A i \in T : d.inode[i].block \in Block
      /\ \A i \in T \ {c} : d.inode[i].block # d.inode[c].block
  BY GoneFacts
<1>2. /\ e \in Disks /\ e.magic = d.magic /\ e.imap = d.imap /\ e.bmap = d.bmap
      /\ e.inode = [[d.inode EXCEPT ![c] = Sub(d, c)] EXCEPT ![x] = Less(d, x)]
      /\ e.data = [d.data EXCEPT ![d.inode[c].block] = After(d, c, k)]
  BY DEF OneGone
<1>3. d.inode \in [Ino -> Inodes] /\ d.data \in [Block -> Seq(Dentries)]  BY <1>1 DEF Disks
<1>4. /\ e.inode[c] = Sub(d, c) /\ \A i \in Ino \ {c, x} : e.inode[i] = d.inode[i]
      /\ e.inode[x] = Less(d, x)
      /\ e.data[d.inode[c].block] = After(d, c, k)
      /\ \A j \in Block \ {d.inode[c].block} : e.data[j] = d.data[j]
  BY <1>1, <1>2, <1>3
<1>5. \A i \in T \ {c, x} : Agree(d, e, i)
  <2>1. ASSUME NEW i \in T \ {c, x} PROVE Agree(d, e, i)
    <3>1. e.inode[i] = d.inode[i] /\ d.inode[i].block \in Block \ {d.inode[c].block}
      BY <1>1, <1>4
    <3>2. e.data[d.inode[i].block] = d.data[d.inode[i].block]  BY <3>1, <1>4
    <3>. QED  BY <3>1, <3>2, SameEnt
  <2>. QED  BY <2>1
<1>6. Shrinks(d, e, c, k)
  <2>1. DropWritten(d, e, T, c, k)  BY <1>4 DEF DropWritten, BeforeGone
  <2>. QED  BY <2>1, FullyDropped
<1>7. /\ e.inode[x].nlinks = d.inode[x].nlinks - 1
      /\ e.inode[x].mode = d.inode[x].mode /\ e.inode[x].block = d.inode[x].block
      /\ e.inode[x].n = d.inode[x].n
  <2>1. PICK v \in Inodes : v = d.inode[x]  BY <1>1, <1>3
  <2>2. PICK m : m = (v.nlinks - 1) % 65536  OBVIOUS
  <2>3. m = v.nlinks - 1  BY <2>1, <2>2, NamesCounted
  <2>4. e.inode[x] = [v EXCEPT !.nlinks = m]  BY <1>4, <2>1, <2>2 DEF Less
  <2>5. /\ [v EXCEPT !.nlinks = m].nlinks = m /\ [v EXCEPT !.nlinks = m].mode = v.mode
        /\ [v EXCEPT !.nlinks = m].block = v.block /\ [v EXCEPT !.nlinks = m].n = v.n
    BY DEF Inodes
  <2>. QED  BY <2>1, <2>3, <2>4, <2>5
<1>8. x \notin T => FALSE  BY <1>1
<1>. QED  BY <1>1, <1>2, <1>5, <1>6, <1>7, <1>8 DEF Drops

\* Three writes and four.
LEMMA ThreeWrites ==
  ASSUME NEW d, NEW u, NEW v, NEW w, NEW ws, ws = <<u, v, w>>
  PROVE  WrittenOver(d, ws) = Write(Write(Write(d, u), v), w)
<1>1. DOMAIN ws = 1 .. 3 /\ 3 \in Nat  OBVIOUS
<1>2. PICK g : Writes(g, d, ws, 3)  BY <1>1, WriteByWrite, Zenon
<1>3. /\ g[0] = d /\ WrittenOver(d, ws) = g[3]
      /\ \A k \in 1 .. 3 : g[k] = Write(g[k - 1], ws[k])
  BY <1>2 DEF Writes
<1>4. g[1] = Write(g[0], ws[1]) /\ g[2] = Write(g[1], ws[2]) /\ g[3] = Write(g[2], ws[3])
  <2>1. /\ 1 \in 1 .. 3 /\ 2 \in 1 .. 3 /\ 3 \in 1 .. 3
        /\ 1 - 1 = 0 /\ 2 - 1 = 1 /\ 3 - 1 = 2
    OBVIOUS
  <2>. QED  BY <2>1, <1>3
<1>5. ws[1] = u /\ ws[2] = v /\ ws[3] = w  OBVIOUS
<1>. QED  BY <1>3, <1>4, <1>5

LEMMA FourWrites ==
  ASSUME NEW d, NEW t, NEW u, NEW v, NEW w, NEW ws, ws = <<t, u, v, w>>
  PROVE  WrittenOver(d, ws) = Write(Write(Write(Write(d, t), u), v), w)
<1>1. DOMAIN ws = 1 .. 4 /\ 4 \in Nat  OBVIOUS
<1>2. PICK g : Writes(g, d, ws, 4)  BY <1>1, WriteByWrite, Zenon
<1>3. /\ g[0] = d /\ WrittenOver(d, ws) = g[4]
      /\ \A k \in 1 .. 4 : g[k] = Write(g[k - 1], ws[k])
  BY <1>2 DEF Writes
<1>4. /\ g[1] = Write(g[0], ws[1]) /\ g[2] = Write(g[1], ws[2])
      /\ g[3] = Write(g[2], ws[3]) /\ g[4] = Write(g[3], ws[4])
  <2>1. /\ 1 \in 1 .. 4 /\ 2 \in 1 .. 4 /\ 3 \in 1 .. 4 /\ 4 \in 1 .. 4
        /\ 1 - 1 = 0 /\ 2 - 1 = 1 /\ 3 - 1 = 2 /\ 4 - 1 = 3
    OBVIOUS
  <2>. QED  BY <2>1, <1>3
<1>5. ws[1] = t /\ ws[2] = u /\ ws[3] = v /\ ws[4] = w  OBVIOUS
<1>. QED  BY <1>3, <1>4, <1>5

\* do_rm of the last name of a file, and do_rmdir of a directory without
\* entries, which frees first.
LEMMA LastWritten ==
  ASSUME Roomy, NEW d, NEW T, NEW c, NEW k, NEW x, BeforeGone(d, T, c, k, x), NEW ws,
         \/ ws = <<W("data", d.inode[c].block, After(d, c, k)), W("inode", c, Sub(d, c)),
                   W("imap", x, FALSE), W("bmap", d.inode[x].block, FALSE)>>
         \/ ws = <<W("bmap", d.inode[x].block, FALSE), W("imap", x, FALSE),
                   W("data", d.inode[c].block, After(d, c, k)), W("inode", c, Sub(d, c))>>
  PROVE  Gone(d, WrittenOver(d, ws), c, k, x)
<1>. DEFINE at == d.inode[c].block
            b == d.inode[x].block
            as == After(d, c, k)
            v == Sub(d, c)
            w1 == W("data", at, as)
            w2 == W("inode", c, v)
            w3 == W("imap", x, FALSE)
            w4 == W("bmap", b, FALSE)
<1>1. d \in Disks /\ c \in Ino /\ x \in Ino /\ at \in Block /\ b \in Block  BY GoneFacts
<1>2. as \in Seq(Dentries) /\ v \in Inodes  BY AfterTyped, SubFacts DEF BeforeGone
<1>. HIDE DEF at, b, as, v
<1>3. ASSUME ws = <<w1, w2, w3, w4>> PROVE Gone(d, WrittenOver(d, ws), c, k, x)
  <2>1. PICK d1 : d1 = Write(d, w1)  BY Zenon
  <2>2. PICK d2 : d2 = Write(d1, w2)  OBVIOUS
  <2>3. PICK d3 : d3 = Write(d2, w3)  BY Zenon
  <2>4. PICK d4 : d4 = Write(d3, w4)  BY Zenon
  <2>5. WrittenOver(d, ws) = d4
    <3>. HIDE DEF w1, w2, w3, w4
    <3>. QED  BY <1>3, <2>1, <2>2, <2>3, <2>4, FourWrites
  <2>6. HasData(d, d1, at, as)  BY <1>1, <1>2, <2>1, WriteData, Zenon
  <2>7. HasInode(d1, d2, c, v)  BY <1>1, <1>2, <2>2, <2>6, WriteInode DEF HasData
  <2>8. HasImap(d2, d3, d2.imap \ {x})  BY <1>1, <2>3, <2>7, WriteImap, Zenon DEF HasInode
  <2>9. HasBmap(d3, d4, d3.bmap \ {b})  BY <1>1, <2>4, <2>8, WriteBmap, Zenon DEF HasImap
  <2>10. /\ d4 \in Disks /\ d4.magic = d.magic /\ d4.imap = d.imap \ {x}
         /\ d4.bmap = d.bmap \ {b}
         /\ d4.inode = [d.inode EXCEPT ![c] = v] /\ d4.data = [d.data EXCEPT ![at] = as]
    BY <2>6, <2>7, <2>8, <2>9 DEF HasData, HasInode, HasImap, HasBmap
  <2>. QED  BY <2>5, <2>10 DEF Gone, at, b, as, v
<1>4. ASSUME ws = <<w4, w3, w1, w2>> PROVE Gone(d, WrittenOver(d, ws), c, k, x)
  <2>1. PICK d1 : d1 = Write(d, w4)  BY Zenon
  <2>2. PICK d2 : d2 = Write(d1, w3)  BY Zenon
  <2>3. PICK d3 : d3 = Write(d2, w1)  BY Zenon
  <2>4. PICK d4 : d4 = Write(d3, w2)  OBVIOUS
  <2>5. WrittenOver(d, ws) = d4
    <3>. HIDE DEF w1, w2, w3, w4
    <3>. QED  BY <1>4, <2>1, <2>2, <2>3, <2>4, FourWrites
  <2>6. HasBmap(d, d1, d.bmap \ {b})  BY <1>1, <2>1, WriteBmap, Zenon
  <2>7. HasImap(d1, d2, d1.imap \ {x})  BY <1>1, <2>2, <2>6, WriteImap, Zenon DEF HasBmap
  <2>8. HasData(d2, d3, at, as)  BY <1>1, <1>2, <2>3, <2>7, WriteData, Zenon DEF HasImap
  <2>9. HasInode(d3, d4, c, v)  BY <1>1, <1>2, <2>4, <2>8, WriteInode DEF HasData
  <2>10. /\ d4 \in Disks /\ d4.magic = d.magic /\ d4.imap = d.imap \ {x}
         /\ d4.bmap = d.bmap \ {b}
         /\ d4.inode = [d.inode EXCEPT ![c] = v] /\ d4.data = [d.data EXCEPT ![at] = as]
    BY <2>6, <2>7, <2>8, <2>9 DEF HasData, HasInode, HasImap, HasBmap
  <2>. QED  BY <2>5, <2>10 DEF Gone, at, b, as, v
<1>. QED  BY <1>3, <1>4, Zenon DEF at, b, as, v

\* do_rm of one of the names of a file.
LEMMA OneWritten ==
  ASSUME Roomy, NEW d, NEW T, NEW c, NEW k, NEW x, BeforeGone(d, T, c, k, x), ~ Folder(d, x),
         NEW ws,
         ws = <<W("data", d.inode[c].block, After(d, c, k)), W("inode", c, Sub(d, c)),
                W("inode", x, Less(d, x))>>
  PROVE  OneGone(d, WrittenOver(d, ws), c, k, x)
<1>. DEFINE at == d.inode[c].block
            as == After(d, c, k)
            v == Sub(d, c)
            u == Less(d, x)
            w1 == W("data", at, as)
            w2 == W("inode", c, v)
            w3 == W("inode", x, u)
<1>1. d \in Disks /\ c \in Ino /\ x \in Ino /\ at \in Block  BY GoneFacts
<1>2. as \in Seq(Dentries) /\ v \in Inodes  BY AfterTyped, SubFacts DEF BeforeGone
<1>3. u \in Inodes
  <2>1. PICK y \in Inodes : y = d.inode[x]  BY <1>1, DiskTypes
  <2>2. PICK m : m = (y.nlinks - 1) % 65536  OBVIOUS
  <2>3. m \in Nat  BY <2>1, <2>2, NamesCounted
  <2>4. u = [y EXCEPT !.nlinks = m]  BY <2>1, <2>2 DEF Less
  <2>. QED  BY <2>3, <2>4 DEF Inodes
<1>. HIDE DEF at, as, v, u
<1>4. PICK d1 : d1 = Write(d, w1)  BY Zenon
<1>5. PICK d2 : d2 = Write(d1, w2)  OBVIOUS
<1>6. PICK d3 : d3 = Write(d2, w3)  OBVIOUS
<1>7. WrittenOver(d, ws) = d3
  <2>1. ws = <<w1, w2, w3>>  BY DEF at, as, v, u
  <2>. HIDE DEF w1, w2, w3
  <2>. QED  BY <2>1, <1>4, <1>5, <1>6, ThreeWrites
<1>8. HasData(d, d1, at, as)  BY <1>1, <1>2, <1>4, WriteData, Zenon
<1>9. HasInode(d1, d2, c, v)  BY <1>1, <1>2, <1>5, <1>8, WriteInode DEF HasData
<1>10. HasInode(d2, d3, x, u)  BY <1>1, <1>3, <1>6, <1>9, WriteInode DEF HasInode
<1>11. /\ d3 \in Disks /\ d3.magic = d.magic /\ d3.imap = d.imap /\ d3.bmap = d.bmap
       /\ d3.inode = [[d.inode EXCEPT ![c] = v] EXCEPT ![x] = u]
       /\ d3.data = [d.data EXCEPT ![at] = as]
  BY <1>8, <1>9, <1>10 DEF HasData, HasInode
<1>. QED  BY <1>7, <1>11 DEF OneGone, at, as, v, u

-----------------------------------------------------------------------------
(* The steps of the system. *)

Held(T) ==
  /\ Good(disk, T) /\ Refs(disk, T, current, file_d)
  /\ crashed \in BOOLEAN /\ (~ crashed => Used(disk, T))

\* What a call leaves is what the root reaches.
LEMMA Arrived ==
  ASSUME NEW CONSTANT U, Held(U)'
  PROVE  IInv'
<1>1. TreeReached'  BY TreeIsReached, PTL
<1>2. Good(disk, U)'  BY DEF Held
<1>3. U = Reached'  BY <1>1, <1>2 DEF TreeReached
<1>4. /\ Good(disk', U) /\ Refs(disk', U, current', file_d')
      /\ crashed' \in BOOLEAN /\ (~ crashed' => Used(disk', U))
  BY DEF Held
<1>. QED  BY <1>3, <1>4 DEF IInv

\* References stay valid if what they lead to stays.
LEMMA RefsKept ==
  ASSUME NEW d, NEW e, NEW T, NEW U, NEW cur, NEW fds, Refs(d, T, cur, fds),
         \A i \in T : e.inode[i].mode = d.inode[i].mode,
         cur \in U, \A fd \in 1 .. MAXFD : fds[fd] # Root => fds[fd] \in U
  PROVE  Refs(e, U, cur, fds)
BY DEF Refs, Folder

\* Without power failures what is marked as used is in the tree.
LEMMA UsedNew ==
  ASSUME NEW d, NEW e, NEW T, NEW c, NEW x, NEW b, NEW f, Good(d, T), Used(d, T),
         Creates(d, e, T, c, x, b, f)
  PROVE  Used(e, T \cup {x})
<1>1. /\ c \in T /\ x \in Ino \ d.imap /\ e.imap = d.imap \cup {x} /\ e.bmap = d.bmap \cup {b}
      /\ \A i \in T \ {c} : Agree(d, e, i)
      /\ Grows(d, e, c, f) /\ e.inode[x].block = b
  BY DEF Creates
<1>2. d.imap = T /\ d.bmap = {d.inode[i].block : i \in T}  BY DEF Used
<1>3. d \in Disks /\ c \in Ino  BY <1>1 DEF Good, Hang
<1>4. e.inode[c].block = d.inode[c].block
  <2>1. d.inode[c] \in Inodes  BY <1>3, DiskTypes
  <2>. QED  BY <1>1, <2>1 DEF Grows, Inodes
<1>5. \A i \in T : e.inode[i].block = d.inode[i].block  BY <1>1, <1>4 DEF Agree
<1>6. {e.inode[i].block : i \in T \cup {x}} = {d.inode[i].block : i \in T} \cup {b}
  BY <1>1, <1>5
<1>. QED  BY <1>1, <1>2, <1>6, Zenon DEF Used

LEMMA UsedDropped ==
  ASSUME NEW d, NEW e, NEW T, NEW c, NEW k, NEW x, NEW U, Good(d, T), Used(d, T),
         Drops(d, e, T, c, k, x, U), x \in T
  PROVE  Used(e, U)
<1>1. /\ c \in T /\ Shrinks(d, e, c, k) /\ x # c
      /\ U = T \ {x} \/ U = T
      /\ \A i \in T \ {c, x} : Agree(d, e, i)
      /\ e.inode[x].block = d.inode[x].block
      /\ x \notin U => e.imap = d.imap \ {x} /\ e.bmap = d.bmap \ {d.inode[x].block}
      /\ x \in U => e.imap = d.imap /\ e.bmap = d.bmap
  BY DEF Drops
<1>2. d.imap = T /\ d.bmap = {d.inode[i].block : i \in T}  BY DEF Used
<1>3. e.inode[c].block = d.inode[c].block  BY <1>1 DEF Shrinks
<1>4. \A i \in T : e.inode[i].block = d.inode[i].block  BY <1>1, <1>3 DEF Agree
<1>5. \A i \in T : d.inode[i].block = d.inode[x].block => i = x  BY DEF Good, Shape
<1>6. {e.inode[i].block : i \in U} = {d.inode[i].block : i \in U}  BY <1>1, <1>4
<1>7. U = T \ {x} => {d.inode[i].block : i \in U}
                       = {d.inode[i].block : i \in T} \ {d.inode[x].block}
  BY <1>5
<1>. QED  BY <1>1, <1>2, <1>6, <1>7, Zenon DEF Used

\* The power fails where the tree is whole.
LEMMA PowerBack ==
  ASSUME NEW CONSTANT T, Good(disk, T), NEW call, NEW ws, PowerFails(call, ws),
         \A k \in 0 .. (Len(ws) - 1) : Good(WrittenOver(disk, SubSeq(ws, 1, k)), T)
  PROVE  IInv'
<1>1. PICK k \in 0 .. (Len(ws) - 1) :
        LET left == Written(SubSeq(ws, 1, k))
        IN disk' = IF left.magic THEN left ELSE WrittenOver(left, Mkfs)
  BY DEF PowerFails
<1>2. Good(WrittenOver(disk, SubSeq(ws, 1, k)), T)  OBVIOUS
<1>3. disk' = WrittenOver(disk, SubSeq(ws, 1, k))  BY <1>1, <1>2 DEF Written, Good
<1>4. Good(disk', T)  BY <1>2, <1>3
<1>5. current' = Root /\ file_d' = [fd \in 1 .. MAXFD |-> Root] /\ crashed' = TRUE
  BY DEF PowerFails
<1>6. Root \in T /\ Folder(disk', Root) /\ Root \in Ino  BY <1>4 DEF Good, Hang
<1>7. Refs(disk', T, current', file_d')  BY <1>5, <1>6 DEF Refs
<1>8. Held(T)'  BY <1>4, <1>5, <1>7 DEF Held
<1>. QED  BY <1>8, Arrived

-----------------------------------------------------------------------------
(* do_mkdir and do_touch. *)

\* There is a block for every inode.
LEMMA BlockLeft ==
  ASSUME FileSystemOK, NumIno <= NumBlock, NEW d, NEW T, Good(d, T), Ino \ d.imap # {}
  PROVE  Block \ d.bmap # {}
<1>1. NumIno \in Nat \ {0} /\ NumBlock \in Nat \ {0}  BY DEF FileSystemOK
<1>2. IsFiniteSet(Ino) /\ Cardinality(Ino) = NumIno
  <2>1. 0 \in Int /\ NumIno - 1 \in Int  BY <1>1
  <2>2. IsFiniteSet(0 .. (NumIno - 1))
        /\ Cardinality(0 .. (NumIno - 1)) = IF 0 > NumIno - 1 THEN 0 ELSE (NumIno - 1) - 0 + 1
    BY <2>1, FS_Interval
  <2>. QED  BY <1>1, <2>2 DEF Ino
<1>3. IsFiniteSet(Block) /\ Cardinality(Block) = NumBlock
  <2>1. 1 \in Int /\ NumBlock \in Int  BY <1>1
  <2>2. IsFiniteSet(1 .. NumBlock)
        /\ Cardinality(1 .. NumBlock) = IF 1 > NumBlock THEN 0 ELSE NumBlock - 1 + 1
    BY <2>1, FS_Interval
  <2>. QED  BY <1>1, <2>2 DEF Block
<1>4. /\ Cardinality(d.imap) \in Nat /\ Cardinality(d.bmap) \in Nat
      /\ d.imap \subseteq Ino /\ d.bmap \subseteq Block
      /\ Cardinality(d.bmap) <= Cardinality(d.imap)
  BY DiskTypes DEF Good
<1>5. Cardinality(d.imap) < NumIno
  <2>1. Cardinality(d.imap) <= NumIno /\ (Cardinality(d.imap) = NumIno => d.imap = Ino)
    BY <1>2, <1>4, FS_Subset
  <2>. QED  BY <2>1, <1>1, <1>4
<1>6. Cardinality(d.bmap) # Cardinality(Block)  BY <1>1, <1>3, <1>4, <1>5
<1>. QED  BY <1>4, <1>6

LEMMA PlaceLeft ==
  ASSUME NEW T, Good(disk, T), current \in T, Folder(disk, current), HasPlace(current)
  PROVE  disk.inode[current].n < PerBlock
<1>1. Len(Ent(disk, current)) = disk.inode[current].n  BY DEF Good, Shape
<1>2. Len(Ent(disk, current)) < PerBlock  BY SameEntries DEF HasPlace
<1>. QED  BY <1>1, <1>2

LEMMA Created ==
  ASSUME NumIno <= NumBlock, NEW T, Good(disk, T), current \in T, Folder(disk, current),
         NEW name \in Name, NEW mode \in {"DIR", "FILE"}, CanCreate(name)
  PROVE  /\ alloc_data_block # 0
         /\ Before(disk, T, current, alloc_inode, alloc_data_block,
                   Dentry(mode, alloc_inode, name))
<1>1. /\ disk.magic /\ ~ Found(current, name) /\ Ino \ disk.imap # {}
      /\ disk.inode[current].n < PerBlock
  <2>1. HasPlace(current)  BY DEF CanCreate
  <2>2. disk.inode[current].n < PerBlock  BY <2>1, PlaceLeft
  <2>. QED  BY <2>2 DEF CanCreate
<1>2. Block \ disk.bmap # {}  BY <1>1, BlockLeft, FileSystemOK
<1>3. alloc_data_block \in Block \ disk.bmap
  <2>1. Block \ disk.bmap \subseteq Nat  BY DEF Block
  <2>2. Least(Block \ disk.bmap) \in Block \ disk.bmap  BY <1>2, <2>1, LeastIn
  <2>. QED  BY <1>2, <2>2 DEF alloc_data_block
<1>4. alloc_inode \in Ino \ disk.imap
  <2>1. Ino \ disk.imap \subseteq Nat  BY DEF Ino
  <2>. QED  BY <1>1, <2>1, LeastIn DEF alloc_inode
<1>5. Named(Ent(disk, current), name) = {}  BY <1>1, SameEntries DEF Found
<1>6. Dentry(mode, alloc_inode, name) \in Dentries  BY <1>4 DEF Dentry, Dentries
<1>7. /\ Dentry(mode, alloc_inode, name).ino = alloc_inode
      /\ Dentry(mode, alloc_inode, name).name = name
  BY DEF Dentry
<1>8. alloc_data_block # 0  BY <1>3 DEF Block
<1>. HIDE DEF alloc_inode, alloc_data_block
<1>. QED  BY <1>1, <1>3, <1>4, <1>5, <1>6, <1>7, <1>8 DEF Before

\* The new inode is in the tree, and what was there before stays.
LEMMA NewHeld ==
  ASSUME NEW CONSTANT T, Held(T), NEW CONSTANT x, NEW b, NEW f,
         Creates(disk, disk', T, current, x, b, f), UNCHANGED <<current, file_d, crashed>>
  PROVE  IInv'
<1>1. Good(disk, T) /\ Refs(disk, T, current, file_d) /\ crashed \in BOOLEAN
      /\ (~ crashed => Used(disk, T))
  BY DEF Held
<1>2. Good(disk', T \cup {x})  BY <1>1, NewAdded
<1>3. ~ crashed => Used(disk', T \cup {x})  BY <1>1, UsedNew
<1>4. \A i \in T : disk'.inode[i].mode = disk.inode[i].mode
  <2>1. \A i \in T \ {current} : disk'.inode[i] = disk.inode[i]  BY DEF Creates, Agree
  <2>2. disk.inode[current] \in Inodes  BY <1>1, DiskTypes DEF Refs, Good, Hang
  <2>3. disk'.inode[current] = [disk.inode[current] EXCEPT !.nlinks = @ + 1, !.n = @ + 1]
    BY DEF Creates, Grows
  <2>4. disk'.inode[current].mode = disk.inode[current].mode  BY <2>2, <2>3 DEF Inodes
  <2>. QED  BY <2>1, <2>4
<1>5. Refs(disk', T \cup {x}, current', file_d')
  <2>1. current \in T /\ \A fd \in 1 .. MAXFD : file_d[fd] # Root => file_d[fd] \in T
    BY <1>1 DEF Refs
  <2>2. Refs(disk', T \cup {x}, current, file_d)  BY <1>1, <1>4, <2>1, RefsKept
  <2>. QED  BY <2>2
<1>6. Held(T \cup {x})'  BY <1>1, <1>2, <1>3, <1>5 DEF Held
<1>. QED  BY <1>6, Arrived

\* The writes of a call, put together.
LEMMA Joined ==
  ASSUME NEW S, NEW r \in Seq(S), NEW s \in Seq(S), NEW t \in Seq(S),
         Len(r) = Len(s) + Len(t), \A i \in 1 .. Len(s) : r[i] = s[i],
         \A i \in 1 .. Len(t) : r[Len(s) + i] = t[i]
  PROVE  s \o t = r
<1>1. /\ s \o t \in Seq(S) /\ Len(s \o t) = Len(s) + Len(t)
      /\ \A i \in 1 .. Len(s) + Len(t) :
            (s \o t)[i] = IF i <= Len(s) THEN s[i] ELSE t[i - Len(s)]
  BY ConcatProperties
<1>2. ASSUME NEW i \in 1 .. Len(s \o t) PROVE (s \o t)[i] = r[i]
  <2>1. Len(s) \in Nat /\ Len(t) \in Nat  BY LenProperties
  <2>2. CASE i <= Len(s)  BY <1>1, <2>1, <2>2
  <2>3. CASE ~ i <= Len(s)
    <3>1. PICK j \in 1 .. Len(t) : i = Len(s) + j /\ j = i - Len(s)
      <4>1. i - Len(s) \in 1 .. Len(t) /\ i = Len(s) + (i - Len(s))  BY <1>1, <2>1, <2>3
      <4>. QED  BY <4>1
    <3>2. (s \o t)[i] = t[j]  BY <1>1, <2>3, <3>1
    <3>. QED  BY <3>1, <3>2
  <2>. QED  BY <2>2, <2>3
<1>. QED  BY <1>1, <1>2, SeqEqual

Six(t, u, v, w, x, y) == <<t>> \o <<u>> \o <<v>> \o <<w>> \o <<x, y>>
LEMMA SixTogether ==
  ASSUME NEW t, NEW u, NEW v, NEW w, NEW x, NEW y
  PROVE  Six(t, u, v, w, x, y) = <<t, u, v, w, x, y>>
<1>. DEFINE S == {t, u, v, w, x, y}
<1>0. /\ <<t>> \in Seq(S) /\ <<u>> \in Seq(S) /\ <<v>> \in Seq(S) /\ <<w>> \in Seq(S)
      /\ <<x, y>> \in Seq(S) /\ <<t, u>> \in Seq(S) /\ <<t, u, v>> \in Seq(S)
      /\ <<t, u, v, w>> \in Seq(S) /\ <<t, u, v, w, x, y>> \in Seq(S)
  OBVIOUS
<1>. HIDE DEF S
<1>1. <<t>> \o <<u>> = <<t, u>>
  <2>1. PICK k : k = <<t>>  BY Zenon
  <2>2. PICK l : l = <<u>>  BY Zenon
  <2>3. PICK m : m = <<t, u>>  BY Zenon
  <2>4. k \in Seq(S) /\ l \in Seq(S) /\ m \in Seq(S)  BY <1>0, <2>1, <2>2, <2>3
  <2>5. Len(m) = Len(k) + Len(l) /\ Len(k) = 1  BY <2>1, <2>2, <2>3
  <2>6. \A i \in 1 .. Len(k) : m[i] = k[i]  BY <2>1, <2>3
  <2>7. \A i \in 1 .. Len(l) : m[Len(k) + i] = l[i]  BY <2>1, <2>2, <2>3
  <2>8. k \o l = m  BY <2>4, <2>5, <2>6, <2>7, Joined, Zenon
  <2>. QED  BY <2>1, <2>2, <2>3, <2>8
<1>2. <<t, u>> \o <<v>> = <<t, u, v>>
  <2>1. PICK k : k = <<t, u>>  BY Zenon
  <2>2. PICK l : l = <<v>>  BY Zenon
  <2>3. PICK m : m = <<t, u, v>>  BY Zenon
  <2>4. k \in Seq(S) /\ l \in Seq(S) /\ m \in Seq(S)  BY <1>0, <2>1, <2>2, <2>3
  <2>5. Len(m) = Len(k) + Len(l) /\ Len(k) = 2  BY <2>1, <2>2, <2>3
  <2>6. \A i \in 1 .. Len(k) : m[i] = k[i]  BY <2>1, <2>3
  <2>7. \A i \in 1 .. Len(l) : m[Len(k) + i] = l[i]  BY <2>1, <2>2, <2>3
  <2>8. k \o l = m  BY <2>4, <2>5, <2>6, <2>7, Joined, Zenon
  <2>. QED  BY <2>1, <2>2, <2>3, <2>8
<1>3. <<t, u, v>> \o <<w>> = <<t, u, v, w>>
  <2>1. PICK k : k = <<t, u, v>>  BY Zenon
  <2>2. PICK l : l = <<w>>  BY Zenon
  <2>3. PICK m : m = <<t, u, v, w>>  BY Zenon
  <2>4. k \in Seq(S) /\ l \in Seq(S) /\ m \in Seq(S)  BY <1>0, <2>1, <2>2, <2>3
  <2>5. Len(m) = Len(k) + Len(l) /\ Len(k) = 3  BY <2>1, <2>2, <2>3
  <2>6. \A i \in 1 .. Len(k) : m[i] = k[i]  BY <2>1, <2>3
  <2>7. \A i \in 1 .. Len(l) : m[Len(k) + i] = l[i]  BY <2>1, <2>2, <2>3
  <2>8. k \o l = m  BY <2>4, <2>5, <2>6, <2>7, Joined, Zenon
  <2>. QED  BY <2>1, <2>2, <2>3, <2>8
<1>4. <<t, u, v, w>> \o <<x, y>> = <<t, u, v, w, x, y>>
  <2>1. PICK k : k = <<t, u, v, w>>  BY Zenon
  <2>2. PICK l : l = <<x, y>>  BY Zenon
  <2>3. PICK m : m = <<t, u, v, w, x, y>>  BY Zenon
  <2>4. k \in Seq(S) /\ l \in Seq(S) /\ m \in Seq(S)  BY <1>0, <2>1, <2>2, <2>3
  <2>5. Len(m) = Len(k) + Len(l) /\ Len(k) = 4  BY <2>1, <2>2, <2>3
  <2>6. \A i \in 1 .. Len(k) : m[i] = k[i]  BY <2>1, <2>3
  <2>7. \A i \in 1 .. Len(l) : m[Len(k) + i] = l[i]  BY <2>1, <2>2, <2>3
  <2>8. k \o l = m  BY <2>4, <2>5, <2>6, <2>7, Joined, Zenon
  <2>. QED  BY <2>1, <2>2, <2>3, <2>8
<1>. QED  BY <1>1, <1>2, <1>3, <1>4, Zenon DEF Six

LEMMA FiveTogether ==
  ASSUME NEW t, NEW u, NEW v, NEW x, NEW y
  PROVE  <<t>> \o <<u>> \o <<v>> \o <<>> \o <<x, y>> = <<t, u, v, x, y>>
<1>. DEFINE S == {t, u, v, x, y}
<1>0. /\ <<t>> \in Seq(S) /\ <<u>> \in Seq(S) /\ <<v>> \in Seq(S)
      /\ <<x, y>> \in Seq(S) /\ <<t, u>> \in Seq(S) /\ <<t, u, v>> \in Seq(S)
      /\ <<t, u, v, x, y>> \in Seq(S)
  OBVIOUS
<1>. HIDE DEF S
<1>1. <<t>> \o <<u>> = <<t, u>>
  <2>1. PICK k : k = <<t>>  BY Zenon
  <2>2. PICK l : l = <<u>>  BY Zenon
  <2>3. PICK m : m = <<t, u>>  BY Zenon
  <2>4. k \in Seq(S) /\ l \in Seq(S) /\ m \in Seq(S)  BY <1>0, <2>1, <2>2, <2>3
  <2>5. Len(m) = Len(k) + Len(l) /\ Len(k) = 1  BY <2>1, <2>2, <2>3
  <2>6. \A i \in 1 .. Len(k) : m[i] = k[i]  BY <2>1, <2>3
  <2>7. \A i \in 1 .. Len(l) : m[Len(k) + i] = l[i]  BY <2>1, <2>2, <2>3
  <2>8. k \o l = m  BY <2>4, <2>5, <2>6, <2>7, Joined, Zenon
  <2>. QED  BY <2>1, <2>2, <2>3, <2>8
<1>2. <<t, u>> \o <<v>> = <<t, u, v>>
  <2>1. PICK k : k = <<t, u>>  BY Zenon
  <2>2. PICK l : l = <<v>>  BY Zenon
  <2>3. PICK m : m = <<t, u, v>>  BY Zenon
  <2>4. k \in Seq(S) /\ l \in Seq(S) /\ m \in Seq(S)  BY <1>0, <2>1, <2>2, <2>3
  <2>5. Len(m) = Len(k) + Len(l) /\ Len(k) = 2  BY <2>1, <2>2, <2>3
  <2>6. \A i \in 1 .. Len(k) : m[i] = k[i]  BY <2>1, <2>3
  <2>7. \A i \in 1 .. Len(l) : m[Len(k) + i] = l[i]  BY <2>1, <2>2, <2>3
  <2>8. k \o l = m  BY <2>4, <2>5, <2>6, <2>7, Joined, Zenon
  <2>. QED  BY <2>1, <2>2, <2>3, <2>8
<1>3. <<t, u, v>> \o <<>> = <<t, u, v>>  BY <1>0, ConcatEmptySeq
<1>4. <<t, u, v>> \o <<x, y>> = <<t, u, v, x, y>>
  <2>1. PICK k : k = <<t, u, v>>  BY Zenon
  <2>2. PICK l : l = <<x, y>>  BY Zenon
  <2>3. PICK m : m = <<t, u, v, x, y>>  BY Zenon
  <2>4. k \in Seq(S) /\ l \in Seq(S) /\ m \in Seq(S)  BY <1>0, <2>1, <2>2, <2>3
  <2>5. Len(m) = Len(k) + Len(l) /\ Len(k) = 3  BY <2>1, <2>2, <2>3
  <2>6. \A i \in 1 .. Len(k) : m[i] = k[i]  BY <2>1, <2>3
  <2>7. \A i \in 1 .. Len(l) : m[Len(k) + i] = l[i]  BY <2>1, <2>2, <2>3
  <2>8. k \o l = m  BY <2>4, <2>5, <2>6, <2>7, Joined, Zenon
  <2>. QED  BY <2>1, <2>2, <2>3, <2>8
<1>. QED  BY <1>1, <1>2, <1>3, <1>4, Zenon

LEMMA MkdirStep ==
  ASSUME NumIno <= NumBlock, NEW CONSTANT T, Held(T), NEW name \in Name, do_mkdir(name)
  PROVE  IInv'
<1>1. CanCreate(name)
      /\ Do("mkdir", Create(name, "DIR", 0, 2, init_dentry(alloc_data_block, alloc_inode, current)))
  BY DEF do_mkdir
<1>2. Good(disk, T) /\ current \in T /\ Folder(disk, current)  BY DEF Held, Refs
<1>3. PICK x : x = alloc_inode  OBVIOUS
<1>4. PICK b : b = alloc_data_block  OBVIOUS
<1>5. PICK c : c = current  OBVIOUS
<1>6. PICK f : f = Dentry("DIR", x, name)  OBVIOUS
<1>7. b # 0 /\ Before(disk, T, c, x, b, f) /\ f.mode = "DIR"
  BY <1>1, <1>2, <1>3, <1>4, <1>5, <1>6, Created, Zenon DEF Dentry
<1>8. PICK ws : ws = DirWrites(disk, c, x, b, f)  OBVIOUS
<1>9. Create(name, "DIR", 0, 2, init_dentry(alloc_data_block, alloc_inode, current)) = ws
  <2>1. Append(Ent(disk, c), f) = WithEntry(current, Dentry("DIR", x, name))
    BY <1>5, <1>6, SameEntries DEF WithEntry
  <2>2. Add(disk, c) = Grown(current)  BY <1>5 DEF Add, Grown, inode
  <2>3. DirWrites(disk, c, x, b, f)
          = <<W("imap", x, TRUE)>> \o <<W("bmap", b, TRUE)>>
            \o <<W("inode", x, Inode("DIR", 0, 2, b))>>
            \o <<W("data", b, <<Dentry("DIR", x, "."), Dentry("DIR", c, "..")>>)>>
            \o <<W("data", inode(c).block, Append(Ent(disk, c), f)), W("inode", c, Add(disk, c))>>
    <3>1. PICK u : u = <<Dentry("DIR", x, "."), Dentry("DIR", c, "..")>>  BY Zenon
    <3>2. PICK v : v = W("data", b, u)  OBVIOUS
    <3>3. PICK w : w = W("data", disk.inode[c].block, Append(Ent(disk, c), f))  OBVIOUS
    <3>4. PICK y : y = W("inode", x, Inode("DIR", 0, 2, b))  OBVIOUS
    <3>5. PICK z : z = W("inode", c, Add(disk, c))  OBVIOUS
    <3>6. PICK s : s = W("imap", x, TRUE)  BY Zenon
    <3>7. PICK t : t = W("bmap", b, TRUE)  BY Zenon
    <3>8. Six(s, t, y, v, w, z) = <<s, t, y, v, w, z>>  BY SixTogether
    <3>9. DirWrites(disk, c, x, b, f) = <<s, t, y, v, w, z>>
      BY <3>1, <3>2, <3>3, <3>4, <3>5, <3>6, <3>7 DEF DirWrites
    <3>. QED  BY <3>1, <3>2, <3>3, <3>4, <3>5, <3>6, <3>7, <3>8, <3>9, Zenon DEF inode, Six
  <2>. QED
    BY <1>3, <1>4, <1>5, <1>7, <1>8, <2>1, <2>2, <2>3 DEF Create, init_dentry
<1>10. /\ Len(ws) = 6 /\ \A k \in 0 .. 5 : Good(WrittenOver(disk, SubSeq(ws, 1, k)), T)
       /\ Creates(disk, WrittenOver(disk, ws), T, c, x, b, f)
  BY <1>7, <1>8, DirMade
<1>11. CASE Complete(ws)
  <2>1. disk' = WrittenOver(disk, ws) /\ UNCHANGED <<current, file_d, crashed>>
    BY <1>11 DEF Complete, Written
  <2>. QED  BY <2>1, <1>5, <1>10, NewHeld
<1>12. CASE PowerFails("mkdir", ws)
  <2>1. \A k \in 0 .. (Len(ws) - 1) : Good(WrittenOver(disk, SubSeq(ws, 1, k)), T)
    <3>1. Len(ws) - 1 = 5  BY <1>10
    <3>. QED  BY <3>1, <1>10
  <2>2. Good(disk, T)  BY <1>2
  <2>3. PowerFails("mkdir", ws)  BY <1>12
  <2>. QED  BY <2>1, <2>2, <2>3, PowerBack
<1>. QED  BY <1>1, <1>9, <1>11, <1>12 DEF Do

LEMMA TouchStep ==
  ASSUME NumIno <= NumBlock, NEW CONSTANT T, Held(T), NEW name \in Name, do_touch(name)
  PROVE  IInv'
<1>1. CanCreate(name) /\ Do("touch", Create(name, "FILE", 1, 0, <<>>))
  BY DEF do_touch
<1>2. Good(disk, T) /\ current \in T /\ Folder(disk, current)  BY DEF Held, Refs
<1>3. PICK x : x = alloc_inode  OBVIOUS
<1>4. PICK b : b = alloc_data_block  OBVIOUS
<1>5. PICK c : c = current  OBVIOUS
<1>6. PICK f : f = Dentry("FILE", x, name)  OBVIOUS
<1>7. b # 0 /\ Before(disk, T, c, x, b, f) /\ f.mode = "FILE"
  BY <1>1, <1>2, <1>3, <1>4, <1>5, <1>6, Created, Zenon DEF Dentry
<1>8. PICK ws : ws = FileWrites(disk, c, x, b, f)  OBVIOUS
<1>9. Create(name, "FILE", 1, 0, <<>>) = ws
  <2>1. Append(Ent(disk, c), f) = WithEntry(current, Dentry("FILE", x, name))
    BY <1>5, <1>6, SameEntries DEF WithEntry
  <2>2. Add(disk, c) = Grown(current)  BY <1>5 DEF Add, Grown, inode
  <2>3. FileWrites(disk, c, x, b, f)
          = <<W("imap", x, TRUE)>> \o <<W("bmap", b, TRUE)>>
            \o <<W("inode", x, Inode("FILE", 1, 0, b))>> \o <<>>
            \o <<W("data", inode(c).block, Append(Ent(disk, c), f)), W("inode", c, Add(disk, c))>>
    BY FiveTogether, Zenon DEF FileWrites, inode
  <2>. QED
    BY <1>3, <1>4, <1>5, <1>7, <1>8, <2>1, <2>2, <2>3 DEF Create
<1>10. /\ Len(ws) = 5 /\ \A k \in 0 .. 4 : Good(WrittenOver(disk, SubSeq(ws, 1, k)), T)
       /\ Creates(disk, WrittenOver(disk, ws), T, c, x, b, f)
  BY <1>7, <1>8, FileMade
<1>11. CASE Complete(ws)
  <2>1. disk' = WrittenOver(disk, ws) /\ UNCHANGED <<current, file_d, crashed>>
    BY <1>11 DEF Complete, Written
  <2>. QED  BY <2>1, <1>5, <1>10, NewHeld
<1>12. CASE PowerFails("touch", ws)
  <2>1. \A k \in 0 .. (Len(ws) - 1) : Good(WrittenOver(disk, SubSeq(ws, 1, k)), T)
    <3>1. Len(ws) - 1 = 4  BY <1>10
    <3>. QED  BY <3>1, <1>10
  <2>2. Good(disk, T)  BY <1>2
  <2>3. PowerFails("touch", ws)  BY <1>12
  <2>. QED  BY <2>1, <2>2, <2>3, PowerBack
<1>. QED  BY <1>1, <1>9, <1>11, <1>12 DEF Do

-----------------------------------------------------------------------------
(* The calls that write nothing. *)

LEMMA CdStep ==
  ASSUME NEW CONSTANT T, Held(T), NEW path \in Paths, do_cd(path)
  PROVE  IInv'
<1>1. Good(disk, T) /\ current \in T /\ path \in Path  BY PathsOK DEF Held, Refs
<1>2. find_dir(path).at \in T  BY <1>1, PathsStay
<1>3. /\ current' \in {find_dir(path).at, current}
      /\ current' = current \/ Folder(disk, current')
      /\ UNCHANGED <<disk, file_d, crashed>>
  BY DEF do_cd, Folder, inode
<1>4. Refs(disk, T, current', file_d)  BY <1>2, <1>3 DEF Held, Refs
<1>5. Held(T)'  BY <1>3, <1>4 DEF Held
<1>. QED  BY <1>5, Arrived

LEMMA NoFileStep ==
  ASSUME Misuse = {}, NEW CONSTANT T, Held(T), NEW path \in Paths, NoSuchFile(path)
  PROVE  IInv'
<1>1. current' = current /\ UNCHANGED <<disk, file_d, crashed>>
  BY DEF NoSuchFile, Mistaken
<1>2. Held(T)'  BY <1>1 DEF Held
<1>. QED  BY <1>2, Arrived

LEMMA OpenStep ==
  ASSUME Misuse = {}, NEW CONSTANT T, Held(T), NEW path \in Paths, do_fopen(path)
  PROVE  IInv'
<1>1. Good(disk, T) /\ current \in T /\ path \in Path  BY PathsOK DEF Held, Refs
<1>2. PICK x : x = find_dir(path).at  OBVIOUS
<1>3. x \in T  BY <1>1, <1>2, PathsStay
<1>4. ~ Folder(disk, x)  BY <1>2 DEF do_fopen, Folder, inode
<1>5. PICK s : s = Least(FreeSlots)  OBVIOUS
<1>6. file_d' = [file_d EXCEPT ![s] = x] /\ UNCHANGED <<disk, current, crashed>>
  BY <1>2, <1>5 DEF do_fopen
<1>7. T \subseteq Ino  BY <1>1 DEF Good, Hang
<1>8. Refs(disk, T, current, file_d')  BY <1>3, <1>4, <1>6, <1>7, Zenon DEF Held, Refs
<1>9. Held(T)'  BY <1>6, <1>8 DEF Held
<1>. QED  BY <1>9, Arrived

LEMMA CloseStep ==
  ASSUME NEW CONSTANT T, Held(T), NEW fd \in 1 .. MAXFD, do_fclose(fd)
  PROVE  IInv'
<1>1. file_d' = [file_d EXCEPT ![fd] = Root] /\ UNCHANGED <<disk, current, crashed>>
  BY DEF do_fclose
<1>2. Root \in Ino  BY DEF Held, Good, Hang
<1>3. Refs(disk, T, current, file_d')  BY <1>1, <1>2 DEF Held, Refs
<1>4. Held(T)'  BY <1>1, <1>3 DEF Held
<1>. QED  BY <1>4, Arrived

-----------------------------------------------------------------------------
(* do_ln *)

LEMMA LinkStep ==
  ASSUME Misuse = {}, "ln" \notin CrashIn, NEW CONSTANT T, Held(T), NEW path \in Paths,
         NEW name \in Name, do_ln(path, name)
  PROVE  IInv'
<1>1. Good(disk, T) /\ current \in T /\ Folder(disk, current) /\ path \in Path
  BY PathsOK DEF Held, Refs
<1>2. PICK x : x = find_dir(path).at  OBVIOUS
<1>3. PICK c : c = current  OBVIOUS
<1>4. PICK f : f = Dentry("FILE", x, name)  OBVIOUS
<1>5. PICK ws : ws = LinkWrites(disk, c, x, f)  OBVIOUS
<1>6. x \in T  BY <1>1, <1>2, PathsStay
<1>7. ~ Folder(disk, x)  BY <1>2 DEF do_ln, Folder, inode
<1>8. Named(Ent(disk, c), name) = {}
  <2>1. ~ Found(current, name)  BY DEF do_ln
  <2>. QED  BY <2>1, <1>3, SameEntries DEF Found
<1>9. BeforeLink(disk, T, c, x, f)
  <2>1. x \in Ino  BY <1>1, <1>6 DEF Good, Hang
  <2>2. f \in Dentries /\ f.ino = x /\ f.mode = "FILE" /\ f.name = name
    BY <2>1, <1>4 DEF Dentry, Dentries
  <2>3. disk.inode[c].n < PerBlock  BY <1>1, <1>3, PlaceLeft DEF do_ln
  <2>. QED  BY <2>2, <2>3, <1>1, <1>3, <1>6, <1>7, <1>8 DEF BeforeLink
<1>10. Complete(ws)
  <2>1. x # c  BY <1>1, <1>3, <1>7
  <2>2. WithEntry(current, f) = Append(Ent(disk, c), f)  BY <1>3, SameEntries DEF WithEntry
  <2>3. Grown(current) = Add(disk, c)  BY <1>3 DEF Grown, Add, inode
  <2>4. [(IF x = current THEN Grown(x) ELSE inode(x)) EXCEPT !.nlinks = @ + 1] = One(disk, x)
    BY <2>1, <1>3 DEF One, inode
  <2>5. PICK vs : vs = <<W("data", inode(current).block, WithEntry(current, f)),
                         W("inode", current, Grown(current)),
                         W("inode", x, [(IF x = current THEN Grown(x) ELSE inode(x))
                                           EXCEPT !.nlinks = @ + 1])>>
    BY Zenon
  <2>6. vs = ws  BY <2>2, <2>3, <2>4, <2>5, <1>3, <1>5 DEF LinkWrites, inode
  <2>7. Do("ln", vs)  BY <2>5, <1>2, <1>4 DEF do_ln
  <2>8. ~ PowerFails("ln", vs)  BY DEF PowerFails
  <2>. QED  BY <2>6, <2>7, <2>8 DEF Do
<1>11. disk' = WrittenOver(disk, ws) /\ UNCHANGED <<current, file_d, crashed>>
  BY <1>10 DEF Complete, Written
<1>12. Names(disk, disk', T, c, x, f)  BY <1>5, <1>9, <1>11, Linked
<1>13. Good(disk', T)  BY <1>1, <1>12, NameAdded
<1>14. \A i \in T : /\ disk'.inode[i].mode = disk.inode[i].mode
                    /\ disk'.inode[i].block = disk.inode[i].block
  <2>1. \A i \in T \ {c, x} : disk'.inode[i] = disk.inode[i]  BY <1>12 DEF Names, Agree
  <2>2. disk.inode[c] \in Inodes /\ disk.inode[x] \in Inodes
    BY <1>1, <1>3, <1>6, DiskTypes DEF Good, Hang
  <2>3. disk'.inode[c] = [disk.inode[c] EXCEPT !.nlinks = @ + 1, !.n = @ + 1]
    BY <1>12 DEF Names, Grows
  <2>4. disk'.inode[x] = [disk.inode[x] EXCEPT !.nlinks = @ + 1]  BY <1>12 DEF Names
  <2>5. /\ disk'.inode[c].mode = disk.inode[c].mode
        /\ disk'.inode[c].block = disk.inode[c].block
    BY <2>2, <2>3 DEF Inodes
  <2>6. /\ disk'.inode[x].mode = disk.inode[x].mode
        /\ disk'.inode[x].block = disk.inode[x].block
    BY <2>2, <2>4 DEF Inodes
  <2>. QED  BY <2>1, <2>5, <2>6
<1>15. Refs(disk', T, current, file_d)
  <2>1. Refs(disk, T, current, file_d)  BY DEF Held
  <2>2. current \in T /\ \A fd \in 1 .. MAXFD : file_d[fd] # Root => file_d[fd] \in T
    BY <2>1 DEF Refs
  <2>. QED  BY <1>14, <2>1, <2>2, RefsKept
<1>16. Used(disk, T) => Used(disk', T)
  <2>1. disk'.imap = disk.imap /\ disk'.bmap = disk.bmap  BY <1>12 DEF Names
  <2>2. {disk'.inode[i].block : i \in T} = {disk.inode[i].block : i \in T}  BY <1>14
  <2>. QED  BY <2>1, <2>2, Zenon DEF Used
<1>17. Held(T)'  BY <1>11, <1>13, <1>15, <1>16 DEF Held
<1>. QED  BY <1>17, Arrived

-----------------------------------------------------------------------------
(* do_mkfs, and the first boot. *)

\* The entries of a folder are its block's, as many as its inode says.
LEMMA MkfsWritten ==
  ASSUME FileSystemOK, NEW d \in Disks
  PROVE  LET e == WrittenOver(d, Mkfs)
             row == <<Dentry("DIR", Root, "."), Dentry("DIR", Root, "..")>>
         IN /\ e \in Disks /\ e.magic /\ e.imap = {Root} /\ e.bmap = {1}
            /\ e.inode[Root] = Inode("DIR", 0, 2, 1) /\ e.data[1] = row
<1>. DEFINE e == WrittenOver(d, Mkfs)
            row == <<Dentry("DIR", Root, "."), Dentry("DIR", Root, "..")>>
            v == Inode("DIR", 0, 2, 1)
<1>1. Root \in Ino /\ 1 \in Block  BY DEF FileSystemOK, Root, Ino, Block
<1>2. row \in Seq(Dentries)  BY <1>1, NewRow, Zenon DEF Row
<1>3. v \in Inodes  BY <1>1 DEF Inode, Inodes
<1>. HIDE DEF v, row
<1>4. PICK d1 : d1 = Write(d, W("super", 0, TRUE))  BY Zenon
<1>5. PICK d2 : d2 = Write(d1, W("bmap", 1, TRUE))  BY Zenon
<1>6. PICK d3 : d3 = Write(d2, W("inode", Root, v))  OBVIOUS
<1>7. PICK d4 : d4 = Write(d3, W("data", 1, row))  OBVIOUS
<1>8. e = d4
  <2>1. PICK w1 : w1 = W("super", 0, TRUE)  BY Zenon
  <2>2. PICK w2 : w2 = W("bmap", 1, TRUE)  BY Zenon
  <2>3. PICK w3 : w3 = W("inode", Root, v)  OBVIOUS
  <2>4. PICK w4 : w4 = W("data", 1, row)  OBVIOUS
  <2>5. PICK ws : ws = Mkfs  OBVIOUS
  <2>6. ws = <<w1, w2, w3, w4>>  BY <2>1, <2>2, <2>3, <2>4, <2>5 DEF Mkfs, v, row
  <2>7. d1 = Write(d, w1) /\ d2 = Write(d1, w2) /\ d3 = Write(d2, w3) /\ d4 = Write(d3, w4)
    BY <2>1, <2>2, <2>3, <2>4, <1>4, <1>5, <1>6, <1>7
  <2>8. WrittenOver(d, ws) = Write(Write(Write(Write(d, w1), w2), w3), w4)
    BY <2>6, FourWrites
  <2>. QED  BY <2>5, <2>7, <2>8
<1>9. d1 \in Disks /\ d1.magic /\ d1.imap = {Root} /\ d1.bmap = {}
  <2>1. d1 = [d EXCEPT !.magic = TRUE, !.imap = {Root}, !.bmap = {}]  BY <1>4 DEF Write, W
  <2>. QED  BY <2>1, <1>1, Zenon DEF Disks
<1>10. HasBmap(d1, d2, d1.bmap \cup {1})  BY <1>1, <1>5, <1>9, WriteBmap, Zenon
<1>11. HasInode(d2, d3, Root, v)  BY <1>1, <1>3, <1>6, <1>10, WriteInode DEF HasBmap
<1>12. HasData(d3, d4, 1, row)  BY <1>1, <1>2, <1>7, <1>11, WriteData DEF HasInode
<1>13. /\ d4 \in Disks /\ d4.magic /\ d4.imap = {Root} /\ d4.bmap = {1}
       /\ d4.inode = [d2.inode EXCEPT ![Root] = v] /\ d4.data = [d3.data EXCEPT ![1] = row]
  BY <1>9, <1>10, <1>11, <1>12 DEF HasBmap, HasInode, HasData
<1>14. d2.inode \in [Ino -> Inodes] /\ d3.data \in [Block -> Seq(Dentries)]
  BY <1>10, <1>11 DEF HasBmap, HasInode, Disks
<1>15. d4.inode[Root] = v /\ d4.data[1] = row  BY <1>1, <1>13, <1>14
<1>. QED  BY <1>8, <1>13, <1>15 DEF v, row

LEMMA MkfsGood ==
  ASSUME FileSystemOK, NEW d \in Disks, NEW e, e = WrittenOver(d, Mkfs)
  PROVE  Good(e, {Root}) /\ Used(e, {Root}) /\ Folder(e, Root)
<1>. DEFINE row == <<Dentry("DIR", Root, "."), Dentry("DIR", Root, "..")>>
            v == Inode("DIR", 0, 2, 1)
<1>1. /\ e \in Disks /\ e.magic /\ e.imap = {Root} /\ e.bmap = {1}
      /\ e.inode[Root] = v /\ e.data[1] = row
  BY MkfsWritten
<1>2. Root \in Ino  BY DEF FileSystemOK, Root, Ino
<1>3. Row(row, Root) /\ Len(row) = 2 /\ Given(row) = {} /\ row[2].ino = Root
  BY <1>2, NewRow
<1>4. v.mode = "DIR" /\ v.nlinks = 0 /\ v.n = 2 /\ v.block = 1  BY DEF Inode
<1>. HIDE DEF row, v
<1>5. Ent(e, Root) = row
  <2>1. row \in Seq(Dentries)  BY <1>3 DEF Row
  <2>2. Cut(row, 2) = row  BY <2>1, <1>3, CutFacts, Zenon
  <2>. QED  BY <2>2, <1>1, <1>4 DEF Ent, Buf
<1>6. Folder(e, Root) /\ Father(e, Root) = Root
  BY <1>1, <1>3, <1>4, <1>5 DEF Folder, Father
<1>7. Kids(e, {Root}) = {}  BY <1>3, <1>5 DEF Kids
<1>8. Shape(e, {Root})  BY <1>1, <1>3, <1>4, <1>5, <1>6 DEF Shape
<1>9. Hang(e, {Root}, {})  BY <1>2, <1>6 DEF Hang
<1>10. Counts(e, {Root}, {})
  <2>1. IsFiniteSet({})  BY FS_EmptySet
  <2>. QED  BY <2>1, <1>1, <1>4, <1>6 DEF Counts
<1>11. Cardinality(e.bmap) <= Cardinality(e.imap)
  <2>1. Cardinality({1}) = 1 /\ Cardinality({Root}) = 1  BY FS_Singleton, Zenon
  <2>. QED  BY <2>1, <1>1
<1>12. Used(e, {Root})  BY <1>1, <1>4 DEF Used
<1>13. Fits(e, {Root})  BY <1>1, <1>4 DEF Fits, FileSystemOK
<1>. QED  BY <1>1, <1>6, <1>7, <1>8, <1>9, <1>10, <1>11, <1>12, <1>13 DEF Good

LEMMA MkfsStep ==
  ASSUME FileSystemOK, Misuse = {}, "mkfs" \notin CrashIn, NEW CONSTANT T, Held(T), do_mkfs
  PROVE  IInv'
<1>1. \A fd \in 1 .. MAXFD : file_d[fd] = Root  BY DEF do_mkfs
<1>2. disk' = WrittenOver(disk, Mkfs) /\ current' = Root /\ UNCHANGED <<file_d, crashed>>
  BY DEF do_mkfs, PowerFails, Written
<1>3. disk \in Disks  BY DEF Held, Good
<1>4. Good(disk', {Root}) /\ Used(disk', {Root}) /\ Folder(disk', Root)
  BY <1>2, <1>3, MkfsGood
<1>5. Refs(disk', {Root}, Root, file_d)  BY <1>1, <1>4 DEF Held, Refs
<1>6. Held({Root})'  BY <1>2, <1>4, <1>5 DEF Held
<1>. QED  BY <1>6, Arrived

LEMMA InitHeld ==
  ASSUME FileSystemOK, Init
  PROVE  IInv
<1>1. Blank \in Disks
  <2>1. Inode("FILE", 0, 0, 0) \in Inodes  BY DEF Inode, Inodes
  <2>2. <<>> \in Seq(Dentries)  OBVIOUS
  <2>. QED  BY <2>1, <2>2 DEF Blank, Disks
<1>2. disk = WrittenOver(Blank, Mkfs) /\ current = Root /\ crashed = FALSE
      /\ file_d = [fd \in 1 .. MAXFD |-> Root]
  BY DEF Init
<1>3. Good(disk, {Root}) /\ Used(disk, {Root}) /\ Folder(disk, Root)
  BY <1>1, <1>2, MkfsGood, Zenon
<1>4. {Root} = Reached  BY <1>3, TreeIsReached DEF TreeReached
<1>5. Root \in Ino  BY DEF FileSystemOK, Root, Ino
<1>6. Refs(disk, {Root}, current, file_d)  BY <1>2, <1>3, <1>5 DEF Refs
<1>. QED  BY <1>2, <1>3, <1>4, <1>6, Zenon DEF IInv

-----------------------------------------------------------------------------
(* do_rm and do_rmdir. *)

\* The father of a directory is a directory.
LEMMA FatherFolder ==
  ASSUME NEW d, NEW T, NEW K, Hang(d, T, K), NEW i \in T, Folder(d, i)
  PROVE  Folder(d, Father(d, i))
<1>1. CASE i = Root  BY <1>1 DEF Hang
<1>2. CASE i # Root
  <2>1. PICK l \in To(K, i) : TRUE  BY <1>2 DEF Hang
  <2>2. l \in K /\ l[2].ino = i  BY <2>1 DEF To
  <2>3. Folder(d, l[1]) /\ Father(d, i) = l[1]  BY <2>2 DEF Hang
  <2>. QED  BY <2>3
<1>. QED  BY <1>1, <1>2

\* A link of the tree, and what leads there.
LEMMA LinkIn ==
  ASSUME NEW d, NEW T, NEW c, NEW k, BeforeDrop(d, T, c, k)
  PROVE  /\ <<c, Ent(d, c)[k]>> \in Kids(d, T)
         /\ Ent(d, c)[k].ino \in T \ {Root}
<1>1. Good(d, T) /\ c \in T /\ Folder(d, c) /\ k \in 3 .. Len(Ent(d, c))
  BY DEF BeforeDrop
<1>2. d \in Disks /\ c \in Ino  BY <1>1 DEF Good, Hang
<1>3. PICK es \in Seq(Dentries) : es = Ent(d, c)  BY <1>2, EntSeq
<1>4. Len(es) \in Nat  BY LenProperties
<1>5. k \in 1 .. Len(es) /\ k \in 3 .. Len(es)  BY <1>1, <1>3, <1>4
<1>6. es[k] \in Dentries  BY <1>5, ElementOfSeq
<1>7. es[k] \in Given(Ent(d, c))  BY <1>3, <1>5 DEF Given
<1>8. <<c, es[k]>> \in Kids(d, T)  BY <1>1, <1>6, <1>7 DEF Kids
<1>9. Hang(d, T, Kids(d, T))  BY <1>1 DEF Good
<1>10. <<c, es[k]>>[2] = es[k]  OBVIOUS
<1>11. es[k].ino \in T \ {Root}  BY <1>8, <1>9, <1>10 DEF Hang
<1>. QED  BY <1>3, <1>8, <1>11

\* What goes is neither the current directory nor open.
LEMMA DropHeld ==
  ASSUME NEW CONSTANT T, Held(T), NEW k, NEW CONSTANT x \in T, NEW CONSTANT U,
         Drops(disk, disk', T, current, k, x, U), UNCHANGED <<current, file_d, crashed>>,
         x = Root \/ x \in U \/ \A fd \in 1 .. MAXFD : file_d[fd] # x
  PROVE  IInv'
<1>1. /\ Good(disk, T) /\ Refs(disk, T, current, file_d) /\ crashed \in BOOLEAN
      /\ ~ crashed => Used(disk, T)
  BY DEF Held
<1>2. Good(disk', U)  BY <1>1, NameDropped
<1>3. ~ crashed => Used(disk', U)  BY <1>1, UsedDropped
<1>4. /\ Shrinks(disk, disk', current, k) /\ x # current /\ (U = T \/ U = T \ {x})
      /\ \A i \in T \ {current, x} : Agree(disk, disk', i)
      /\ disk'.inode[x].mode = disk.inode[x].mode
  BY DEF Drops
<1>5. \A i \in T : disk'.inode[i].mode = disk.inode[i].mode  BY <1>4 DEF Shrinks, Agree
<1>6. current \in T /\ \A fd \in 1 .. MAXFD : file_d[fd] # Root => file_d[fd] \in T
  BY <1>1 DEF Refs
<1>7. current \in U /\ \A fd \in 1 .. MAXFD : file_d[fd] # Root => file_d[fd] \in U
  BY <1>4, <1>6
<1>8. Refs(disk', U, current, file_d)  BY <1>1, <1>5, <1>7, RefsKept
<1>9. Held(U)'  BY <1>1, <1>2, <1>3, <1>8 DEF Held
<1>. QED  BY <1>9, Arrived

\* The writes of a removal, put together.
LEMMA TwoAndMore ==
  ASSUME NEW t, NEW u, NEW v, NEW w, NEW k, k = <<t, u>>
  PROVE  /\ k \o <<v, w>> = <<t, u, v, w>>
         /\ k \o <<v>> = <<t, u, v>>
<1>. DEFINE S == {t, u, v, w}
<1>0. /\ k \in Seq(S) /\ <<v, w>> \in Seq(S) /\ <<t, u, v, w>> \in Seq(S)
      /\ <<v>> \in Seq(S) /\ <<t, u, v>> \in Seq(S)
  OBVIOUS
<1>. HIDE DEF S
<1>1. k \o <<v, w>> = <<t, u, v, w>>
  <2>1. PICK l : l = <<v, w>>  BY Zenon
  <2>2. PICK m : m = <<t, u, v, w>>  BY Zenon
  <2>3. l \in Seq(S) /\ m \in Seq(S)  BY <1>0, <2>1, <2>2
  <2>4. Len(m) = Len(k) + Len(l) /\ Len(k) = 2  BY <2>1, <2>2
  <2>5. \A i \in 1 .. Len(k) : m[i] = k[i]  BY <2>2
  <2>6. \A i \in 1 .. Len(l) : m[Len(k) + i] = l[i]  BY <2>1, <2>2
  <2>7. k \o l = m  BY <1>0, <2>3, <2>4, <2>5, <2>6, Joined
  <2>. QED  BY <2>1, <2>2, <2>7
<1>2. k \o <<v>> = <<t, u, v>>
  <2>1. PICK l : l = <<v>>  BY Zenon
  <2>2. PICK m : m = <<t, u, v>>  BY Zenon
  <2>3. l \in Seq(S) /\ m \in Seq(S)  BY <1>0, <2>1, <2>2
  <2>4. Len(m) = Len(k) + Len(l) /\ Len(k) = 2  BY <2>1, <2>2
  <2>5. \A i \in 1 .. Len(k) : m[i] = k[i]  BY <2>2
  <2>6. \A i \in 1 .. Len(l) : m[Len(k) + i] = l[i]  BY <2>1, <2>2
  <2>7. k \o l = m  BY <1>0, <2>3, <2>4, <2>5, <2>6, Joined
  <2>. QED  BY <2>1, <2>2, <2>7
<1>. QED  BY <1>1, <1>2

LEMMA RmStep ==
  ASSUME FileSystemOK, Roomy, Misuse = {}, "rm" \notin CrashIn, NEW CONSTANT T, Held(T),
         NEW name, do_rm(name)
  PROVE  IInv'
<1>1. Good(disk, T) /\ current \in T /\ Folder(disk, current)  BY DEF Held, Refs
<1>2. PICK c : c = current  OBVIOUS
<1>3. PICK k : k = Least(Named(Entries(current), name))  OBVIOUS
<1>4. PICK x : x = lookup(current, name)  OBVIOUS
<1>5. Found(current, name)  BY DEF do_rm
<1>6. x \in T /\ k \in 1 .. Len(Ent(disk, c)) /\ x = Ent(disk, c)[k].ino
  BY <1>1, <1>2, <1>3, <1>4, <1>5, LookedUp, SameEntries DEF lookup
<1>7. ~ Folder(disk, x)  BY <1>4 DEF do_rm, Folder, inode
<1>8. x # c  BY <1>1, <1>2, <1>7
<1>9. BeforeGone(disk, T, c, k, x)
  <2>1. Row(Ent(disk, c), c) /\ Hang(disk, T, Kids(disk, T)) /\ disk \in Disks /\ c \in Ino
    BY <1>1, <1>2, Zenon DEF Good, Shape, Hang
  <2>2. k # 1  BY <2>1, <1>1, <1>2, <1>6, <1>7 DEF Row, Dentry
  <2>3. k # 2  BY <2>1, <1>1, <1>2, <1>6, <1>7, FatherFolder DEF Father
  <2>4. Len(Ent(disk, c)) \in Nat
    <3>1. Ent(disk, c) \in Seq(Dentries)  BY <2>1, EntSeq
    <3>. QED  BY <3>1, LenProperties
  <2>5. k \in 3 .. Len(Ent(disk, c))  BY <1>6, <2>2, <2>3, <2>4
  <2>. QED  BY <2>5, <1>1, <1>2, <1>6, <1>7, <1>8 DEF BeforeGone, BeforeDrop
<1>10. /\ disk.inode[x].nlinks \in Nat
       /\ (disk.inode[x].nlinks - 1) % 65536 = disk.inode[x].nlinks - 1
       /\ disk.inode[x].nlinks - 1 = 0 <=> To(Kids(disk, T), x) = {<<c, Ent(disk, c)[k]>>}
  BY <1>7, <1>9, NamesCounted
<1>11. PICK left : left = (disk.inode[x].nlinks - 1) % 65536  OBVIOUS
<1>12. PICK ws :
          ws = <<W("data", disk.inode[c].block, After(disk, c, k)), W("inode", c, Sub(disk, c))>>
               \o (IF left = 0 THEN <<W("imap", x, FALSE), W("bmap", disk.inode[x].block, FALSE)>>
                   ELSE <<W("inode", x, Less(disk, x))>>)
  BY Zenon
<1>13. /\ Do("rm", ws)
       /\ left = 0 => \A fd \in 1 .. MAXFD : file_d[fd] # x
  <2>1. Shifted(current, k) = After(disk, c, k)  BY <1>2, SameEntries DEF Shifted, After
  <2>2. Shrunk(current) = Sub(disk, c)  BY <1>2 DEF Shrunk, Sub, inode
  <2>3. (IF x = current THEN Shrunk(x) ELSE inode(x)) = disk.inode[x]
    BY <1>2, <1>8 DEF inode
  <2>4. Unlinked(x, disk.inode[x], left)
          = IF left = 0 THEN <<W("imap", x, FALSE), W("bmap", disk.inode[x].block, FALSE)>>
            ELSE <<W("inode", x, Less(disk, x))>>
    BY <1>11 DEF Unlinked, Less, inode
  <2>5. /\ Do("rm", <<W("data", inode(current).block, Shifted(current, k)),
                      W("inode", current, Shrunk(current))>>
                    \o Unlinked(x, disk.inode[x], left))
        /\ (\E fd \in 1 .. MAXFD : file_d[fd] = x) /\ left = 0 => "rmOpen" \in Misuse
    BY <1>3, <1>4, <1>11, <2>3 DEF do_rm
  <2>6. inode(current).block = disk.inode[c].block  BY <1>2 DEF inode
  <2>7. Do("rm", ws)  BY <1>2, <1>12, <2>1, <2>2, <2>4, <2>5, <2>6, Zenon
  <2>. QED  BY <2>5, <2>7
<1>14. disk' = WrittenOver(disk, ws) /\ UNCHANGED <<current, file_d, crashed>>
  BY <1>13 DEF Do, PowerFails, Complete, Written
<1>15. CASE left = 0
  <2>1. ws = <<W("data", disk.inode[c].block, After(disk, c, k)), W("inode", c, Sub(disk, c)),
               W("imap", x, FALSE), W("bmap", disk.inode[x].block, FALSE)>>
    BY <1>12, <1>15, TwoAndMore, Zenon
  <2>2. Gone(disk, disk', c, k, x)  BY <2>1, <1>9, <1>14, LastWritten, Zenon
  <2>3. To(Kids(disk, T), x) = {<<c, Ent(disk, c)[k]>>}  BY <1>10, <1>11, <1>15
  <2>4. Drops(disk, disk', T, c, k, x, T \ {x})  BY <2>2, <2>3, <1>9, LastNameGone
  <2>5. \A fd \in 1 .. MAXFD : file_d[fd] # x  BY <1>13, <1>15
  <2>. QED  BY <2>4, <2>5, <1>2, <1>6, <1>14, DropHeld
<1>16. CASE left # 0
  <2>1. ws = <<W("data", disk.inode[c].block, After(disk, c, k)), W("inode", c, Sub(disk, c)),
               W("inode", x, Less(disk, x))>>
    BY <1>12, <1>16, TwoAndMore, Zenon
  <2>2. OneGone(disk, disk', c, k, x)  BY <2>1, <1>7, <1>9, <1>14, OneWritten
  <2>3. To(Kids(disk, T), x) # {<<c, Ent(disk, c)[k]>>}  BY <1>10, <1>11, <1>16
  <2>4. Drops(disk, disk', T, c, k, x, T)  BY <2>2, <2>3, <1>7, <1>9, OneNameGone
  <2>. QED  BY <2>4, <1>2, <1>6, <1>14, DropHeld
<1>. QED  BY <1>15, <1>16

LEMMA ThreeAndOne ==
  ASSUME NEW t, NEW u, NEW v, NEW w, NEW k, k = <<t, u, v>>
  PROVE  k \o <<>> \o <<w>> = <<t, u, v, w>>
<1>. DEFINE S == {t, u, v, w}
<1>1. PICK l : l = <<w>>  BY Zenon
<1>2. PICK m : m = <<t, u, v, w>>  BY Zenon
<1>3. k \in Seq(S) /\ l \in Seq(S) /\ m \in Seq(S)  BY <1>1, <1>2
<1>. HIDE DEF S
<1>4. Len(m) = Len(k) + Len(l) /\ Len(k) = 3  BY <1>1, <1>2
<1>5. \A i \in 1 .. Len(k) : m[i] = k[i]  BY <1>2
<1>6. \A i \in 1 .. Len(l) : m[Len(k) + i] = l[i]  BY <1>1, <1>2
<1>7. k \o l = m  BY <1>3, <1>4, <1>5, <1>6, Joined
<1>8. k \o <<>> = k  BY <1>3, ConcatEmptySeq
<1>. QED  BY <1>1, <1>2, <1>7, <1>8

\* "Delete all files" finds none in a directory without entries.
Delete(kept, after, st, k) ==
  IF k <= Len(st.buffer) /\ st.buffer[k].mode = "FILE"
  THEN LET hits == Named(kept, st.buffer[k].name)
           file == kept[Least(hits)].ino
       IN [buffer |-> after,
           ws |-> IF hits = {} THEN st.ws
                  ELSE st.ws \o <<W("bmap", inode(file).block, FALSE), W("imap", file, FALSE)>>]
  ELSE st
LEMMA NoFiles ==
  ASSUME NEW father, NEW x, NEW after, inode(x).n = 2,
         \A k \in 1 .. 2 : Buffer(inode(x).block)[k].mode # "FILE"
  PROVE  DeletedFiles(father, x, after) = <<>>
<1>. DEFINE kept == SubSeq(after, 1, inode(father).n)
            start == [buffer |-> Buffer(inode(x).block), ws |-> <<>>]
            seq == [k \in 1 .. inode(x).n |-> k]
            Rec(f) == [s \in SUBSET (DOMAIN seq) |->
                         IF s = {} THEN start
                         ELSE Delete(kept, after, f[s \ {Max(s)}], seq[Max(s)])]
<1>1. DeletedFiles(father, x, after) = (CHOOSE f : f = Rec(f))[DOMAIN seq].ws
  BY DEF DeletedFiles, FoldLeft, MapThenFoldSet, Delete
<1>2. start.buffer = Buffer(inode(x).block) /\ start.ws = <<>>  OBVIOUS
<1>3. DOMAIN seq = 1 .. 2 /\ seq[1] = 1 /\ seq[2] = 2  OBVIOUS
<1>. HIDE DEF kept, start, seq
<1>4. DeletedFiles(father, x, after) = (CHOOSE f : f = Rec(f))[1 .. 2].ws  BY <1>1, <1>3
<1>5. \A k \in 1 .. 2 : Delete(kept, after, start, k) = start  BY <1>2, Zenon DEF Delete
<1>6. ASSUME NEW s \in SUBSET (1 .. 2), s # {} PROVE Max(s) \in s /\ seq[Max(s)] \in 1 .. 2
  <2>1. \E m \in s : \A y \in s : m >= y
    <3>1. CASE 2 \in s  BY <3>1
    <3>2. CASE 2 \notin s
      <4>1. \A y \in s : y = 1  BY <3>2
      <4>2. 1 \in s  BY <1>6, <4>1, Zenon
      <4>. QED  BY <4>1, <4>2
    <3>. QED  BY <3>1, <3>2
  <2>2. Max(s) \in s  BY <2>1, Zenon DEF Max
  <2>3. PICK m : m = Max(s)  OBVIOUS
  <2>4. m = 1 \/ m = 2
    <3>1. m \in s  BY <2>2, <2>3
    <3>2. m \in 1 .. 2  BY <3>1
    <3>. QED  BY <3>2
  <2>5. seq[m] \in 1 .. 2  BY <2>4, <1>3
  <2>. QED  BY <2>2, <2>3, <2>5
<1>7. \E f : f = Rec(f)
  <2>1. PICK g : g = [s \in SUBSET (1 .. 2) |-> start]  BY Zenon
  <2>2. ASSUME NEW s \in SUBSET (1 .. 2) PROVE g[s] = Rec(g)[s]
    <3>1. CASE s = {}  BY <2>1, <3>1, <1>3
    <3>2. CASE s # {}
      <4>1. s \ {Max(s)} \in SUBSET (1 .. 2)  BY Zenon
      <4>2. g[s \ {Max(s)}] = start  BY <2>1, <4>1
      <4>. QED  BY <2>1, <3>2, <4>2, <1>3, <1>5, <1>6
    <3>. QED  BY <3>1, <3>2
  <2>3. g = [s \in SUBSET (1 .. 2) |-> g[s]]  BY <2>1
  <2>4. Rec(g) = [s \in SUBSET (1 .. 2) |-> Rec(g)[s]]  BY <1>3
  <2>5. g = Rec(g)
    <3>. HIDE DEF Rec
    <3>. QED  BY <2>2, <2>3, <2>4
  <2>. QED  BY <2>5, Zenon
<1>8. PICK f : f = Rec(f) /\ DeletedFiles(father, x, after) = f[1 .. 2].ws  BY <1>4, <1>7, Zenon
<1>9. f[{}] = start
  <2>1. {} \in SUBSET (1 .. 2)  OBVIOUS
  <2>. QED  BY <2>1, <1>3, <1>8
<1>10. f[{1}] = start
  <2>1. {1} \in SUBSET (1 .. 2) /\ {1} # {}  OBVIOUS
  <2>2. Max({1}) = 1  BY <2>1, <1>6
  <2>3. {1} \ {1} = {} /\ seq[1] = 1 /\ 1 \in 1 .. 2  BY <1>3
  <2>4. f[{1}] = Delete(kept, after, f[{1} \ {Max({1})}], seq[Max({1})])  BY <2>1, <1>3, <1>8, Zenon
  <2>. QED  BY <2>2, <2>3, <2>4, <1>5, <1>9
<1>11. f[1 .. 2] = start
  <2>1. 1 .. 2 \in SUBSET (1 .. 2) /\ 1 .. 2 # {} /\ 2 \in 1 .. 2 /\ 2 \in Nat  OBVIOUS
  <2>2. Max(1 .. 2) = 2  BY <2>1, MaxOf
  <2>3. (1 .. 2) \ {2} = {1} /\ seq[2] = 2  BY <1>3
  <2>4. f[1 .. 2] = Delete(kept, after, f[(1 .. 2) \ {Max(1 .. 2)}], seq[Max(1 .. 2)])
    BY <2>1, <1>3, <1>8, Zenon
  <2>. QED  BY <2>1, <2>2, <2>3, <2>4, <1>5, <1>10
<1>. QED  BY <1>2, <1>8, <1>11

\* The place of a directory, looked for by its number, is that of its name.
LEMMA DirPlace ==
  ASSUME NEW T, Good(disk, T), NEW c \in T, Folder(disk, c), NEW name, Found(c, name),
         name \notin {".", ".."}, NEW x, x = lookup(c, name), Folder(disk, x), NEW k,
         k = Least({j \in DOMAIN Entries(c) : Entries(c)[j].ino = x})
  PROVE  BeforeDrop(disk, T, c, k) /\ x = Ent(disk, c)[k].ino /\ x # c /\ x \in T
<1>1. Row(Ent(disk, c), c) /\ Hang(disk, T, Kids(disk, T)) /\ disk \in Disks /\ c \in Ino
  BY Zenon DEF Good, Shape, Hang
<1>2. PICK es \in Seq(Dentries) : es = Ent(disk, c)  BY <1>1, EntSeq
<1>3. Len(es) \in Nat /\ DOMAIN es = 1 .. Len(es)  BY LenProperties
<1>4. PICK h : h = Least(Named(Entries(c), name))  OBVIOUS
<1>5. h \in 1 .. Len(es) /\ es[h].name = name /\ es[h].ino = x /\ x \in T
  BY <1>2, <1>4, LookedUp, SameEntries DEF lookup
<1>6. es[1].ino = c /\ es[1].name = "." /\ es[2].name = ".." /\ es[2].ino = Father(disk, c)
  BY <1>1, <1>2 DEF Row, Dentry, Father
<1>7. h \in 3 .. Len(es)
  <2>1. h # 1 /\ h # 2  BY <1>5, <1>6
  <2>. QED  BY <2>1, <1>3, <1>5
<1>8. <<c, es[h]>> \in Kids(disk, T)
  <2>1. BeforeDrop(disk, T, c, h)  BY <1>2, <1>7 DEF BeforeDrop
  <2>. QED  BY <2>1, <1>2, LinkIn
<1>9. x # c /\ x # Father(disk, c)
  <2>1. PICK l : l = <<c, es[h]>>  BY Zenon
  <2>2. l[1] = c /\ l[2] = es[h] /\ l \in Kids(disk, T)  BY <2>1, <1>8
  <2>. QED  BY <2>2, <1>1, <1>5, NoCycle
<1>10. k \in 1 .. Len(es) /\ es[k].ino = x
  <2>1. PICK P : P = {j \in DOMAIN Entries(c) : Entries(c)[j].ino = x}  BY Zenon
  <2>2. P = {j \in 1 .. Len(es) : es[j].ino = x}  BY <2>1, <1>2, <1>3, SameEntries
  <2>3. h \in P /\ P \subseteq Nat  BY <2>2, <1>3, <1>5
  <2>4. k \in P  BY <2>1, <2>3, LeastIn, Zenon
  <2>. QED  BY <2>2, <2>4
<1>11. k \in 3 .. Len(es)
  <2>1. k # 1 /\ k # 2  BY <1>6, <1>9, <1>10
  <2>. QED  BY <2>1, <1>3, <1>10
<1>. QED  BY <1>2, <1>5, <1>9, <1>10, <1>11 DEF BeforeDrop

LEMMA RmdirStep ==
  ASSUME FileSystemOK, Roomy, Misuse = {}, "rmdir" \notin CrashIn, NEW CONSTANT T, Held(T),
         NEW name \in Name \cup {".", ".."}, do_rmdir(name)
  PROVE  IInv'
<1>1. Good(disk, T) /\ current \in T /\ Folder(disk, current)  BY DEF Held, Refs
<1>2. PICK c : c = current  OBVIOUS
<1>3. PICK x : x = lookup(current, name)  OBVIOUS
<1>4. PICK k : k = Least({j \in DOMAIN Entries(c) : Entries(c)[j].ino = x})  BY Zenon
<1>5. Found(c, name) /\ x = lookup(c, name)  BY <1>2, <1>3 DEF do_rmdir
<1>6. /\ inode(x).mode # "FILE" /\ name \notin {".", ".."}
      /\ inode(x).mode = "DIR" => ~ inode(x).n > 2
  BY <1>3 DEF do_rmdir
<1>7. disk \in Disks /\ Shape(disk, T) /\ Hang(disk, T, Kids(disk, T))  BY <1>1 DEF Good
<1>8. x \in T /\ x \in Ino
  <2>1. x \in T  BY <1>1, <1>2, <1>5, LookedUp
  <2>. QED  BY <2>1, <1>7 DEF Hang
<1>9. Folder(disk, x)
  <2>1. disk.inode[x].mode \in {"DIR", "FILE"}  BY <1>7, <1>8, DiskTypes
  <2>. QED  BY <2>1, <1>6 DEF Folder, inode
<1>10. BeforeDrop(disk, T, c, k) /\ x = Ent(disk, c)[k].ino /\ x # c
  BY <1>1, <1>2, <1>4, <1>5, <1>6, <1>9, DirPlace
<1>11. disk.inode[x].n = 2 /\ Row(Ent(disk, x), x) /\ Len(Ent(disk, x)) = 2
  <2>1. Row(Ent(disk, x), x) /\ Len(Ent(disk, x)) = disk.inode[x].n
    BY <1>7, <1>8, <1>9 DEF Shape
  <2>2. Len(Ent(disk, x)) >= 2  BY <2>1 DEF Row
  <2>3. disk.inode[x].n \in Nat /\ ~ disk.inode[x].n > 2
    BY <1>6, <1>7, <1>8, <1>9, DiskTypes DEF Folder, inode
  <2>. QED  BY <2>1, <2>2, <2>3
<1>12. BeforeGone(disk, T, c, k, x)  BY <1>8, <1>10, <1>11 DEF BeforeGone
<1>13. PICK after : after = After(disk, c, k)  OBVIOUS
<1>14. DeletedFiles(current, x, after) = <<>>
  <2>1. PICK b : b = Buffer(inode(x).block)  OBVIOUS
  <2>2. b \in Seq(Dentries)
    <3>1. <<>> \in Seq(Dentries)  OBVIOUS
    <3>2. disk.inode[x].block \in {0} \cup Block  BY <1>7, <1>8, DiskTypes
    <3>. QED  BY <2>1, <3>1, <3>2, <1>7 DEF Buffer, inode, Disks
  <2>3. Ent(disk, x) = Cut(b, 2)  BY <2>1, <1>11 DEF Ent, Buf, Buffer, inode
  <2>4. Len(b) \in Nat  BY <2>2, LenProperties
  <2>5. 2 <= Len(b)
    <3>1. Len(b) < 2 => Cut(b, 2) = b  BY <2>2, CutFacts
    <3>2. Len(Cut(b, 2)) = 2  BY <2>3, <1>11
    <3>3. CASE Len(b) < 2
      <4>1. Len(b) = 2  BY <3>1, <3>2, <3>3
      <4>. QED  BY <4>1
    <3>. QED  BY <3>3, <2>4
  <2>6. \A j \in 1 .. 2 : Cut(b, 2)[j] = b[j]  BY <2>2, <2>5, CutFacts, Zenon
  <2>7. b[1].mode = "DIR" /\ b[2].mode = "DIR"
    <3>1. Ent(disk, x)[1] = b[1] /\ Ent(disk, x)[2] = b[2]  BY <2>3, <2>6
    <3>. QED  BY <3>1, <1>11 DEF Row, Dentry
  <2>8. \A j \in 1 .. 2 : b[j].mode # "FILE"  BY <2>7
  <2>9. inode(x).n = 2  BY <1>11 DEF inode
  <2>. QED  BY <2>1, <2>8, <2>9, NoFiles
<1>15. PICK ws :
         ws = <<W("bmap", disk.inode[x].block, FALSE), W("imap", x, FALSE),
                W("data", disk.inode[c].block, after), W("inode", c, Sub(disk, c))>>
  BY Zenon
<1>16. Do("rmdir", ws)
  <2>1. Shifted(current, k) = after  BY <1>2, <1>13, SameEntries DEF Shifted, After
  <2>2. Shrunk(current) = Sub(disk, c)  BY <1>2 DEF Shrunk, Sub, inode
  <2>3. k = Least({j \in DOMAIN Entries(current) : Entries(current)[j].ino = x})  BY <1>2, <1>4
  <2>4. PICK u : u = <<W("bmap", disk.inode[x].block, FALSE), W("imap", x, FALSE),
                       W("data", disk.inode[c].block, after)>>
    BY Zenon
  <2>5. Do("rmdir", u \o <<>> \o <<W("inode", c, Sub(disk, c))>>)
    BY <2>1, <2>2, <2>3, <2>4, <1>2, <1>3, <1>14, Zenon DEF do_rmdir, inode
  <2>6. u \o <<>> \o <<W("inode", c, Sub(disk, c))>> = ws
    BY <2>4, <1>15, ThreeAndOne, Zenon
  <2>. QED  BY <2>5, <2>6, Zenon
<1>17. disk' = WrittenOver(disk, ws) /\ UNCHANGED <<current, file_d, crashed>>
  BY <1>16 DEF Do, PowerFails, Complete, Written
<1>18. Gone(disk, disk', c, k, x)  BY <1>12, <1>13, <1>15, <1>17, LastWritten, Zenon
<1>19. To(Kids(disk, T), x) = {<<c, Ent(disk, c)[k]>>}
  <2>1. PICK l : l = <<c, Ent(disk, c)[k]>>  BY Zenon
  <2>2. l \in Kids(disk, T) /\ l[2].ino = x  BY <2>1, <1>10, LinkIn
  <2>. QED  BY <2>1, <2>2, <1>7, <1>9 DEF Hang
<1>20. Drops(disk, disk', T, c, k, x, T \ {x})  BY <1>12, <1>18, <1>19, LastNameGone
<1>21. x = Root \/ \A fd \in 1 .. MAXFD : file_d[fd] # x  BY <1>9 DEF Held, Refs
<1>. QED  BY <1>2, <1>8, <1>17, <1>20, <1>21, DropHeld

-----------------------------------------------------------------------------
(* The inductive invariant holds.                                          *)

\* Programs check what fs.c does not, the power fails only in calls that write
\* names last, there is a block for every inode (the card has 512 inodes and
\* some 131000 blocks), and no count of links overflows.
Prudent ==
  /\ Misuse = {} /\ CrashIn \subseteq {"mkdir", "touch"}
  /\ NumIno <= NumBlock /\ Roomy

LEMMA Stays ==
  ASSUME Prudent, IInv, [Next]_vars
  PROVE  IInv'
<1>1. /\ Misuse = {} /\ NumIno <= NumBlock /\ Roomy /\ FileSystemOK
      /\ "mkfs" \notin CrashIn /\ "ln" \notin CrashIn
      /\ "rm" \notin CrashIn /\ "rmdir" \notin CrashIn
  BY FileSystemOK DEF Prudent
<1>2. PICK T : T = Reached  OBVIOUS
<1>3. Held(T)  BY <1>2 DEF IInv, Held
<1>4. CASE do_mkfs  BY <1>1, <1>3, <1>4, MkfsStep
<1>5. ASSUME NEW name \in Name, do_mkdir(name) PROVE IInv'
  BY <1>1, <1>3, <1>5, MkdirStep
<1>6. ASSUME NEW name \in Name, do_touch(name) PROVE IInv'
  BY <1>1, <1>3, <1>6, TouchStep
<1>7. ASSUME NEW name \in Name \cup {".", ".."}, do_rmdir(name) PROVE IInv'
  BY <1>1, <1>3, <1>7, RmdirStep
<1>8. ASSUME NEW name \in Name \cup {".", ".."}, do_rm(name) PROVE IInv'
  BY <1>1, <1>3, <1>8, RmStep
<1>9. ASSUME NEW path \in Paths, do_cd(path) PROVE IInv'
  BY <1>3, <1>9, CdStep
<1>10. ASSUME NEW path \in Paths, NoSuchFile(path) PROVE IInv'
  BY <1>1, <1>3, <1>10, NoFileStep
<1>11. ASSUME NEW path \in Paths, do_fopen(path) PROVE IInv'
  BY <1>1, <1>3, <1>11, OpenStep
<1>12. ASSUME NEW path \in Paths, NEW name \in Name, do_ln(path, name) PROVE IInv'
  BY <1>1, <1>3, <1>12, LinkStep
<1>13. ASSUME NEW fd \in 1 .. MAXFD, do_fclose(fd) PROVE IInv'
  BY <1>3, <1>13, CloseStep
<1>14. CASE UNCHANGED vars
  <2>1. Held(T)'  BY <1>3, <1>14 DEF vars, Held
  <2>. QED  BY <2>1, Arrived
<1>. QED
  BY <1>4, <1>5, <1>6, <1>7, <1>8, <1>9, <1>10, <1>11, <1>12, <1>13, <1>14 DEF Next

LEMMA Inductive ==
  ASSUME Prudent
  PROVE  Spec => []IInv
<1>1. Init => IInv  BY FileSystemOK, InitHeld
<1>2. IInv /\ [Next]_vars => IInv'  BY Stays
<1>. QED  BY <1>1, <1>2, PTL DEF Spec

-----------------------------------------------------------------------------
(* What the invariant says of the tree. *)

\* The links of the model, and those of the invariant.
LEMMA LinkMap ==
  ASSUME IInv, NEW i
  PROVE  /\ IsFiniteSet(To(Kids(disk, Reached), i))
         /\ Cardinality(LinksTo(i)) = Cardinality(To(Kids(disk, Reached), i))
         /\ \A l \in LinksTo(i) :
               /\ l = <<l[1], l[2]>>
               /\ <<l[1], Ent(disk, l[1])[l[2]]>> \in To(Kids(disk, Reached), i)
<1>. DEFINE K == Kids(disk, Reached)
            S == LinksTo(i)
            m == [l \in S |-> <<l[1], Ent(disk, l[1])[l[2]]>>]
<1>1. Good(disk, Reached)  BY DEF IInv
<1>2. disk \in Disks /\ Shape(disk, Reached) /\ Reached \subseteq Ino  BY <1>1 DEF Good, Hang
<1>3. \A d \in Reached : /\ Ent(disk, d) \in Seq(Dentries) /\ Len(Ent(disk, d)) \in Nat
                         /\ Folder(disk, d) => Row(Ent(disk, d), d)
  <2>1. ASSUME NEW d \in Reached
        PROVE  /\ Ent(disk, d) \in Seq(Dentries) /\ Len(Ent(disk, d)) \in Nat
               /\ Folder(disk, d) => Row(Ent(disk, d), d)
    <3>1. Ent(disk, d) \in Seq(Dentries)  BY <1>2, EntSeq
    <3>. QED  BY <3>1, <1>2, LenProperties DEF Shape
  <2>. QED  BY <2>1
<1>4. ASSUME NEW l
      PROVE  l \in S <=> \E d \in Reached, k \in Nat :
                            /\ k \in 3 .. Len(Ent(disk, d)) /\ l = <<d, k>>
                            /\ Folder(disk, d) /\ Ent(disk, d)[k].ino = i
  <2>1. l \in Links <=> \E d \in Reached, k \in Nat :
                           /\ k \in 3 .. Len(Ent(disk, d)) /\ l = <<d, k>>
                           /\ Folder(disk, d)
    BY <1>3, SameEntries DEF Links, Dirs
  <2>. QED  BY <2>1, SameEntries DEF LinksTo
<1>5. ASSUME NEW l \in S PROVE l = <<l[1], l[2]>> /\ m[l] \in To(K, i)
  <2>1. PICK d \in Reached, k \in Nat :
           /\ k \in 3 .. Len(Ent(disk, d)) /\ l = <<d, k>>
           /\ Folder(disk, d) /\ Ent(disk, d)[k].ino = i
    BY <1>4, <1>5
  <2>2. m[l] = <<d, Ent(disk, d)[k]>>  BY <2>1, <1>5
  <2>3. BeforeDrop(disk, Reached, d, k)  BY <1>1, <2>1 DEF BeforeDrop
  <2>4. <<d, Ent(disk, d)[k]>> \in K  BY <2>3, LinkIn
  <2>. QED  BY <2>1, <2>2, <2>4 DEF To
<1>6. ASSUME NEW a \in S, NEW b \in S, m[a] = m[b] PROVE a = b
  <2>1. PICK d \in Reached, k \in Nat :
           k \in 3 .. Len(Ent(disk, d)) /\ a = <<d, k>> /\ Folder(disk, d)
    BY <1>4, <1>6
  <2>2. PICK e \in Reached, j \in Nat :
           j \in 3 .. Len(Ent(disk, e)) /\ b = <<e, j>> /\ Folder(disk, e)
    BY <1>4, <1>6
  <2>3. m[a] = <<d, Ent(disk, d)[k]>> /\ m[b] = <<e, Ent(disk, e)[j]>>  BY <2>1, <2>2, <1>6
  <2>4. d = e /\ Ent(disk, d)[k] = Ent(disk, d)[j]  BY <2>3, <1>6
  <2>5. k = j  BY <2>1, <2>2, <2>4, <1>3 DEF Row
  <2>. QED  BY <2>1, <2>2, <2>4, <2>5
<1>7. ASSUME NEW t \in To(K, i) PROVE \E l \in S : m[l] = t
  <2>1. /\ t \in Reached \X Dentries /\ Folder(disk, t[1]) /\ t[2].ino = i
        /\ t[2] \in Given(Ent(disk, t[1]))
    BY <1>7 DEF To, Kids
  <2>2. PICK k \in 3 .. Len(Ent(disk, t[1])) : t[2] = Ent(disk, t[1])[k]  BY <2>1 DEF Given
  <2>3. PICK l : l = <<t[1], k>>  BY Zenon
  <2>4. t[1] \in Reached /\ t = <<t[1], t[2]>>  BY <2>1
  <2>5. l \in S
    <3>1. k \in Nat /\ Ent(disk, t[1])[k].ino = i  BY <2>1, <2>2
    <3>. QED  BY <2>1, <2>3, <2>4, <3>1, <1>4
  <2>6. m[l] = <<t[1], Ent(disk, t[1])[k]>>  BY <2>3, <2>5
  <2>. QED  BY <2>2, <2>4, <2>5, <2>6
<1>8. IsFiniteSet(To(K, i))
  <2>1. IsFiniteSet(K) /\ To(K, i) \subseteq K  BY <1>1 DEF Good, Counts, To
  <2>. QED  BY <2>1, FS_Subset
<1>9. m \in [S -> To(K, i)]  BY <1>5
<1>10. ExistsBijection(S, To(K, i))
  <2>1. PICK f : f = m  BY Zenon
  <2>2. PICK A : A = S  OBVIOUS
  <2>3. PICK B : B = To(K, i)  OBVIOUS
  <2>. HIDE DEF m, S, K
  <2>4. f \in [A -> B] /\ \A a, b \in A : f[a] = f[b] => a = b  BY <2>1, <2>2, <2>3, <1>6, <1>9
  <2>5. \A t \in B : \E l \in A : f[l] = t  BY <2>1, <2>2, <2>3, <1>7
  <2>6. f \in Bijection(A, B)  BY <2>4, <2>5, Fun_IsBij
  <2>. QED  BY <2>2, <2>3, <2>6, Fun_ExistsBij
<1>11. Cardinality(S) = Cardinality(To(K, i))
  <2>1. ExistsBijection(To(K, i), S)
    <3>. HIDE DEF S, K
    <3>. QED  BY <1>10, Fun_ExistsBijSymmetric
  <2>. HIDE DEF S, K
  <2>. QED  BY <2>1, <1>8, FS_Bijection
<1>. QED  BY <1>5, <1>8, <1>11

\* A directory of the tree, entry by entry.
LEMMA SoundDir ==
  ASSUME IInv, NEW d \in Dirs
  PROVE  /\ Len(Entries(d)) = inode(d).n
         /\ Entries(d)[1] = Dentry("DIR", d, ".") /\ Entries(d)[2].name = ".."
         /\ \A k \in 3 .. inode(d).n :
              LET e == Entries(d)[k]
              IN /\ e.ino \in disk.imap \ {Root} /\ e.mode = inode(e.ino).mode
                 /\ Named(Entries(d), e.name) = {k}
                 /\ e.mode = "DIR" => LinksTo(e.ino) = {<<d, k>>} /\ lookup(e.ino, "..") = d
<1>. DEFINE K == Kids(disk, Reached)
<1>1. /\ Good(disk, Reached) /\ disk \in Disks /\ Shape(disk, Reached)
      /\ Hang(disk, Reached, K) /\ Reached \subseteq Ino
  BY Zenon DEF IInv, Good, Hang
<1>2. d \in Reached /\ Folder(disk, d) /\ d \in Ino  BY <1>1, SameEntries DEF Dirs
<1>3. PICK es \in Seq(Dentries) : es = Ent(disk, d) /\ es = Entries(d)
  <2>1. Ent(disk, d) \in Seq(Dentries)  BY <1>1, <1>2, EntSeq
  <2>. QED  BY <2>1, SameEntries
<1>4. Len(es) \in Nat /\ DOMAIN es = 1 .. Len(es)  BY LenProperties
<1>5. Row(es, d) /\ Len(es) = disk.inode[d].n  BY <1>1, <1>2, <1>3, Zenon DEF Shape
<1>6. Name \cap {".", ".."} = {}  BY FileSystemOK
<1>7. ASSUME NEW k \in 3 .. inode(d).n
      PROVE  /\ es[k].ino \in disk.imap \ {Root} /\ es[k].mode = inode(es[k].ino).mode
             /\ Named(es, es[k].name) = {k}
             /\ es[k].mode = "DIR" => /\ LinksTo(es[k].ino) = {<<d, k>>}
                                      /\ lookup(es[k].ino, "..") = d
  <2>1. k \in 3 .. Len(es) /\ k \in 1 .. Len(es)  BY <1>4, <1>5 DEF inode
  <2>2. BeforeDrop(disk, Reached, d, k)  BY <1>1, <1>2, <1>3, <2>1 DEF BeforeDrop
  <2>3. PICK x : x = es[k].ino  OBVIOUS
  <2>4. <<d, es[k]>> \in K /\ x \in Reached \ {Root}  BY <1>3, <2>2, <2>3, LinkIn, Zenon
  <2>5. x \in disk.imap  BY <1>1, <2>4 DEF Shape
  <2>6. PICK l : l = <<d, es[k]>>  BY Zenon
  <2>7. l \in K /\ l[1] = d /\ l[2] = es[k] /\ l[2].ino = x  BY <2>3, <2>4, <2>6
  <2>8. es[k].mode = disk.inode[x].mode  BY <1>1, <2>7 DEF Hang
  <2>9. Named(es, es[k].name) = {k}
    <3>1. es[k].name \in Name /\ \A j \in 3 .. Len(es) : es[j].name = es[k].name => j = k
      BY <1>5, <2>1 DEF Row
    <3>2. es[1].name = "." /\ es[2].name = ".."  BY <1>5 DEF Row, Dentry
    <3>3. \A j \in 1 .. Len(es) : j = 1 \/ j = 2 \/ j \in 3 .. Len(es)  BY <1>4
    <3>4. \A j \in 1 .. Len(es) : es[j].name = es[k].name => j = k
      BY <1>6, <3>1, <3>2, <3>3
    <3>. QED  BY <1>4, <2>1, <3>4 DEF Named
  <2>10. ASSUME es[k].mode = "DIR" PROVE LinksTo(x) = {<<d, k>>} /\ lookup(x, "..") = d
    <3>1. Folder(disk, x)  BY <2>8, <2>10 DEF Folder
    <3>2. Father(disk, x) = d /\ To(K, x) = {l}  BY <1>1, <2>7, <3>1, Zenon DEF Hang
    <3>3. <<d, k>> \in LinksTo(x)
      <4>1. <<d, k>> \in Links
        <5>1. 3 .. Len(Entries(d)) = 3 .. Len(es)  BY <1>3
        <5>2. <<d, k>> \in {d} \X (3 .. Len(Entries(d)))  BY <2>1, <5>1
        <5>. QED  BY <5>2 DEF Links
      <4>2. <<d, k>>[1] = d /\ <<d, k>>[2] = k  OBVIOUS
      <4>. QED  BY <1>3, <2>3, <4>1, <4>2 DEF LinksTo
    <3>4. ASSUME NEW h \in LinksTo(x) PROVE h = <<d, k>>
      <4>1. h = <<h[1], h[2]>> /\ <<h[1], Ent(disk, h[1])[h[2]]>> \in To(K, x)
        BY <3>4, LinkMap
      <4>2. <<h[1], Ent(disk, h[1])[h[2]]>> = <<d, es[k]>>  BY <2>6, <3>2, <4>1
      <4>3. h[1] = d /\ es[h[2]] = es[k]  BY <1>3, <4>2, Zenon
      <4>4. h[2] \in 3 .. Len(es)
        <5>1. PICK c \in Dirs : h \in {c} \X (3 .. Len(Entries(c)))  BY <3>4 DEF LinksTo, Links
        <5>2. h[1] = c /\ h[2] \in 3 .. Len(Entries(c))  BY <5>1
        <5>. QED  BY <1>3, <4>3, <5>2
      <4>5. h[2] = k  BY <1>5, <2>1, <4>3, <4>4, Zenon DEF Row
      <4>. QED  BY <4>1, <4>3, <4>5
    <3>5. lookup(x, "..") = d
      <4>1. x \in Ino /\ Row(Ent(disk, x), x)  BY <1>1, <2>4, <3>1 DEF Shape
      <4>2. PICK fs \in Seq(Dentries) : fs = Ent(disk, x) /\ fs = Entries(x)
        <5>1. Ent(disk, x) \in Seq(Dentries)  BY <1>1, <4>1, EntSeq
        <5>. QED  BY <5>1, SameEntries
      <4>3. Len(fs) \in Nat /\ DOMAIN fs = 1 .. Len(fs) /\ Row(fs, x)
        BY <4>1, <4>2, LenProperties
      <4>4. fs[1].name = "." /\ fs[2].name = ".." /\ Len(fs) >= 2
        BY <4>3 DEF Row, Dentry
      <4>5. \A j \in 3 .. Len(fs) : fs[j].name \in Name  BY <4>3 DEF Row
      <4>6. \A j \in 1 .. Len(fs) : j = 1 \/ j = 2 \/ j \in 3 .. Len(fs)  BY <4>3
      <4>7. 2 \in 1 .. Len(fs)  BY <4>3, <4>4
      <4>8. \A j \in 1 .. Len(fs) : fs[j].name = ".." <=> j = 2
        BY <1>6, <4>4, <4>5, <4>6
      <4>9. Named(Entries(x), "..") = {2}  BY <4>2, <4>3, <4>7, <4>8 DEF Named
      <4>10. Least({2}) = 2
        <5>1. {2} \subseteq Nat /\ {2} # {}  OBVIOUS
        <5>2. Least({2}) \in {2}  BY <5>1, LeastIn, Zenon
        <5>. QED  BY <5>2
      <4>. QED  BY <3>2, <4>2, <4>9, <4>10, Zenon DEF lookup, Father
    <3>. QED  BY <3>3, <3>4, <3>5
  <2>. QED  BY <2>3, <2>4, <2>5, <2>8, <2>9, <2>10 DEF inode
<1>8. Entries(d)[1] = Dentry("DIR", d, ".") /\ Entries(d)[2].name = ".."
  BY <1>3, <1>5 DEF Row
<1>. QED  BY <1>3, <1>5, <1>7, <1>8, Zenon DEF inode

LEMMA WhatHolds ==
  ASSUME IInv
  PROVE  TreeSound /\ LinkCounts /\ BlocksApart /\ NothingLeaked /\ ReferencesValid
<1>1. Good(disk, Reached) /\ Refs(disk, Reached, current, file_d)
      /\ (~ crashed => Used(disk, Reached))
  BY DEF IInv
<1>2. Shape(disk, Reached) /\ Counts(disk, Reached, Kids(disk, Reached))  BY <1>1 DEF Good
<1>3. TreeSound  BY SoundDir, Zenon DEF TreeSound
<1>4. LinkCounts
  <2>1. ASSUME NEW i \in Reached
        PROVE  inode(i).nlinks = IF IsDir(i) THEN inode(i).n - 2 ELSE Cardinality(LinksTo(i))
    <3>1. disk.inode[i].nlinks = IF Folder(disk, i) THEN disk.inode[i].n - 2
                                 ELSE Cardinality(To(Kids(disk, Reached), i))
      BY <1>2 DEF Counts
    <3>2. Cardinality(LinksTo(i)) = Cardinality(To(Kids(disk, Reached), i))  BY LinkMap
    <3>. QED  BY <3>1, <3>2 DEF inode, IsDir, Folder
  <2>. QED  BY <2>1 DEF LinkCounts
<1>5. BlocksApart
  <2>1. ASSUME NEW i \in Reached, NEW j \in Reached \ {i}
        PROVE  inode(i).block \in disk.bmap /\ inode(i).block # inode(j).block
    BY <1>2 DEF Shape, inode
  <2>2. ASSUME NEW i \in Reached PROVE inode(i).block \in disk.bmap  BY <1>2 DEF Shape, inode
  <2>. QED  BY <2>1, <2>2 DEF BlocksApart
<1>6. NothingLeaked  BY <1>1 DEF NothingLeaked, Used, inode
<1>7. ReferencesValid  BY <1>1, SameEntries DEF ReferencesValid, Refs, Dirs
<1>. QED  BY <1>3, <1>4, <1>5, <1>6, <1>7

-----------------------------------------------------------------------------
(* Theorems, for any number of inodes, blocks, descriptors and names.      *)

\* The tree hangs together, also after power failures in mkdir and touch:
\* do_mkdir, do_touch, do_ln, do_rm and do_rmdir leave every name of a
\* directory leading to an inode in use, of the kind the entry says, and every
\* directory but the root with one name, in the directory its ".." leads to.
THEOREM TreeStaysSound == ASSUME Prudent PROVE Spec => []TreeSound
BY Inductive, WhatHolds, PTL

\* nlinks of a file is the number of its names, of a directory that of the
\* entries in it: do_rm frees the inode with the last name and not before.
THEOREM LinksCounted == ASSUME Prudent PROVE Spec => []LinkCounts
BY Inductive, WhatHolds, PTL

\* alloc_data_block gives nothing that another file or directory has, also
\* after power failures and after blocks were freed and taken again.
THEOREM BlocksStayApart == ASSUME Prudent PROVE Spec => []BlocksApart
BY Inductive, WhatHolds, PTL

\* Without power failures do_rm and do_rmdir free all that leaves the tree.
THEOREM NothingIsLeaked == ASSUME Prudent PROVE Spec => []NothingLeaked
BY Inductive, WhatHolds, PTL

\* current_inode and the descriptors stay in the tree, whatever is removed.
THEOREM ReferencesStayValid == ASSUME Prudent PROVE Spec => []ReferencesValid
BY Inductive, WhatHolds, PTL
=============================================================================
