---------------------------- MODULE PagingProofs ----------------------------
(***************************************************************************)
(* Demand paging, for any number of processes, threads, pages, frames and  *)
(* sectors: what programs read is what they wrote last, no page table or   *)
(* kernel stack is overwritten, no frame has two owners, pnum counts the   *)
(* pages in memory, and an instruction faults at most twice.               *)
(***************************************************************************)
EXTENDS Paging, SequenceTheorems, FiniteSetTheorems, TLAPS

\* The pages a task has to itself, and the entry of a page in its table.
Mine(t) == (Touches[t] \ {Image}) \cup {UserStack(t), KernelStack(t)}
Ent(t, va) == pt[space[t]][va]
Vms == [pt : [Va -> PTE \cup {None}], plist : Seq(PageTs), pnum : Int,
        mem : [Frame -> Contents], card : [0 .. MaxSwap -> Contents], swap_block : Nat]

\* Which table a task uses, and that a thread to come finds no pages in it.
Spaces ==
  /\ \A t \in alive : space[t] # None
  /\ \A p \in Proc : space[p] \in {p, None}
  /\ \A t \in Task : space[t] # None => space[space[t]] = space[t]
  /\ \A t \in Thread : space[t] = None =>
       \A p \in Proc : \A va \in Touches[t] \cap Page : pt[p][va] = None

\* The entries that are always there.
Mapped ==
  /\ \A t \in alive : \A va \in {UserStack(t), KernelStack(t)} : Ent(t, va) # None
  /\ \A p \in Proc : space[p] # None => pt[p][Image] # None /\ pt[p][Image].v
  /\ \A p \in Proc : \A va \in Page : pt[p][va] = None => want[p][va] = "0"

\* The frames of a process that never go back to the free list.
Kept(p) == tables[p] \cup (IF space[p] = None THEN {} ELSE {pt[p][Image].pfn})
IsFree(f) == \E i \in DOMAIN freePageList : freePageList[i] = f
Owned(f) == \E t \in alive : \E va \in Mine(t) : Ent(t, va) # None /\ Ent(t, va).pfn = f

FreeOK ==
  /\ \A i, j \in DOMAIN freePageList : freePageList[i] = freePageList[j] => i = j
  /\ \A i \in DOMAIN freePageList : freePageList[i] <= memCurr

\* Every frame is free, kept, or the page of one task, or was never handed out.
Apart ==
  /\ \A p \in Proc : \A f \in Kept(p) : f <= memCurr /\ ~ IsFree(f) /\ ~ Owned(f)
  /\ \A f \in Frame : Owned(f) => f <= memCurr /\ ~ IsFree(f)
  /\ \A t, u \in alive : \A va \in Mine(t), wa \in Mine(u) :
       Ent(t, va) # None /\ Ent(u, wa) # None /\ Ent(t, va).pfn = Ent(u, wa).pfn
       => t = u /\ va = wa

\* A page list names pages of its task, each once, with their frames.
ListOK(t, vm) ==
  /\ \A i \in DOMAIN vm.plist :
       /\ vm.plist[i].va \in Mine(t)
       /\ vm.pt[vm.plist[i].va] # None /\ vm.pt[vm.plist[i].va].pfn = vm.plist[i].pa
       /\ vm.plist[i].atds = 0 => vm.pt[vm.plist[i].va].v
  /\ \A i, j \in DOMAIN vm.plist : vm.plist[i].va = vm.plist[j].va => i = j

\* What was written last to a page is in its frame or, as long as the page has
\* no valid entry, on the card.
OnTheCard(vm, va, d) ==
  \E i \in DOMAIN vm.plist : /\ vm.plist[i].va = va /\ vm.plist[i].atds = 1
                             /\ vm.plist[i].block < vm.swap_block
                             /\ vm.card[vm.plist[i].block] = d
Reads(t, vm, w) ==
  \A va \in Touches[t] : vm.pt[va] # None =>
     IF vm.pt[va].v THEN vm.mem[vm.pt[va].pfn] = w[va] ELSE OnTheCard(vm, va, w[va])

Pages == \A t \in alive : ListOK(t, Vm(t)) /\ Reads(t, Vm(t), want[space[t]])

\* What the kernel wrote to its own frames, and to the image of a process, is
\* still there.
Kernel ==
  /\ \A p \in Proc : \A f \in tables[p] : mem[f] = "table"
  /\ \A p \in Proc : space[p] # None => mem[pt[p][Image].pfn] = want[p][Image]
  /\ \A t \in alive : mem[Ent(t, KernelStack(t)).pfn] = "kstack"

\* The TLB remembers an entry of the current task as it is in the table.
TlbOK ==
  tlb # None => /\ current # None /\ tlb.va \in Touches[current]
                /\ tlb.entry = Ent(current, tlb.va) /\ tlb.entry # None /\ tlb.entry.v

IInv == TypeOK /\ Spaces /\ Mapped /\ FreeOK /\ Apart /\ Pages /\ Kernel /\ TlbOK

-----------------------------------------------------------------------------
(* The constants. *)

\* What PagingOK says, one fact at a time.
LEMMA ConstantFacts ==
  /\ Shell \in Proc /\ Proc \subseteq Task /\ Thread \subseteq Task /\ Proc \cap Thread = {}
  /\ None \notin Task /\ Page \cap (Task \cup {Image}) = {} /\ Image \notin Task
  /\ \A t \in Task : <<t>> \notin Page \cup {Image} \cup Task
  /\ \A t \in Task : Touches[t] \subseteq Page \cup {Image} \cup Task
  /\ \A t \in Task : Touches[t] \cap Task \subseteq {t}
  /\ Data \cap Reading = {} /\ None \notin PTE
  /\ MaxFrame \in Nat /\ MaxFrame >= 4 /\ MaxSwap \in Nat
BY PagingOK DEF PagingOK, Task, Reading

\* Where the pages of a task lie: not in the image, and its stacks apart.
LEMMA MineFacts ==
  ASSUME NEW t \in Task
  PROVE  /\ Image \notin Mine(t) /\ Mine(t) \subseteq Va /\ Touches[t] \subseteq Va /\ Image \in Va
         /\ Touches[t] \subseteq Mine(t) \cup {Image}
         /\ Mine(t) \subseteq Page \cup {UserStack(t), KernelStack(t)}
         /\ KernelStack(t) \notin Touches[t] /\ KernelStack(t) \in Mine(t) /\ UserStack(t) \in Mine(t)
         /\ KernelStack(t) # UserStack(t) /\ Page \subseteq Va
BY ConstantFacts DEF Mine, Va, UserStack, KernelStack

\* A thread has no page in common with any other task.
LEMMA MineApart ==
  ASSUME NEW t \in Task, NEW u \in Task, t # u, t \in Thread \/ u \in Thread
  PROVE  Mine(t) \cap Mine(u) = {}
<1>1. Touches[t] \cap Touches[u] \subseteq {Image}  BY NoSharing DEF NoSharing
<1>2. <<t>> # <<u>> /\ <<t>> # u /\ <<u>> # t  BY ConstantFacts
<1>3. t \notin Touches[u] /\ u \notin Touches[t]  BY ConstantFacts
<1>4. <<t>> \notin Touches[u] /\ <<u>> \notin Touches[t]  BY ConstantFacts
<1>. QED  BY <1>1, <1>2, <1>3, <1>4 DEF Mine, UserStack, KernelStack

\* Tasks that share a table share no pages in it.
LEMMA SameSpace ==
  ASSUME TypeOK, Spaces, NEW t \in alive, NEW u \in alive, t # u, space[t] = space[u]
  PROVE  Mine(t) \cap Mine(u) = {}
<1>1. t \in Task /\ u \in Task  BY DEF TypeOK
<1>2. ~ (t \in Proc /\ u \in Proc)  BY DEF Spaces
<1>. QED  BY <1>1, <1>2, MineApart, ConstantFacts DEF Task

-----------------------------------------------------------------------------
(* Swapping. *)

\* Taking an element out of a sequence and appending another.
LEMMA Moved ==
  ASSUME NEW S, NEW s \in Seq(S), NEW i \in DOMAIN s, NEW e \in S
  PROVE  /\ Append(RemoveAt(s, i), e) \in Seq(S)
         /\ Len(Append(RemoveAt(s, i), e)) = Len(s)
         /\ \A j \in 1 .. Len(s) :
              Append(RemoveAt(s, i), e)[j] = IF j < i THEN s[j] ELSE IF j < Len(s) THEN s[j + 1] ELSE e
<1>1. Len(s) \in Nat /\ DOMAIN s = 1 .. Len(s) /\ \A j \in 1 .. Len(s) : s[j] \in S
  BY LenProperties, ElementOfSeq
<1>. DEFINE a == SubSeq(s, 1, i - 1)  b == SubSeq(s, i + 1, Len(s))
<1>2. a \in Seq(S) /\ Len(a) = i - 1 /\ \A j \in 1 .. i - 1 : a[j] = s[j]
  <2>1. \A j \in 1 .. i - 1 : s[j] \in S  BY <1>1
  <2>2. 1 \in Int /\ i - 1 \in Int  BY <1>1
  <2>3. /\ a \in Seq(S) /\ Len(a) = IF 1 <= i - 1 THEN i - 1 - 1 + 1 ELSE 0
        /\ \A j \in 1 .. i - 1 - 1 + 1 : a[j] = s[1 + j - 1]
    BY <2>1, <2>2, SubSeqProperties
  <2>. QED  BY <1>1, <2>3
<1>3. b \in Seq(S) /\ Len(b) = Len(s) - i /\ \A j \in 1 .. Len(s) - i : b[j] = s[i + j]
  <2>1. \A j \in i + 1 .. Len(s) : s[j] \in S  BY <1>1
  <2>2. i + 1 \in Int /\ Len(s) \in Int  BY <1>1
  <2>3. /\ b \in Seq(S) /\ Len(b) = IF i + 1 <= Len(s) THEN Len(s) - (i + 1) + 1 ELSE 0
        /\ \A j \in 1 .. Len(s) - (i + 1) + 1 : b[j] = s[i + 1 + j - 1]
    BY <2>1, <2>2, SubSeqProperties
  <2>4. Len(b) = Len(s) - i /\ Len(s) - (i + 1) + 1 = Len(s) - i  BY <1>1, <2>3
  <2>5. \A j \in 1 .. Len(s) - i : i + 1 + j - 1 = i + j  BY <1>1
  <2>. QED  BY <2>3, <2>4, <2>5
<1>. HIDE DEF a, b
<1>4. /\ a \o b \in Seq(S) /\ Len(a \o b) = Len(s) - 1
      /\ \A j \in 1 .. Len(s) - 1 : (a \o b)[j] = IF j < i THEN s[j] ELSE s[j + 1]
  <2>1. /\ a \o b \in Seq(S) /\ Len(a \o b) = Len(a) + Len(b)
        /\ \A j \in 1 .. Len(a) + Len(b) : (a \o b)[j] = IF j <= Len(a) THEN a[j] ELSE b[j - Len(a)]
    BY <1>2, <1>3, ConcatProperties
  <2>2. Len(a) + Len(b) = Len(s) - 1  BY <1>1, <1>2, <1>3
  <2>3. ASSUME NEW j \in 1 .. Len(s) - 1
        PROVE  (a \o b)[j] = IF j < i THEN s[j] ELSE s[j + 1]
    <3>1. CASE j < i  BY <1>1, <1>2, <2>1, <2>2, <3>1
    <3>2. CASE ~ (j < i)
      <4>1. j - (i - 1) \in 1 .. Len(s) - i /\ i + (j - (i - 1)) = j + 1  BY <1>1, <3>2
      <4>2. (a \o b)[j] = b[j - (i - 1)]  BY <1>1, <1>2, <2>1, <2>2, <3>2
      <4>. QED  BY <1>3, <3>2, <4>1, <4>2
    <3>. QED  BY <3>1, <3>2
  <2>. QED  BY <2>1, <2>2, <2>3
<1>5. RemoveAt(s, i) = a \o b  BY DEF RemoveAt, a, b
<1>6. /\ Append(a \o b, e) \in Seq(S) /\ Len(Append(a \o b, e)) = Len(a \o b) + 1
      /\ \A j \in 1 .. Len(a \o b) : Append(a \o b, e)[j] = (a \o b)[j]
      /\ Append(a \o b, e)[Len(a \o b) + 1] = e
  BY <1>4, AppendProperties
<1>7. \A j \in 1 .. Len(s) : Append(a \o b, e)[j] = IF j < i THEN s[j] ELSE IF j < Len(s) THEN s[j + 1] ELSE e
  BY <1>1, <1>4, <1>6
<1>. QED  BY <1>1, <1>4, <1>5, <1>6, <1>7

\* A state of the memory of t that its faults may lead to from the present one.
SameFrames(t, vm) ==
  \A va \in Va : /\ vm.pt[va] = None <=> Ent(t, va) = None
                 /\ Ent(t, va) # None => vm.pt[va].pfn = Ent(t, va).pfn
                 /\ Ent(t, va) # None /\ va \notin Mine(t) => vm.pt[va].v = Ent(t, va).v
WritesOwn(t, vm) ==
  /\ \A f \in Frame : \/ vm.mem[f] = mem[f]
                      \/ \E va \in Touches[t] \ {Image} : Ent(t, va) # None /\ Ent(t, va).pfn = f
  /\ swap_block <= vm.swap_block
  /\ \A b \in 0 .. MaxSwap : b < swap_block => vm.card[b] = card[b]
VmOK(t, vm) ==
  vm \in Vms /\ SameFrames(t, vm) /\ ListOK(t, vm) /\ Reads(t, vm, want[space[t]]) /\ WritesOwn(t, vm)

\* A handler starts with the memory as the invariant has it.
LEMMA VmStart ==
  ASSUME TypeOK, Spaces, Pages, NEW t \in alive
  PROVE  VmOK(t, Vm(t))
<1>1. t \in Task /\ space[t] \in Proc  BY DEF TypeOK, Spaces
<1>2. Vm(t) \in Vms  BY <1>1, ConstantFacts DEF Vm, Vms, TypeOK
<1>3. swap_block <= swap_block  BY ConstantFacts DEF TypeOK
<1>4. SameFrames(t, Vm(t)) /\ WritesOwn(t, Vm(t))  BY <1>3 DEF Vm, SameFrames, WritesOwn, Ent
<1>. QED  BY <1>2, <1>4 DEF VmOK, Pages

\* The page do_swap writes out is found on the card afterwards.
LEMMA SwapKeeps ==
  ASSUME TypeOK, NEW t \in alive, NEW vm, VmOK(t, vm), vm.swap_block <= MaxSwap
  PROVE  VmOK(t, do_swap(vm))
<1>1. t \in Task  BY DEF TypeOK
<1>. SUFFICES ASSUME Victim(vm) # {} PROVE VmOK(t, do_swap(vm))  BY DEF do_swap
<1>0. PICK n : n = do_swap(vm)  OBVIOUS
<1>2. PICK i \in Victim(vm) : i = CHOOSE j \in Victim(vm) : TRUE  OBVIOUS
<1>3. PICK p : p = vm.plist[i]  OBVIOUS
<1>4. vm \in Vms /\ ListOK(t, vm) /\ Reads(t, vm, want[space[t]])  BY DEF VmOK
<1>5. i \in DOMAIN vm.plist /\ p.atds = 0  BY <1>2, <1>3 DEF Victim
<1>6. p \in PageTs /\ DOMAIN vm.plist = 1 .. Len(vm.plist) /\ vm.plist \in [1 .. Len(vm.plist) -> PageTs]
      /\ Len(vm.plist) \in Nat
  BY <1>3, <1>4, <1>5, LenProperties DEF Vms
<1>7. p.va \in Mine(t) /\ p.va \in Va /\ vm.pt[p.va] # None /\ vm.pt[p.va] \in PTE
      /\ vm.pt[p.va].pfn = p.pa /\ vm.pt[p.va].v
  BY <1>1, <1>3, <1>4, <1>5, MineFacts DEF ListOK, Vms
<1>8. /\ n.pt = [vm.pt EXCEPT ![p.va].v = FALSE]
      /\ n.plist = [vm.plist EXCEPT ![i].atds = 1, ![i].block = vm.swap_block]
      /\ n.mem = vm.mem /\ n.pnum = vm.pnum - 1
      /\ n.card = [vm.card EXCEPT ![vm.swap_block] = vm.mem[p.pa]]
      /\ n.swap_block = vm.swap_block + 1
  BY <1>0, <1>2, <1>3 DEF do_swap
<1>9. n \in Vms
  <2>1. n = [pt |-> n.pt, plist |-> n.plist, pnum |-> n.pnum, mem |-> n.mem, card |-> n.card,
             swap_block |-> n.swap_block]
    BY <1>0 DEF do_swap
  <2>2. n.pt \in [Va -> PTE \cup {None}]
    <3>1. [vm.pt[p.va] EXCEPT !.v = FALSE] \in PTE  BY <1>7 DEF PTE
    <3>. QED  BY <1>4, <1>8, <3>1 DEF Vms
  <2>3. n.plist \in Seq(PageTs)
    <3>1. vm.swap_block \in 0 .. MaxSwap  BY <1>4, ConstantFacts DEF Vms
    <3>2. [p EXCEPT !.atds = 1, !.block = vm.swap_block] \in PageTs  BY <1>6, <3>1 DEF PageTs
    <3>3. n.plist = [vm.plist EXCEPT ![i] = [p EXCEPT !.atds = 1, !.block = vm.swap_block]]
      BY <1>3, <1>5, <1>6, <1>8
    <3>4. n.plist \in [1 .. Len(vm.plist) -> PageTs]  BY <1>6, <3>2, <3>3
    <3>. QED  BY <1>6, <3>4
  <2>4. n.pnum \in Int /\ n.mem \in [Frame -> Contents] /\ n.swap_block \in Nat
    BY <1>4, <1>8 DEF Vms
  <2>5. n.card \in [0 .. MaxSwap -> Contents]
    <3>1. vm.mem[p.pa] \in Contents  BY <1>4, <1>6 DEF Vms, PageTs
    <3>. QED  BY <1>4, <1>8, <3>1 DEF Vms
  <2>. QED  BY <2>1, <2>2, <2>3, <2>4, <2>5 DEF Vms
<1>10. /\ DOMAIN n.plist = DOMAIN vm.plist
       /\ \A j \in DOMAIN vm.plist : /\ n.plist[j].va = vm.plist[j].va
                                     /\ n.plist[j].pa = vm.plist[j].pa
                                     /\ j # i => n.plist[j] = vm.plist[j]
       /\ n.plist[i].atds = 1 /\ n.plist[i].block = vm.swap_block
  BY <1>3, <1>5, <1>6, <1>8 DEF PageTs
<1>11. /\ \A va \in Va : va # p.va => n.pt[va] = vm.pt[va]
       /\ n.pt[p.va] # None /\ n.pt[p.va].pfn = p.pa /\ n.pt[p.va].v = FALSE
  <2>1. vm.pt \in [Va -> PTE \cup {None}]  BY <1>4 DEF Vms
  <2>2. n.pt[p.va] = [vm.pt[p.va] EXCEPT !.v = FALSE]  BY <1>7, <1>8, <2>1
  <2>3. [vm.pt[p.va] EXCEPT !.v = FALSE] \in PTE /\ [vm.pt[p.va] EXCEPT !.v = FALSE].v = FALSE
        /\ [vm.pt[p.va] EXCEPT !.v = FALSE].pfn = p.pa
    BY <1>7 DEF PTE
  <2>4. n.pt[p.va] # None  BY <2>2, <2>3, ConstantFacts
  <2>. QED  BY <1>8, <2>1, <2>2, <2>3, <2>4
<1>12. \A j \in DOMAIN vm.plist : vm.plist[j].va \in Va /\ (j # i => vm.plist[j].va # p.va)
  BY <1>1, <1>3, <1>4, <1>5, MineFacts DEF ListOK
<1>13. ListOK(t, n)
  <2>1. ASSUME NEW j \in DOMAIN n.plist
        PROVE  /\ n.plist[j].va \in Mine(t)
               /\ n.pt[n.plist[j].va] # None /\ n.pt[n.plist[j].va].pfn = n.plist[j].pa
               /\ n.plist[j].atds = 0 => n.pt[n.plist[j].va].v
    <3>1. CASE j = i  BY <1>3, <1>5, <1>7, <1>10, <1>11, <3>1
    <3>2. CASE j # i
      <4>1. n.plist[j] = vm.plist[j] /\ n.pt[vm.plist[j].va] = vm.pt[vm.plist[j].va]
        BY <1>10, <1>11, <1>12, <2>1, <3>2
      <4>. QED  BY <1>4, <1>10, <2>1, <4>1 DEF ListOK
    <3>. QED  BY <3>1, <3>2
  <2>2. \A j, k \in DOMAIN n.plist : n.plist[j].va = n.plist[k].va => j = k
    BY <1>4, <1>10 DEF ListOK
  <2>. QED  BY <2>1, <2>2 DEF ListOK
<1>14. Reads(t, n, want[space[t]])
  <2>. SUFFICES ASSUME NEW va \in Touches[t], n.pt[va] # None
                PROVE  IF n.pt[va].v THEN n.mem[n.pt[va].pfn] = want[space[t]][va]
                       ELSE OnTheCard(n, va, want[space[t]][va])
    BY DEF Reads
  <2>1. CASE va = p.va
    <3>1. vm.mem[p.pa] = want[space[t]][va]  BY <1>4, <1>7, <2>1 DEF Reads
    <3>2. vm.swap_block \in 0 .. MaxSwap  BY <1>4, ConstantFacts DEF Vms
    <3>3. n.card[vm.swap_block] = vm.mem[p.pa]  BY <1>4, <1>8, <3>2 DEF Vms
    <3>4. /\ i \in DOMAIN n.plist /\ n.plist[i].va = va /\ n.plist[i].atds = 1
          /\ n.plist[i].block < n.swap_block /\ n.card[n.plist[i].block] = want[space[t]][va]
      <4>1. i \in DOMAIN n.plist /\ n.plist[i].va = va
        BY ONLY <1>3, <1>5, <1>10, <2>1
      <4>2. n.plist[i].atds = 1 /\ n.plist[i].block = vm.swap_block  BY ONLY <1>10
      <4>3. vm.swap_block \in Nat  BY ONLY <3>2, ConstantFacts
      <4>4. vm.swap_block < n.swap_block  BY ONLY <1>8, <4>3
      <4>. QED  BY ONLY <3>1, <3>3, <4>1, <4>2, <4>4
    <3>5. OnTheCard(n, va, want[space[t]][va])  BY <3>4 DEF OnTheCard
    <3>. QED  BY <1>11, <2>1, <3>5
  <2>2. CASE va # p.va
    <3>1. va \in Va /\ n.pt[va] = vm.pt[va]  BY <1>1, <1>11, <2>2, MineFacts
    <3>2. CASE vm.pt[va].v  BY <1>4, <1>8, <3>1, <3>2 DEF Reads
    <3>3. CASE ~ vm.pt[va].v
      <4>1. OnTheCard(vm, va, want[space[t]][va])  BY <1>4, <3>1, <3>3 DEF Reads
      <4>2. PICK k \in DOMAIN vm.plist : /\ vm.plist[k].va = va /\ vm.plist[k].atds = 1
                                         /\ vm.plist[k].block < vm.swap_block
                                         /\ vm.card[vm.plist[k].block] = want[space[t]][va]
        BY <4>1 DEF OnTheCard
      <4>3. k # i /\ n.plist[k] = vm.plist[k]  BY <1>3, <1>10, <2>2, <4>2
      <4>4. vm.plist[k].block \in 0 .. MaxSwap  BY <1>6, <4>2 DEF PageTs
      <4>5. n.card[vm.plist[k].block] = vm.card[vm.plist[k].block]
        BY <1>4, <1>8, <4>2, <4>4, ConstantFacts DEF Vms
      <4>6. vm.plist[k].block < n.swap_block  BY <1>4, <1>8, <4>2, <4>4, ConstantFacts DEF Vms
      <4>7. OnTheCard(n, va, want[space[t]][va])  BY <1>10, <4>2, <4>3, <4>5, <4>6 DEF OnTheCard
      <4>. QED  BY <3>1, <3>3, <4>7
    <3>. QED  BY <3>2, <3>3
  <2>. QED  BY <2>1, <2>2
<1>15. SameFrames(t, n)
  <2>1. SameFrames(t, vm)  BY DEF VmOK
  <2>. SUFFICES ASSUME NEW va \in Va
                PROVE  /\ n.pt[va] = None <=> Ent(t, va) = None
                       /\ Ent(t, va) # None => n.pt[va].pfn = Ent(t, va).pfn
                       /\ Ent(t, va) # None /\ va \notin Mine(t) => n.pt[va].v = Ent(t, va).v
    BY DEF SameFrames
  <2>2. CASE va = p.va  BY <1>7, <1>11, <2>1, <2>2 DEF SameFrames
  <2>3. CASE va # p.va  BY <1>11, <2>1, <2>3 DEF SameFrames
  <2>. QED  BY <2>2, <2>3
<1>16. swap_block <= n.swap_block
  BY <1>4, <1>8, ConstantFacts DEF VmOK, WritesOwn, Vms, TypeOK
<1>17. \A b \in 0 .. MaxSwap : b < swap_block => n.card[b] = card[b]
  <2>1. \A b \in 0 .. MaxSwap : b < swap_block => b # vm.swap_block
    BY <1>4, ConstantFacts DEF VmOK, WritesOwn, Vms, TypeOK
  <2>. QED  BY <1>4, <1>8, <2>1 DEF VmOK, WritesOwn, Vms
<1>18. \A f \in Frame : \/ n.mem[f] = mem[f]
                        \/ \E va \in Touches[t] \ {Image} : Ent(t, va) # None /\ Ent(t, va).pfn = f
  BY <1>8 DEF VmOK, WritesOwn
<1>19. WritesOwn(t, n)  BY <1>16, <1>17, <1>18 DEF WritesOwn
<1>20. VmOK(t, n)  BY <1>9, <1>13, <1>14, <1>15, <1>19 DEF VmOK
<1>. QED  BY <1>0, <1>20

\* The pages of tasks, and their images, are in frames of their own.
LEMMA FramesDiffer ==
  ASSUME TypeOK, Spaces, Mapped, Apart, NEW t \in alive, NEW va \in Mine(t), Ent(t, va) # None
  PROVE  /\ \A u \in alive : \A wa \in Mine(u) \cup {Image} :
               ~ (u = t /\ wa = va) /\ Ent(u, wa) # None => Ent(u, wa).pfn # Ent(t, va).pfn
         /\ \A p \in Proc : Ent(t, va).pfn \notin tables[p] /\ Ent(t, va).pfn \notin Kept(p)
<1>1. Owned(Ent(t, va).pfn)  BY DEF Owned
<1>2. \A p \in Proc : Ent(t, va).pfn \notin Kept(p)  BY <1>1 DEF Apart
<1>3. \A u \in alive : Ent(u, Image).pfn \in Kept(space[u]) /\ space[u] \in Proc
  <2>1. \A u \in alive : u \in Task /\ space[u] \in Proc /\ space[space[u]] # None
    BY ConstantFacts DEF TypeOK, Spaces, Task
  <2>. QED  BY <2>1 DEF Kept, Ent
<1>4. \A u \in alive : \A wa \in Mine(u) :
        ~ (u = t /\ wa = va) /\ Ent(u, wa) # None => Ent(u, wa).pfn # Ent(t, va).pfn
  BY DEF Apart
<1>. QED  BY <1>2, <1>3, <1>4 DEF Kept

\* A page do_unswap brings back has what was written to it.
LEMMA UnswapKeeps ==
  ASSUME TypeOK, Spaces, Mapped, Apart, NEW t \in alive, NEW vm, VmOK(t, vm),
         NEW va \in Touches[t] \ {Image}, ~ check_ad(vm.pt, va), OnCard(vm, va) # {}
  PROVE  VmOK(t, do_unswap(vm, va)) /\ do_unswap(vm, va).swap_block = vm.swap_block
<1>0. PICK n : n = do_unswap(vm, va)  OBVIOUS
<1>1. t \in Task  BY DEF TypeOK
<1>2. PICK i \in OnCard(vm, va) : i = CHOOSE j \in OnCard(vm, va) : TRUE  OBVIOUS
<1>3. PICK p : p = vm.plist[i]  OBVIOUS
<1>4. vm \in Vms /\ ListOK(t, vm) /\ Reads(t, vm, want[space[t]]) /\ SameFrames(t, vm) /\ WritesOwn(t, vm)
  BY DEF VmOK
<1>5. i \in DOMAIN vm.plist /\ p.atds = 1 /\ p.va = va  BY <1>2, <1>3 DEF OnCard
<1>. DEFINE L == Len(vm.plist)  e == [p EXCEPT !.atds = 0, !.block = 0]
<1>6. p \in PageTs /\ DOMAIN vm.plist = 1 .. L /\ vm.plist \in Seq(PageTs) /\ L \in Nat
  BY <1>3, <1>4, <1>5, LenProperties, ElementOfSeq DEF Vms
<1>7. /\ va \in Mine(t) /\ va \in Va /\ vm.pt[va] # None /\ vm.pt[va] \in PTE
      /\ vm.pt[va].pfn = p.pa /\ ~ vm.pt[va].v /\ p.pa \in Frame
      /\ Ent(t, va) # None /\ Ent(t, va).pfn = p.pa
  <2>1. va \in Mine(t) /\ va \in Va  BY <1>1, MineFacts
  <2>2. vm.pt[va] # None /\ vm.pt[va].pfn = p.pa  BY <1>3, <1>4, <1>5 DEF ListOK
  <2>3. vm.pt[va] \in PTE  BY <1>4, <2>1, <2>2 DEF Vms
  <2>4. ~ vm.pt[va].v  BY <2>2 DEF check_ad
  <2>5. Ent(t, va) # None /\ Ent(t, va).pfn = p.pa  BY <1>4, <2>1, <2>2 DEF SameFrames
  <2>. QED  BY <1>6, <2>1, <2>2, <2>3, <2>4, <2>5 DEF PageTs
<1>8. vm.card[p.block] = want[space[t]][va]
  <2>1. OnTheCard(vm, va, want[space[t]][va])  BY <1>4, <1>7 DEF Reads
  <2>2. PICK k \in DOMAIN vm.plist : /\ vm.plist[k].va = va
                                     /\ vm.card[vm.plist[k].block] = want[space[t]][va]
    BY <2>1 DEF OnTheCard
  <2>3. k = i  BY <1>3, <1>4, <1>5, <2>2 DEF ListOK
  <2>. QED  BY <1>3, <2>2, <2>3
<1>9. /\ n.pt = [vm.pt EXCEPT ![va].v = TRUE] /\ n.plist = Append(RemoveAt(vm.plist, i), e)
      /\ n.pnum = vm.pnum + 1 /\ n.mem = [vm.mem EXCEPT ![p.pa] = vm.card[p.block]]
      /\ n.card = vm.card /\ n.swap_block = vm.swap_block
      /\ n = [pt |-> n.pt, plist |-> n.plist, pnum |-> n.pnum, mem |-> n.mem, card |-> n.card,
              swap_block |-> n.swap_block]
  <2>1. n = [vm EXCEPT !.pt = [@ EXCEPT ![va].v = TRUE], !.plist = Append(RemoveAt(@, i), e),
                       !.pnum = @ + 1, !.mem = [@ EXCEPT ![p.pa] = vm.card[p.block]]]
    BY <1>0, <1>2, <1>3 DEF do_unswap
  <2>. HIDE DEF e
  <2>. QED  BY <1>4, <2>1 DEF Vms
<1>10. e \in PageTs /\ e.va = va /\ e.pa = p.pa /\ e.atds = 0
  <2>1. 0 \in 0 .. MaxSwap /\ 0 \in {0, 1}  BY ConstantFacts
  <2>2. [p EXCEPT !.atds = 0, !.block = 0] \in PageTs  BY <1>6, <2>1 DEF PageTs
  <2>3. /\ [p EXCEPT !.atds = 0, !.block = 0].va = p.va /\ [p EXCEPT !.atds = 0, !.block = 0].pa = p.pa
        /\ [p EXCEPT !.atds = 0, !.block = 0].atds = 0
    BY <1>6 DEF PageTs
  <2>. QED  BY <1>5, <2>2, <2>3
<1>11. /\ n.plist \in Seq(PageTs) /\ Len(n.plist) = L /\ DOMAIN n.plist = 1 .. L
       /\ \A j \in 1 .. L : n.plist[j] = IF j < i THEN vm.plist[j] ELSE IF j < L THEN vm.plist[j + 1] ELSE e
  <2>. HIDE DEF e
  <2>0. i \in DOMAIN vm.plist /\ e \in PageTs /\ vm.plist \in Seq(PageTs)  BY <1>5, <1>6, <1>10
  <2>1. /\ n.plist \in Seq(PageTs) /\ Len(n.plist) = L
        /\ \A j \in 1 .. L : n.plist[j] = IF j < i THEN vm.plist[j] ELSE IF j < L THEN vm.plist[j + 1] ELSE e
    BY <1>9, <2>0, Moved
  <2>. QED  BY <2>1, LenProperties
<1>12. /\ n.pt \in [Va -> PTE \cup {None}]
       /\ \A wa \in Va : wa # va => n.pt[wa] = vm.pt[wa]
       /\ n.pt[va] # None /\ n.pt[va].pfn = p.pa /\ n.pt[va].v
  <2>1. vm.pt \in [Va -> PTE \cup {None}]  BY <1>4 DEF Vms
  <2>2. n.pt[va] = [vm.pt[va] EXCEPT !.v = TRUE]  BY <1>7, <1>9, <2>1
  <2>3. /\ [vm.pt[va] EXCEPT !.v = TRUE] \in PTE /\ [vm.pt[va] EXCEPT !.v = TRUE].v = TRUE
        /\ [vm.pt[va] EXCEPT !.v = TRUE].pfn = p.pa
    BY <1>7 DEF PTE
  <2>4. n.pt[va] # None  BY <2>2, <2>3, ConstantFacts
  <2>5. n.pt \in [Va -> PTE \cup {None}]  BY <1>7, <1>9, <2>1, <2>3
  <2>. QED  BY <1>9, <2>1, <2>2, <2>3, <2>4, <2>5
<1>13. n \in Vms
  <2>1. p.block \in 0 .. MaxSwap  BY <1>6 DEF PageTs
  <2>2. vm.card[p.block] \in Contents  BY <1>4, <2>1 DEF Vms
  <2>3. n.mem \in [Frame -> Contents]  BY <1>4, <1>9, <2>2 DEF Vms
  <2>4. n.pnum \in Int /\ n.card \in [0 .. MaxSwap -> Contents] /\ n.swap_block \in Nat
    BY <1>4, <1>9 DEF Vms
  <2>. QED  BY <1>9, <1>11, <1>12, <2>3, <2>4 DEF Vms
\* The entry of the list at j was at from(j).
<1>. DEFINE from(j) == IF j < i THEN j ELSE IF j < L THEN j + 1 ELSE i
<1>14. \A j \in 1 .. L : /\ from(j) \in 1 .. L
                         /\ n.plist[j].va = vm.plist[from(j)].va /\ n.plist[j].pa = vm.plist[from(j)].pa
                         /\ from(j) = i => n.plist[j] = e
                         /\ from(j) # i => n.plist[j] = vm.plist[from(j)]
  <2>. HIDE DEF e
  <2>. SUFFICES ASSUME NEW j \in 1 .. L
                PROVE  /\ from(j) \in 1 .. L
                       /\ n.plist[j].va = vm.plist[from(j)].va /\ n.plist[j].pa = vm.plist[from(j)].pa
                       /\ from(j) = i => n.plist[j] = e
                       /\ from(j) # i => n.plist[j] = vm.plist[from(j)]
    OBVIOUS
  <2>0. L \in Nat /\ i \in 1 .. L  BY <1>5, <1>6
  <2>1. CASE j < i
    <3>1. from(j) = j /\ j # i  BY <2>0, <2>1
    <3>. QED  BY <1>11, <2>1, <3>1
  <2>2. CASE ~ (j < i) /\ j < L
    <3>1. from(j) = j + 1 /\ j + 1 # i /\ j + 1 \in 1 .. L  BY <2>0, <2>2
    <3>. QED  BY <1>11, <2>2, <3>1
  <2>3. CASE ~ (j < i) /\ ~ (j < L)
    <3>1. from(j) = i  BY <2>3
    <3>2. n.plist[j] = e  BY <1>11, <2>3
    <3>. QED  BY <1>3, <1>5, <1>10, <2>0, <3>1, <3>2
  <2>. QED  BY <2>1, <2>2, <2>3
<1>15. \A j, k \in 1 .. L : from(j) = from(k) => j = k
  <2>1. L \in Nat /\ i \in 1 .. L  BY <1>5, <1>6
  <2>. HIDE DEF L, e
  <2>. QED  BY <2>1
<1>16. \A k \in 1 .. L : k # i => \E j \in 1 .. L : n.plist[j] = vm.plist[k]
  <2>. SUFFICES ASSUME NEW k \in 1 .. L, k # i PROVE \E j \in 1 .. L : n.plist[j] = vm.plist[k]
    OBVIOUS
  <2>1. CASE k < i  BY <1>11, <2>1
  <2>2. CASE k > i
    <3>1. k - 1 \in 1 .. L /\ ~ (k - 1 < i) /\ k - 1 < L /\ (k - 1) + 1 = k  BY <1>5, <1>6, <2>2
    <3>. HIDE DEF e
    <3>. QED  BY <1>11, <3>1
  <2>. QED  BY <1>5, <1>6, <2>1, <2>2
<1>17. \A k \in 1 .. L : vm.plist[k].va \in Va /\ (k # i => vm.plist[k].va # va)
  BY <1>1, <1>3, <1>4, <1>5, <1>6, MineFacts DEF ListOK
<1>. HIDE DEF from, e, L
<1>18. ListOK(t, n)
  <2>1. ASSUME NEW j \in DOMAIN n.plist
        PROVE  /\ n.plist[j].va \in Mine(t)
               /\ n.pt[n.plist[j].va] # None /\ n.pt[n.plist[j].va].pfn = n.plist[j].pa
               /\ n.plist[j].atds = 0 => n.pt[n.plist[j].va].v
    <3>0. j \in 1 .. L  BY <1>11
    <3>1. CASE from(j) = i  BY <1>7, <1>10, <1>12, <1>14, <3>0, <3>1
    <3>2. CASE from(j) # i
      <4>1. /\ from(j) \in DOMAIN vm.plist /\ n.plist[j] = vm.plist[from(j)]
            /\ n.pt[vm.plist[from(j)].va] = vm.pt[vm.plist[from(j)].va]
        BY <1>6, <1>12, <1>14, <1>17, <3>0, <3>2
      <4>. QED  BY <1>4, <4>1 DEF ListOK
    <3>. QED  BY <3>1, <3>2
  <2>2. ASSUME NEW j \in DOMAIN n.plist, NEW k \in DOMAIN n.plist, n.plist[j].va = n.plist[k].va
        PROVE  j = k
    <3>1. j \in 1 .. L /\ k \in 1 .. L  BY <1>11
    <3>2. from(j) \in DOMAIN vm.plist /\ from(k) \in DOMAIN vm.plist
          /\ vm.plist[from(j)].va = vm.plist[from(k)].va
      BY <1>6, <1>14, <2>2, <3>1
    <3>3. from(j) = from(k)  BY <1>4, <3>2 DEF ListOK
    <3>. QED  BY <1>15, <3>1, <3>3
  <2>. QED  BY <2>1, <2>2 DEF ListOK
<1>19. Reads(t, n, want[space[t]])
  <2>. SUFFICES ASSUME NEW wa \in Touches[t], n.pt[wa] # None
                PROVE  IF n.pt[wa].v THEN n.mem[n.pt[wa].pfn] = want[space[t]][wa]
                       ELSE OnTheCard(n, wa, want[space[t]][wa])
    BY DEF Reads
  <2>1. CASE wa = va
    <3>1. n.mem[p.pa] = vm.card[p.block]  BY <1>4, <1>7, <1>9 DEF Vms
    <3>. QED  BY <1>8, <1>12, <2>1, <3>1
  <2>2. CASE wa # va
    <3>1. wa \in Va /\ n.pt[wa] = vm.pt[wa] /\ wa \in Mine(t) \cup {Image}
      BY <1>1, <1>12, <2>2, MineFacts
    <3>2. CASE vm.pt[wa].v
      <4>1. Ent(t, wa) # None /\ vm.pt[wa].pfn = Ent(t, wa).pfn  BY <1>4, <3>1 DEF SameFrames
      <4>2. vm.pt[wa].pfn # p.pa  BY <1>7, <2>2, <3>1, <4>1, FramesDiffer
      <4>3. vm.pt[wa].pfn \in Frame  BY <1>4, <3>1 DEF Vms, PTE
      <4>4. n.mem[vm.pt[wa].pfn] = vm.mem[vm.pt[wa].pfn]  BY <1>4, <1>9, <4>2, <4>3 DEF Vms
      <4>. QED  BY <1>4, <3>1, <3>2, <4>4 DEF Reads
    <3>3. CASE ~ vm.pt[wa].v
      <4>1. OnTheCard(vm, wa, want[space[t]][wa])  BY <1>4, <3>1, <3>3 DEF Reads
      <4>2. PICK k \in DOMAIN vm.plist : /\ vm.plist[k].va = wa /\ vm.plist[k].atds = 1
                                         /\ vm.plist[k].block < vm.swap_block
                                         /\ vm.card[vm.plist[k].block] = want[space[t]][wa]
        BY <4>1 DEF OnTheCard
      <4>3. k # i /\ k \in 1 .. L  BY <1>3, <1>5, <1>6, <2>2, <4>2
      <4>4. PICK j \in 1 .. L : n.plist[j] = vm.plist[k]  BY <1>16, <4>3
      <4>5. OnTheCard(n, wa, want[space[t]][wa])  BY <1>9, <1>11, <4>2, <4>4 DEF OnTheCard
      <4>. QED  BY <3>1, <3>3, <4>5
    <3>. QED  BY <3>2, <3>3
  <2>. QED  BY <2>1, <2>2
<1>20. SameFrames(t, n)
  <2>. SUFFICES ASSUME NEW wa \in Va
                PROVE  /\ n.pt[wa] = None <=> Ent(t, wa) = None
                       /\ Ent(t, wa) # None => n.pt[wa].pfn = Ent(t, wa).pfn
                       /\ Ent(t, wa) # None /\ wa \notin Mine(t) => n.pt[wa].v = Ent(t, wa).v
    BY DEF SameFrames
  <2>1. CASE wa = va  BY <1>7, <1>12, <2>1
  <2>2. CASE wa # va  BY <1>4, <1>12, <2>2 DEF SameFrames
  <2>. QED  BY <2>1, <2>2
<1>21. WritesOwn(t, n)
  <2>1. \A f \in Frame : f # p.pa => n.mem[f] = vm.mem[f]  BY <1>4, <1>9 DEF Vms
  <2>2. \A f \in Frame : \/ n.mem[f] = mem[f]
                         \/ \E wa \in Touches[t] \ {Image} : Ent(t, wa) # None /\ Ent(t, wa).pfn = f
    BY <1>4, <1>7, <2>1 DEF WritesOwn
  <2>. QED  BY <1>4, <1>9, <2>2 DEF WritesOwn
<1>22. VmOK(t, n)  BY <1>13, <1>18, <1>19, <1>20, <1>21 DEF VmOK
<1>. QED  BY <1>0, <1>9, <1>22

-----------------------------------------------------------------------------
(* Faults. *)

\* What a task reads does not depend on what others do to the rest of memory.
LEMMA Untouched ==
  ASSUME NEW u \in Task, NEW vm \in Vms, NEW vn, NEW w, NEW x, ListOK(u, vm), Reads(u, vm, w),
         vn.plist = vm.plist,
         \A va \in Mine(u) \cup {Image} :
            /\ vn.pt[va] = None <=> vm.pt[va] = None
            /\ vm.pt[va] # None => vn.pt[va].pfn = vm.pt[va].pfn /\ vn.pt[va].v = vm.pt[va].v,
         \A va \in Touches[u] : /\ x[va] = w[va]
                                /\ vm.pt[va] # None => vn.mem[vm.pt[va].pfn] = vm.mem[vm.pt[va].pfn],
         \A b \in 0 .. MaxSwap : b < vm.swap_block => vn.card[b] = vm.card[b],
         vm.swap_block <= vn.swap_block, vn.swap_block \in Nat
  PROVE  ListOK(u, vn) /\ Reads(u, vn, x)
<1>1. \A i \in DOMAIN vm.plist : vm.plist[i].va \in Mine(u) /\ vm.plist[i].block \in 0 .. MaxSwap
  <2>1. \A i \in DOMAIN vm.plist : vm.plist[i] \in PageTs
    BY LenProperties, ElementOfSeq DEF Vms
  <2>. QED  BY <2>1 DEF ListOK, PageTs
<1>2. ListOK(u, vn)  BY <1>1 DEF ListOK
<1>3. Reads(u, vn, x)
  <2>. SUFFICES ASSUME NEW va \in Touches[u], vn.pt[va] # None
                PROVE  IF vn.pt[va].v THEN vn.mem[vn.pt[va].pfn] = x[va] ELSE OnTheCard(vn, va, x[va])
    BY DEF Reads
  <2>1. va \in Mine(u) \cup {Image}  BY MineFacts
  <2>2. vm.pt[va] # None  BY <2>1
  <2>3. CASE vm.pt[va].v  BY <2>1, <2>2, <2>3 DEF Reads
  <2>4. CASE ~ vm.pt[va].v
    <3>1. OnTheCard(vm, va, w[va])  BY <2>2, <2>4 DEF Reads
    <3>2. PICK k \in DOMAIN vm.plist : /\ vm.plist[k].va = va /\ vm.plist[k].atds = 1
                                       /\ vm.plist[k].block < vm.swap_block
                                       /\ vm.card[vm.plist[k].block] = w[va]
      BY <3>1 DEF OnTheCard
    <3>3. vm.plist[k].block \in 0 .. MaxSwap /\ vm.swap_block \in Nat  BY <1>1 DEF Vms
    <3>4. vm.plist[k].block < vn.swap_block  BY <3>2, <3>3, ConstantFacts
    <3>5. vn.card[vm.plist[k].block] = x[va]  BY <3>2, <3>3
    <3>6. OnTheCard(vn, va, x[va])  BY <3>2, <3>4, <3>5 DEF OnTheCard
    <3>. QED  BY <2>1, <2>2, <2>4, <3>6
  <2>. QED  BY <2>3, <2>4
<1>. QED  BY <1>2, <1>3

\* The same for the task u when a step leaves its entries and their contents.
LEMMA OthersKeep ==
  ASSUME TypeOK, Spaces, Pages, NEW u \in alive,
         space'[u] = space[u], plist'[u] = plist[u],
         \A va \in Mine(u) \cup {Image} :
            /\ Ent(u, va)' = None <=> Ent(u, va) = None
            /\ Ent(u, va) # None => Ent(u, va)'.pfn = Ent(u, va).pfn /\ Ent(u, va)'.v = Ent(u, va).v,
         \A va \in Touches[u] : /\ want'[space[u]][va] = want[space[u]][va]
                                /\ Ent(u, va) # None => mem'[Ent(u, va).pfn] = mem[Ent(u, va).pfn],
         \A b \in 0 .. MaxSwap : b < swap_block => card'[b] = card[b],
         swap_block <= swap_block', swap_block' \in Nat
  PROVE  ListOK(u, Vm(u)') /\ Reads(u, Vm(u)', want'[space'[u]])
<1>1. u \in Task /\ space[u] \in Proc  BY DEF TypeOK, Spaces
<1>2. PICK vo : vo = Vm(u)  OBVIOUS
<1>3. PICK vn : vn = Vm(u)'  OBVIOUS
<1>4. vo \in Vms /\ ListOK(u, vo) /\ Reads(u, vo, want[space[u]])
  BY <1>2, VmStart DEF Pages, VmOK
<1>5. /\ vn.plist = plist[u] /\ vn.mem = mem' /\ vn.card = card' /\ vn.swap_block = swap_block'
      /\ \A va : vn.pt[va] = Ent(u, va)' /\ vo.pt[va] = Ent(u, va)
      /\ vo.plist = plist[u] /\ vo.mem = mem /\ vo.card = card /\ vo.swap_block = swap_block
  BY <1>2, <1>3 DEF Vm, Ent
<1>6. /\ \A va \in Mine(u) \cup {Image} :
            /\ vn.pt[va] = None <=> vo.pt[va] = None
            /\ vo.pt[va] # None => vn.pt[va].pfn = vo.pt[va].pfn /\ vn.pt[va].v = vo.pt[va].v
      /\ \A va \in Touches[u] :
            /\ want'[space'[u]][va] = want[space[u]][va]
            /\ vo.pt[va] # None => vn.mem[vo.pt[va].pfn] = vo.mem[vo.pt[va].pfn]
  BY <1>5
<1>7. /\ \A b \in 0 .. MaxSwap : b < vo.swap_block => vn.card[b] = vo.card[b]
      /\ vo.swap_block <= vn.swap_block /\ vn.swap_block \in Nat /\ vn.plist = vo.plist
  BY <1>5
<1>8. ListOK(u, vn) /\ Reads(u, vn, want'[space'[u]])  BY <1>1, <1>4, <1>6, <1>7, Untouched
<1>. QED  BY <1>3, <1>8

\* A fault that changes the memory of t as VmOK says keeps the invariant.
LEMMA FaultKeeps ==
  ASSUME IInv, NEW t \in alive, NEW vm, VmOK(t, vm), vm.swap_block <= MaxSwap,
         pt' = [pt EXCEPT ![space[t]] = vm.pt], plist' = [plist EXCEPT ![t] = vm.plist],
         pnum' = [pnum EXCEPT ![t] = vm.pnum], mem' = vm.mem,
         card' = vm.card, swap_block' = vm.swap_block, tlb' = None,
         UNCHANGED <<tasks, tables, frames, want>>,
         instr' \in [Task -> {None} \cup [va : Va, op : Data \cup Reading, faults : Nat]]
  PROVE  IInv'
<1>1. TypeOK /\ Spaces /\ Mapped /\ FreeOK /\ Apart /\ Pages /\ Kernel  BY DEF IInv
<1>2. t \in Task /\ space[t] \in Proc /\ \A u \in alive : u \in Task /\ space[u] \in Proc
  BY <1>1 DEF TypeOK, Spaces
<1>3. vm \in Vms /\ SameFrames(t, vm) /\ ListOK(t, vm) /\ Reads(t, vm, want[space[t]]) /\ WritesOwn(t, vm)
  BY DEF VmOK
<1>4. UNCHANGED <<alive, current, space, tables, freePageList, memCurr, want>>  BY DEF tasks, frames
<1>5. TypeOK'
  <2>1. vm.swap_block \in 0 .. MaxSwap  BY <1>3, ConstantFacts DEF Vms
  <2>2. pt' \in [Proc -> [Va -> PTE \cup {None}]]  BY <1>1, <1>2, <1>3 DEF TypeOK, Vms
  <2>3. plist' \in [Task -> Seq(PageTs)] /\ pnum' \in [Task -> Int]  BY <1>1, <1>2, <1>3 DEF TypeOK, Vms
  <2>4. mem' \in [Frame -> Contents] /\ card' \in [0 .. MaxSwap -> Contents]  BY <1>3 DEF Vms
  <2>. QED  BY <1>1, <1>4, <2>1, <2>2, <2>3, <2>4 DEF TypeOK
<1>6. \A p \in Proc : \A va \in Va :
        /\ pt'[p][va] = None <=> pt[p][va] = None
        /\ pt[p][va] # None => /\ pt'[p][va].pfn = pt[p][va].pfn
                               /\ p # space[t] \/ va \notin Mine(t) => pt'[p][va].v = pt[p][va].v
  BY <1>1, <1>2, <1>3 DEF SameFrames, Ent, TypeOK
<1>7. /\ \A u \in alive : \A va \in Mine(u) \cup {Image} :
           /\ va \in Va /\ (Ent(u, va)' = None <=> Ent(u, va) = None)
           /\ Ent(u, va) # None => Ent(u, va)'.pfn = Ent(u, va).pfn
           /\ Ent(u, va) # None /\ u # t => Ent(u, va)'.v = Ent(u, va).v
      /\ \A p \in Proc : Image \in Va /\ (space[p] # None => pt'[p][Image].pfn = pt[p][Image].pfn)
  <2>1. \A u \in alive : \A va \in Mine(u) \cup {Image} : va \in Va  BY <1>2, MineFacts
  <2>2. \A u \in alive \ {t} : \A va \in Mine(u) \cup {Image} : space[u] # space[t] \/ va \notin Mine(t)
    BY <1>1, <1>2, SameSpace, MineFacts
  <2>. QED  BY <1>1, <1>2, <1>4, <1>6, <2>1, <2>2, MineFacts DEF Ent, Mapped
<1>8. Spaces'
  <2>1. \A p \in Proc : \A va \in Page : pt'[p][va] = None <=> pt[p][va] = None
    BY <1>2, <1>6, MineFacts
  <2>. QED  BY <1>1, <1>4, <2>1 DEF Spaces
<1>9. Mapped'
  <2>1. \A p \in Proc : \A va \in Page : pt'[p][va] = None <=> pt[p][va] = None
    BY <1>2, <1>6, MineFacts
  <2>2. \A p \in Proc : space[p] # None => pt'[p][Image] # None /\ pt'[p][Image].v
    BY <1>1, <1>2, <1>6, MineFacts DEF Mapped
  <2>3. \A u \in alive : \A va \in {UserStack(u), KernelStack(u)} : Ent(u, va)' # None
    BY <1>1, <1>2, <1>7, MineFacts DEF Mapped
  <2>. QED  BY <1>1, <1>4, <2>1, <2>2, <2>3 DEF Mapped
<1>10. /\ \A p \in Proc : Kept(p)' = Kept(p)
       /\ \A f : (Owned(f)' <=> Owned(f)) /\ (IsFree(f)' <=> IsFree(f))
  BY <1>4, <1>7 DEF Kept, Owned, IsFree
<1>11. FreeOK' /\ Apart'
  <2>1. FreeOK'  BY <1>1, <1>4 DEF FreeOK
  <2>2. \A u, v \in alive : \A va \in Mine(u), wa \in Mine(v) :
          Ent(u, va)' # None /\ Ent(v, wa)' # None /\ Ent(u, va)'.pfn = Ent(v, wa)'.pfn => u = v /\ va = wa
    BY <1>1, <1>7 DEF Apart
  <2>. QED  BY <1>1, <1>4, <1>10, <2>1, <2>2 DEF Apart
\* Only frames of pages t uses may have changed.
<1>12. \A f \in Frame : \/ mem'[f] = mem[f]
                        \/ \E va \in Touches[t] \ {Image} : va \in Mine(t) /\ Ent(t, va) # None /\ Ent(t, va).pfn = f
  BY <1>2, <1>3, MineFacts DEF WritesOwn
<1>13. \A u \in alive : \A wa \in Mine(u) \cup {Image} :
         Ent(u, wa) # None /\ (u # t \/ wa \notin Touches[t] \ {Image}) => mem'[Ent(u, wa).pfn] = mem[Ent(u, wa).pfn]
  <2>1. \A u \in alive : \A wa \in Mine(u) \cup {Image} : Ent(u, wa) # None => Ent(u, wa).pfn \in Frame
    BY <1>1, <1>2, <1>7 DEF Ent, TypeOK, PTE
  <2>. QED  BY <1>1, <1>12, <2>1, FramesDiffer
<1>14. Kernel'
  <2>1. ASSUME NEW p \in Proc, NEW f \in tables[p] PROVE mem'[f] = mem[f]
    <3>1. f \in Frame  BY <1>1 DEF TypeOK
    <3>2. \A va \in Mine(t) : Ent(t, va) # None => Ent(t, va).pfn # f  BY <1>1, FramesDiffer
    <3>. QED  BY <1>12, <3>1, <3>2
  <2>2. \A u \in alive : mem'[Ent(u, KernelStack(u))'.pfn] = mem[Ent(u, KernelStack(u)).pfn]
    BY <1>1, <1>2, <1>7, <1>13, MineFacts DEF Mapped
  <2>3. ASSUME NEW p \in Proc, space[p] # None PROVE mem'[pt'[p][Image].pfn] = mem[pt[p][Image].pfn]
    <3>1. pt[p][Image] # None /\ Image \in Va  BY <1>1, <1>7, <2>3 DEF Mapped
    <3>2. pt[p][Image].pfn \in Frame  BY <1>1, <3>1 DEF TypeOK, PTE
    <3>3. pt[p][Image].pfn \in Kept(p)  BY <2>3 DEF Kept
    <3>4. \A va \in Mine(t) : Ent(t, va) # None => Ent(t, va).pfn # pt[p][Image].pfn
      BY <1>1, <3>3, FramesDiffer
    <3>. QED  BY <1>7, <1>12, <2>3, <3>2, <3>4
  <2>. QED  BY <1>1, <1>4, <2>1, <2>2, <2>3 DEF Kernel
<1>15. Pages'
  <2>. SUFFICES ASSUME NEW u \in alive
                PROVE  ListOK(u, Vm(u)') /\ Reads(u, Vm(u)', want[space[u]])
    BY <1>4 DEF Pages
  <2>1. CASE u = t
    <3>1. Vm(t)' = vm
      <4>1. Vm(t)' = [pt |-> vm.pt, plist |-> vm.plist, pnum |-> vm.pnum, mem |-> vm.mem,
                      card |-> vm.card, swap_block |-> vm.swap_block]
        BY <1>1, <1>2, <1>4 DEF Vm, TypeOK
      <4>. QED  BY <1>3, <4>1 DEF Vms
    <3>. QED  BY <1>3, <2>1, <3>1
  <2>2. CASE u # t
    <3>1. \A va \in Touches[u] : va \in Mine(u) \cup {Image}  BY <1>2, MineFacts
    <3>2. \A va \in Touches[u] : Ent(u, va) # None => mem'[Ent(u, va).pfn] = mem[Ent(u, va).pfn]
      BY <1>13, <2>2, <3>1
    <3>3. /\ swap_block <= swap_block' /\ swap_block' \in Nat
          /\ \A b \in 0 .. MaxSwap : b < swap_block => card'[b] = card[b]
      BY <1>3 DEF WritesOwn, Vms
    <3>4. plist'[u] = plist[u]  BY <1>1, <1>2, <2>2 DEF TypeOK
    <3>5. ListOK(u, Vm(u)') /\ Reads(u, Vm(u)', want'[space'[u]])
      BY <1>1, <1>4, <1>7, <2>2, <3>2, <3>3, <3>4, OthersKeep
    <3>. QED  BY <1>4, <3>5
  <2>. QED  BY <2>1, <2>2
<1>16. TlbOK'  BY DEF TlbOK
<1>. QED  BY <1>5, <1>8, <1>9, <1>11, <1>14, <1>15, <1>16 DEF IInv

\* A trap is noted with its page and operation.
LEMMA TrapTyped ==
  ASSUME TypeOK, NEW t \in Task, NEW va \in Va, NEW op \in Data \cup Reading, Traps(t, va, op)
  PROVE  instr' \in [Task -> {None} \cup [va : Va, op : Data \cup Reading, faults : Nat]]
<1>. DEFINE I == [va : Va, op : Data \cup Reading, faults : Nat]
            k == IF instr[t] = None THEN 1 ELSE instr[t].faults + 1
<1>1. instr \in [Task -> {None} \cup I]  BY DEF TypeOK
<1>2. k \in Nat  BY <1>1
<1>3. [va |-> va, op |-> op, faults |-> k] \in I  BY <1>2
<1>4. instr' = [instr EXCEPT ![t] = [va |-> va, op |-> op, faults |-> k]]  BY DEF Traps
<1>. HIDE DEF I, k
<1>. QED  BY <1>1, <1>3, <1>4 DEF I

\* Setting A and D bits leaves the pages where they are.
LEMMA SetBitsKeeps ==
  ASSUME IInv, NEW t \in alive, NEW va \in Touches[t], NEW op \in Data \cup Reading, SetBits(t, va, op)
  PROVE  IInv'
<1>1. TypeOK /\ Spaces /\ Mapped /\ Pages  BY DEF IInv
<1>2. t \in Task /\ space[t] \in Proc /\ va \in Va /\ Touches[t] \subseteq Va
  <2>1. t \in Task /\ space[t] \in Proc  BY <1>1 DEF TypeOK, Spaces
  <2>. QED  BY <2>1, MineFacts
<1>3. PICK table : table = [pt[space[t]] EXCEPT ![va] = set_attribute(@, op)]  OBVIOUS
<1>4. Ent(t, va) # None /\ Ent(t, va) \in PTE /\ pt[space[t]] \in [Va -> PTE \cup {None}] /\ Ent(t, va).v
  BY <1>1, <1>2 DEF SetBits, check_ad, Ent, TypeOK
<1>5. PICK e : e = set_attribute(Ent(t, va), op)  OBVIOUS
<1>6. e \in PTE /\ e.pfn = Ent(t, va).pfn /\ e.v = Ent(t, va).v
  <2>1. (Ent(t, va).d \/ op # "load") \in BOOLEAN  OBVIOUS
  <2>. QED  BY <1>4, <1>5, <2>1 DEF set_attribute, PTE
<1>7. table \in [Va -> PTE \cup {None}] /\ table[va] = e /\ e # None
      /\ \A wa \in Va : wa # va => table[wa] = pt[space[t]][wa]
  BY <1>2, <1>3, <1>4, <1>5, <1>6, ConstantFacts DEF Ent
<1>8. \A wa \in Va : /\ table[wa] = None <=> Ent(t, wa) = None
                     /\ Ent(t, wa) # None => table[wa].pfn = Ent(t, wa).pfn /\ table[wa].v = Ent(t, wa).v
  BY <1>4, <1>6, <1>7 DEF Ent
<1>9. PICK vm : vm = [Vm(t) EXCEPT !.pt = table]  OBVIOUS
<1>10. VmOK(t, Vm(t))  BY <1>1, VmStart
<1>11. /\ vm.pt = table /\ vm.plist = plist[t] /\ vm.pnum = pnum[t] /\ vm.mem = mem
       /\ vm.card = card /\ vm.swap_block = swap_block
       /\ Vm(t).pt = pt[space[t]] /\ Vm(t).plist = plist[t] /\ Vm(t).mem = mem
       /\ Vm(t).card = card /\ Vm(t).swap_block = swap_block
  BY <1>9 DEF Vm
<1>12. vm \in Vms
  <2>1. Vm(t) \in Vms  BY <1>10 DEF VmOK
  <2>. QED  BY <1>7, <1>9, <2>1 DEF Vms
<1>13. ListOK(t, vm) /\ Reads(t, vm, want[space[t]])
  <2>1. PICK vo : vo = Vm(t)  OBVIOUS
  <2>2. vo \in Vms /\ ListOK(t, vo) /\ Reads(t, vo, want[space[t]]) /\ vo.swap_block \in Nat
    BY <1>10, <2>1 DEF VmOK, Vms
  <2>3. \A wa \in Mine(t) \cup {Image} :
           /\ vm.pt[wa] = None <=> vo.pt[wa] = None
           /\ vo.pt[wa] # None => vm.pt[wa].pfn = vo.pt[wa].pfn /\ vm.pt[wa].v = vo.pt[wa].v
    BY <1>2, <1>8, <1>11, <2>1, MineFacts DEF Ent
  <2>4. /\ vm.plist = vo.plist /\ vm.mem = vo.mem /\ vm.card = vo.card
        /\ vo.swap_block <= vm.swap_block /\ vm.swap_block \in Nat
    BY <1>11, <2>1, <2>2
  <2>5. /\ \A wa \in Touches[t] : vo.pt[wa] # None => vm.mem[vo.pt[wa].pfn] = vo.mem[vo.pt[wa].pfn]
        /\ \A b \in 0 .. MaxSwap : b < vo.swap_block => vm.card[b] = vo.card[b]
    BY <2>4
  <2>. QED  BY <1>2, <2>2, <2>3, <2>4, <2>5, Untouched
<1>14. SameFrames(t, vm) /\ WritesOwn(t, vm)
  <2>1. swap_block <= swap_block  BY <1>1 DEF TypeOK
  <2>. QED  BY <1>8, <1>11, <2>1 DEF SameFrames, WritesOwn
<1>15. VmOK(t, vm)  BY <1>12, <1>13, <1>14 DEF VmOK
<1>16. vm.swap_block <= MaxSwap /\ UNCHANGED <<tasks, tables, frames, want>> /\ tlb' = None
       /\ mem' = vm.mem /\ card' = vm.card /\ swap_block' = vm.swap_block
  BY <1>1, <1>11 DEF SetBits, local_flush_tlb_all, TypeOK, swap
<1>17. pt' = [pt EXCEPT ![space[t]] = vm.pt]
  BY <1>1, <1>2, <1>3, <1>11 DEF SetBits, TypeOK
<1>18. plist' = [plist EXCEPT ![t] = vm.plist] /\ pnum' = [pnum EXCEPT ![t] = vm.pnum]
  BY <1>1, <1>2, <1>11 DEF SetBits, TypeOK
<1>19. instr' \in [Task -> {None} \cup [va : Va, op : Data \cup Reading, faults : Nat]]
  BY <1>1, <1>2, TrapTyped DEF SetBits
<1>. QED  BY <1>15, <1>16, <1>17, <1>18, <1>19, FaultKeeps

\* The same at the limit of pages and below it.
LEMMA LimitedKeeps ==
  ASSUME TypeOK, NEW t \in alive, NEW vm, VmOK(t, vm), vm.swap_block <= MaxSwap
  PROVE  VmOK(t, Limited(vm))
BY SwapKeeps DEF Limited

\* A page comes back from the card, and another may go there.
LEMMA SwapInKeeps ==
  ASSUME IInv, NEW t \in alive, NEW va \in Touches[t] \ {Image}, NEW op \in Data \cup Reading,
         SwapIn(t, va, op)
  PROVE  IInv'
<1>1. TypeOK /\ Spaces /\ Mapped /\ Apart /\ Pages  BY DEF IInv
<1>2. t \in Task /\ va \in Va
  <2>1. t \in Task  BY <1>1 DEF TypeOK
  <2>. QED  BY <2>1, MineFacts
<1>3. PICK vo : vo = Vm(t)  OBVIOUS
<1>4. VmOK(t, vo)  BY <1>1, <1>3, VmStart
<1>5. ~ check_ad(vo.pt, va) /\ OnCard(vo, va) # {} /\ vo.swap_block = swap_block /\ swap_block <= MaxSwap
  BY <1>1, <1>3 DEF SwapIn, Vm, TypeOK
<1>6. PICK vu : vu = do_unswap(vo, va)  OBVIOUS
<1>7. VmOK(t, vu) /\ vu.swap_block <= MaxSwap  BY <1>1, <1>4, <1>5, <1>6, UnswapKeeps
<1>8. PICK vm : vm = Limited(vu)  OBVIOUS
<1>9. VmOK(t, vm)  BY <1>1, <1>7, <1>8, LimitedKeeps
<1>10. /\ Becomes(t, vm) /\ pt' = [pt EXCEPT ![space[t]] = vm.pt]
       /\ plist' = [plist EXCEPT ![t] = vm.plist] /\ pnum' = [pnum EXCEPT ![t] = vm.pnum]
       /\ mem' = vm.mem /\ UNCHANGED <<tables, frames>>
  BY <1>3, <1>6, <1>8 DEF SwapIn
<1>11. /\ vm.swap_block <= MaxSwap /\ card' = vm.card /\ swap_block' = vm.swap_block /\ tlb' = None
       /\ UNCHANGED <<tasks, tables, frames, want>>
  BY <1>10 DEF Becomes, local_flush_tlb_all
<1>12. instr' \in [Task -> {None} \cup [va : Va, op : Data \cup Reading, faults : Nat]]
  BY <1>1, <1>2, TrapTyped DEF SwapIn
<1>. QED  BY <1>9, <1>10, <1>11, <1>12, FaultKeeps

-----------------------------------------------------------------------------
(* New frames. *)

\* A frame that allocPage must not hand out.
InUse(f) == Owned(f) \/ \E p \in Proc : f \in Kept(p)

\* Such a frame was handed out before, and is not free.
LEMMA InUseFacts ==
  ASSUME TypeOK, Spaces, Mapped, Apart, NEW f, InUse(f)
  PROVE  f \in Frame /\ f <= memCurr /\ ~ IsFree(f)
<1>1. CASE Owned(f)
  <2>1. \A t \in alive : \A va \in Mine(t) : t \in Task /\ space[t] \in Proc /\ va \in Va
    BY MineFacts DEF TypeOK, Spaces
  <2>2. f \in Frame  BY <1>1, <2>1 DEF Owned, Ent, TypeOK, PTE
  <2>. QED  BY <1>1, <2>2 DEF Apart
<1>2. CASE \E p \in Proc : f \in Kept(p)
  <2>1. PICK p \in Proc : f \in Kept(p)  BY <1>2
  <2>2. CASE f \in tables[p]  BY <2>1, <2>2 DEF TypeOK, Apart
  <2>3. CASE f \notin tables[p]
    <3>1. space[p] # None /\ f = pt[p][Image].pfn  BY <2>1, <2>3 DEF Kept
    <3>2. pt[p][Image] # None /\ Image \in Va  BY <3>1, MineFacts, ConstantFacts DEF Mapped, Va
    <3>3. f \in Frame  BY <3>1, <3>2 DEF TypeOK, PTE
    <3>. QED  BY <2>1, <3>3 DEF Apart
  <2>. QED  BY <2>2, <2>3
<1>. QED  BY <1>1, <1>2 DEF InUse

\* allocPage hands out frames nobody uses, each once.
LEMMA AllocOK ==
  ASSUME TypeOK, Spaces, Mapped, FreeOK, Apart, NEW n \in Nat, Alloc(n)
  PROVE  /\ \A i \in 1 .. n : /\ Taken(n)[i] \in Frame /\ Taken(n)[i] <= memCurr'
                              /\ ~ InUse(Taken(n)[i])
                              /\ \A k \in DOMAIN freePageList' : freePageList'[k] # Taken(n)[i]
         /\ \A i, j \in 1 .. n : Taken(n)[i] = Taken(n)[j] => i = j
         /\ memCurr' \in 0 .. MaxFrame /\ memCurr <= memCurr'
         /\ freePageList' \in Seq(Frame) /\ FreeOK'
         /\ \A f : IsFree(f)' => IsFree(f)
<1>. DEFINE L == Len(freePageList)
<1>1. /\ L \in Nat /\ DOMAIN freePageList = 1 .. L /\ memCurr \in Nat
      /\ \A i \in 1 .. L : freePageList[i] \in Frame /\ freePageList[i] <= memCurr
  <2>1. freePageList \in Seq(Frame) /\ memCurr \in Nat  BY DEF TypeOK
  <2>. QED  BY <2>1, LenProperties, ElementOfSeq DEF FreeOK
<1>2. /\ memCurr' = IF n <= L THEN memCurr ELSE memCurr + n - L
      /\ memCurr' <= MaxFrame /\ freePageList' = SubSeq(freePageList, n + 1, L)
  BY DEF Alloc
<1>3. memCurr' \in 0 .. MaxFrame /\ memCurr <= memCurr'  BY <1>1, <1>2, ConstantFacts
<1>4. \A i \in 1 .. n : Taken(n)[i] = IF i <= L THEN freePageList[i] ELSE memCurr + i - L
  BY DEF Taken
<1>. HIDE DEF L
<1>5. /\ freePageList' \in Seq(Frame)
      /\ Len(freePageList') = (IF n < L THEN L - n ELSE 0)
      /\ DOMAIN freePageList' = 1 .. Len(freePageList')
      /\ \A k \in 1 .. Len(freePageList') : n + k \in 1 .. L /\ freePageList'[k] = freePageList[n + k]
  <2>1. n + 1 \in Int /\ L \in Int /\ \A i \in n + 1 .. L : freePageList[i] \in Frame  BY <1>1
  <2>2. /\ SubSeq(freePageList, n + 1, L) \in Seq(Frame)
        /\ Len(SubSeq(freePageList, n + 1, L)) = IF n + 1 <= L THEN L - (n + 1) + 1 ELSE 0
        /\ \A i \in 1 .. L - (n + 1) + 1 : SubSeq(freePageList, n + 1, L)[i] = freePageList[n + 1 + i - 1]
    BY <2>1, SubSeqProperties
  <2>3. freePageList' \in Seq(Frame)  BY <1>2, <2>2
  <2>4. Len(freePageList') = (IF n < L THEN L - n ELSE 0)  BY <1>1, <1>2, <2>2
  <2>5. ASSUME NEW k \in 1 .. Len(freePageList')
        PROVE  n + k \in 1 .. L /\ freePageList'[k] = freePageList[n + k]
    <3>1. n < L /\ k \in 1 .. L - n  BY <1>1, <2>4
    <3>2. k \in 1 .. L - (n + 1) + 1 /\ n + 1 + k - 1 = n + k  BY <1>1, <3>1
    <3>3. freePageList'[k] = freePageList[n + k]  BY <1>2, <2>2, <3>2
    <3>. QED  BY <1>1, <3>1, <3>3
  <2>. QED  BY <2>3, <2>4, <2>5, LenProperties
<1>6. \A i, j \in 1 .. L : freePageList[i] = freePageList[j] => i = j  BY <1>1 DEF FreeOK
<1>7. \A f : IsFree(f)' => IsFree(f)  BY <1>1, <1>5 DEF IsFree
<1>8. FreeOK'
  <2>1. \A i \in DOMAIN freePageList' : freePageList'[i] <= memCurr'
    <3>1. \A i \in DOMAIN freePageList' : n + i \in 1 .. L /\ freePageList'[i] = freePageList[n + i]
      BY <1>5
    <3>2. \A i \in 1 .. L : freePageList[i] <= memCurr'
      <4>1. memCurr' \in Nat /\ \A i \in 1 .. L : freePageList[i] \in Nat  BY <1>1, <1>3, ConstantFacts DEF Frame
      <4>. QED  BY <1>1, <1>3, <4>1
    <3>. QED  BY <3>1, <3>2
  <2>2. ASSUME NEW i \in DOMAIN freePageList', NEW j \in DOMAIN freePageList', freePageList'[i] = freePageList'[j]
        PROVE  i = j
    <3>1. n + i \in 1 .. L /\ n + j \in 1 .. L /\ i \in Int /\ j \in Int /\ freePageList[n + i] = freePageList[n + j]
      BY <1>5, <2>2
    <3>2. n + i = n + j  BY <1>6, <3>1
    <3>. QED  BY <3>1, <3>2
  <2>. QED  BY <2>1, <2>2 DEF FreeOK
<1>9. ASSUME NEW i \in 1 .. n
      PROVE  /\ Taken(n)[i] \in Frame /\ Taken(n)[i] <= memCurr'
             /\ ~ InUse(Taken(n)[i])
             /\ \A k \in DOMAIN freePageList' : freePageList'[k] # Taken(n)[i]
  <2>1. CASE i <= L
    <3>1. Taken(n)[i] = freePageList[i] /\ i \in 1 .. L  BY <1>1, <1>4, <2>1
    <3>2. Taken(n)[i] \in Frame /\ Taken(n)[i] <= memCurr'  BY <1>1, <1>3, <3>1 DEF Frame
    <3>3. IsFree(Taken(n)[i])  BY <1>1, <3>1 DEF IsFree
    <3>4. ~ InUse(Taken(n)[i])  BY <3>3, InUseFacts
    <3>5. \A k \in 1 .. Len(freePageList') : n + k # i  BY <1>5
    <3>6. \A k \in DOMAIN freePageList' : freePageList'[k] # Taken(n)[i]  BY <1>5, <1>6, <3>1, <3>5
    <3>. QED  BY <3>2, <3>4, <3>6
  <2>2. CASE ~ (i <= L)
    <3>1. Taken(n)[i] = memCurr + i - L  BY <1>4, <2>2
    <3>2. memCurr + i - L \in Frame /\ memCurr + i - L <= memCurr' /\ ~ (memCurr + i - L <= memCurr)
      BY <1>1, <1>2, <2>2, ConstantFacts DEF Frame
    <3>3. ~ InUse(Taken(n)[i])  BY <3>1, <3>2, InUseFacts
    <3>4. ~ IsFree(Taken(n)[i])  BY <1>1, <3>1, <3>2 DEF IsFree
    <3>5. \A k \in DOMAIN freePageList' : freePageList'[k] # Taken(n)[i]
      BY <1>5, <1>1, <3>4 DEF IsFree
    <3>. QED  BY <3>1, <3>2, <3>3, <3>5
  <2>. QED  BY <2>1, <2>2
<1>10. ASSUME NEW i \in 1 .. n, NEW j \in 1 .. n, Taken(n)[i] = Taken(n)[j] PROVE i = j
  <2>1. CASE i <= L /\ j <= L
    <3>1. i \in 1 .. L /\ j \in 1 .. L /\ freePageList[i] = freePageList[j]  BY <1>1, <1>4, <1>10, <2>1
    <3>. QED  BY <1>6, <3>1
  <2>2. CASE ~ (i <= L) /\ ~ (j <= L)
    <3>1. memCurr + i - L = memCurr + j - L  BY <1>4, <1>10, <2>2
    <3>. QED  BY <1>1, <3>1
  <2>3. CASE i <= L /\ ~ (j <= L)
    <3>1. i \in 1 .. L /\ freePageList[i] = memCurr + j - L  BY <1>1, <1>4, <1>10, <2>3
    <3>2. freePageList[i] <= memCurr  BY <1>1, <3>1
    <3>. QED  BY <1>1, <2>3, <3>1, <3>2
  <2>4. CASE ~ (i <= L) /\ j <= L
    <3>1. j \in 1 .. L /\ freePageList[j] = memCurr + i - L  BY <1>1, <1>4, <1>10, <2>4
    <3>2. freePageList[j] <= memCurr  BY <1>1, <3>1
    <3>. QED  BY <1>1, <2>4, <3>1, <3>2
  <2>. QED  BY <2>1, <2>2, <2>3, <2>4
<1>. QED  BY <1>3, <1>5, <1>7, <1>8, <1>9, <1>10

\* How a step uses the frames F it gets from allocPage: F[i] for a table or an
\* image if i is in kept, for the page wa of u if <<i, u, wa>> is in given.
GivesOut(n, F, kept, given) ==
  /\ kept \subseteq 1 .. n
  /\ \A i, u, wa : <<i, u, wa>> \in given => i \in (1 .. n) \ kept
  /\ \A i, u, wa, v, xa : <<i, u, wa>> \in given /\ <<i, v, xa>> \in given => u = v /\ wa = xa
  /\ \A p \in Proc : \A f \in Kept(p)' : f \in Kept(p) \/ \E i \in kept : f = F[i]
  /\ \A u \in alive' : \A wa \in Mine(u) : Ent(u, wa)' # None =>
        \/ u \in alive /\ Ent(u, wa) # None /\ Ent(u, wa)'.pfn = Ent(u, wa).pfn
        \/ \E i : <<i, u, wa>> \in given /\ Ent(u, wa)'.pfn = F[i]

\* Frames stay apart when new ones are handed out like that.
LEMMA Grown ==
  ASSUME TypeOK, Spaces, Mapped, FreeOK, Apart, NEW n \in Nat, Alloc(n), NEW F, F = Taken(n),
         NEW kept, NEW given, GivesOut(n, F, kept, given)
  PROVE  FreeOK' /\ Apart'
<1>0. /\ kept \subseteq 1 .. n
      /\ \A i, u, wa : <<i, u, wa>> \in given => i \in (1 .. n) \ kept
      /\ \A i, u, wa, v, xa : <<i, u, wa>> \in given /\ <<i, v, xa>> \in given => u = v /\ wa = xa
      /\ \A p \in Proc : \A f \in Kept(p)' : f \in Kept(p) \/ \E i \in kept : f = F[i]
      /\ \A u \in alive' : \A wa \in Mine(u) : Ent(u, wa)' # None =>
           \/ u \in alive /\ Ent(u, wa) # None /\ Ent(u, wa)'.pfn = Ent(u, wa).pfn
           \/ \E i : <<i, u, wa>> \in given /\ Ent(u, wa)'.pfn = F[i]
  BY DEF GivesOut
<1>1. /\ \A i \in 1 .. n : /\ F[i] \in Frame /\ F[i] <= memCurr' /\ ~ InUse(F[i])
                           /\ \A k \in DOMAIN freePageList' : freePageList'[k] # F[i]
      /\ \A i, j \in 1 .. n : F[i] = F[j] => i = j
      /\ memCurr' \in 0 .. MaxFrame /\ memCurr <= memCurr' /\ FreeOK'
      /\ \A f : IsFree(f)' => IsFree(f)
  BY AllocOK
<1>2. \A f : Owned(f)' => Owned(f) \/ \E i \in (1 .. n) \ kept : f = F[i]
  <2>. SUFFICES ASSUME NEW f, Owned(f)', ~ Owned(f) PROVE \E i \in (1 .. n) \ kept : f = F[i]
    OBVIOUS
  <2>1. PICK u \in alive' : \E wa \in Mine(u) : Ent(u, wa)' # None /\ Ent(u, wa)'.pfn = f  BY DEF Owned
  <2>2. PICK wa \in Mine(u) : Ent(u, wa)' # None /\ Ent(u, wa)'.pfn = f  BY <2>1
  <2>3. ~ (u \in alive /\ Ent(u, wa) # None /\ Ent(u, wa)'.pfn = Ent(u, wa).pfn)  BY <2>2 DEF Owned
  <2>4. PICK i : <<i, u, wa>> \in given /\ Ent(u, wa)'.pfn = F[i]  BY <1>0, <2>2, <2>3
  <2>. QED  BY <1>0, <2>2, <2>4
<1>3. \A i \in 1 .. n : ~ IsFree(F[i])'
  <2>1. ASSUME NEW i \in 1 .. n, NEW f, f = F[i] PROVE ~ IsFree(f)'  BY <1>1, <2>1 DEF IsFree
  <2>. QED  BY <1>1, <2>1 DEF IsFree
<1>4. \A f : InUse(f) => f \in Frame /\ f <= memCurr' /\ ~ IsFree(f)'
  <2>1. \A f : InUse(f) => f \in Frame /\ f <= memCurr /\ ~ IsFree(f)  BY InUseFacts
  <2>2. memCurr \in Nat /\ memCurr' \in Nat /\ \A f \in Frame : f \in Nat
    BY <1>1, ConstantFacts DEF TypeOK, Frame
  <2>. QED  BY <1>1, <2>1, <2>2
<1>5. ASSUME NEW p \in Proc, NEW f \in Kept(p)'
      PROVE  f <= memCurr' /\ ~ IsFree(f)' /\ ~ Owned(f)'
  <2>1. CASE f \in Kept(p)
    <3>1. InUse(f) /\ ~ Owned(f)  BY <2>1 DEF InUse, Apart
    <3>2. \A i \in 1 .. n : F[i] # f  BY <1>1, <3>1
    <3>. QED  BY <1>2, <1>4, <3>1, <3>2
  <2>2. CASE \E i \in kept : f = F[i]
    <3>1. PICK i \in kept : f = F[i]  BY <2>2
    <3>2. i \in 1 .. n /\ ~ Owned(f)  BY <1>0, <1>1, <3>1 DEF InUse
    <3>3. \A j \in (1 .. n) \ kept : F[j] # f  BY <1>1, <3>1, <3>2
    <3>5. ~ Owned(f)'  BY <1>2, <3>2, <3>3
    <3>4. ~ IsFree(f)'  BY <1>3, <3>1, <3>2
    <3>. QED  BY <1>1, <3>1, <3>2, <3>4, <3>5
  <2>. QED  BY <1>0, <1>5, <2>1, <2>2
<1>6. ASSUME NEW f \in Frame, Owned(f)' PROVE f <= memCurr' /\ ~ IsFree(f)'
  <2>1. CASE Owned(f)  BY <1>4, <2>1 DEF InUse
  <2>2. CASE ~ Owned(f)
    <3>1. PICK i \in 1 .. n : f = F[i]  BY <1>2, <1>6, <2>2
    <3>. QED  BY <1>1, <1>3, <3>1
  <2>. QED  BY <2>1, <2>2
<1>7. ASSUME NEW u \in alive', NEW v \in alive', NEW wa \in Mine(u), NEW xa \in Mine(v),
             Ent(u, wa)' # None, Ent(v, xa)' # None, Ent(u, wa)'.pfn = Ent(v, xa)'.pfn
      PROVE  u = v /\ wa = xa
  <2>. DEFINE old(x, ya) == x \in alive /\ Ent(x, ya) # None /\ Ent(x, ya)'.pfn = Ent(x, ya).pfn
              new(x, ya) == \E i \in 1 .. n : <<i, x, ya>> \in given /\ Ent(x, ya)'.pfn = F[i]
  <2>1. (old(u, wa) \/ new(u, wa)) /\ (old(v, xa) \/ new(v, xa))  BY <1>0, <1>7
  <2>2. old(u, wa) => Owned(Ent(u, wa).pfn)  BY DEF Owned
  <2>3. old(v, xa) => Owned(Ent(v, xa).pfn)  BY DEF Owned
  <2>4. CASE old(u, wa) /\ old(v, xa)
    <3>1. /\ u \in alive /\ v \in alive /\ Ent(u, wa) # None /\ Ent(v, xa) # None
          /\ Ent(u, wa).pfn = Ent(v, xa).pfn
      BY <1>7, <2>4
    <3>. HIDE DEF old, new
    <3>. QED  BY <3>1 DEF Apart
  <2>5. CASE new(u, wa) /\ new(v, xa)
    <3>1. PICK i \in 1 .. n : <<i, u, wa>> \in given /\ Ent(u, wa)'.pfn = F[i]  BY <2>5
    <3>2. PICK j \in 1 .. n : <<j, v, xa>> \in given /\ Ent(v, xa)'.pfn = F[j]  BY <2>5
    <3>. HIDE DEF old, new
    <3>3. F[i] = F[j]  BY <1>7, <3>1, <3>2
    <3>4. i = j  BY <1>1, <3>3
    <3>. QED  BY <1>0, <3>1, <3>2, <3>4
  <2>6. CASE old(u, wa) /\ new(v, xa)  BY <1>1, <1>7, <2>2, <2>6 DEF InUse
  <2>7. CASE new(u, wa) /\ old(v, xa)  BY <1>1, <1>7, <2>3, <2>7 DEF InUse
  <2>. QED  BY <2>1, <2>4, <2>5, <2>6, <2>7
<1>. QED  BY <1>1, <1>5, <1>6, <1>7 DEF Apart

\* A page neither in memory nor on the card was never written.
LEMMA NewPage ==
  ASSUME TypeOK, Spaces, Mapped, Pages, NEW t \in alive, NEW va \in Touches[t] \ {Image},
         ~ check_ad(pt[space[t]], va), OnCard(Vm(t), va) = {}
  PROVE  Ent(t, va) = None /\ va \in Page
<1>1. t \in Task  BY DEF TypeOK
<1>2. PICK vm : vm = Vm(t)  OBVIOUS
<1>3. ListOK(t, vm) /\ Reads(t, vm, want[space[t]]) /\ vm.pt = pt[space[t]]  BY <1>2 DEF Pages, Vm
<1>4. Ent(t, va) = None
  <2>. SUFFICES ASSUME Ent(t, va) # None PROVE FALSE  OBVIOUS
  <2>1. vm.pt[va] # None /\ ~ vm.pt[va].v  BY <1>3 DEF check_ad, Ent
  <2>2. OnTheCard(vm, va, want[space[t]][va])  BY <1>3, <2>1 DEF Reads
  <2>3. PICK k \in DOMAIN vm.plist : vm.plist[k].va = va /\ vm.plist[k].atds = 1
    BY <2>2 DEF OnTheCard
  <2>4. vm.plist \in Seq(PageTs)  BY <1>1, <1>2 DEF TypeOK, Vm
  <2>5. DOMAIN vm.plist = 1 .. Len(vm.plist) /\ Len(vm.plist) \in Nat  BY <2>4, LenProperties
  <2>6. \A j \in 1 .. k - 1 : j \in DOMAIN vm.plist /\ j # k  BY <2>3, <2>5
  <2>7. \A j \in 1 .. k - 1 : vm.plist[j].va # va  BY <1>3, <2>3, <2>6 DEF ListOK
  <2>8. k \in OnCard(vm, va)  BY <2>3, <2>7 DEF OnCard
  <2>. QED  BY <1>2, <2>8
<1>5. va # UserStack(t)  BY <1>4 DEF Mapped
<1>6. va \in Mine(t) /\ va # KernelStack(t)  BY <1>1, MineFacts
<1>. QED  BY <1>1, <1>4, <1>5, <1>6, MineFacts

\* A new page reads as zero, in a frame that nobody uses.
LEMMA MapNewKeeps ==
  ASSUME IInv, NEW t \in alive, NEW va \in Touches[t] \ {Image}, NEW op \in Data \cup Reading,
         MapNew(t, va, op)
  PROVE  IInv'
<1>1. TypeOK /\ Spaces /\ Mapped /\ FreeOK /\ Apart /\ Pages /\ Kernel  BY DEF IInv
<1>2. t \in Task /\ space[t] \in Proc /\ \A u \in alive : u \in Task /\ space[u] \in Proc
  BY <1>1 DEF TypeOK, Spaces
<1>3. va \in Va /\ va \in Mine(t) /\ va \in Touches[t]  BY <1>2, MineFacts
<1>4. Ent(t, va) = None /\ va \in Page  BY <1>1, NewPage DEF MapNew
<1>5. PICK vm : vm = Limited(Vm(t))  OBVIOUS
<1>6. VmOK(t, vm)
  <2>1. PICK vo : vo = Vm(t)  OBVIOUS
  <2>2. VmOK(t, vo) /\ vo.swap_block <= MaxSwap  BY <1>1, <2>1, VmStart DEF Vm, TypeOK
  <2>. QED  BY <1>1, <1>5, <2>1, <2>2, LimitedKeeps
<1>7. vm \in Vms /\ SameFrames(t, vm) /\ ListOK(t, vm) /\ Reads(t, vm, want[space[t]]) /\ WritesOwn(t, vm)
  BY <1>6 DEF VmOK
<1>8. PICK n \in {1, 2} : n = IF TableMissing(t) THEN 2 ELSE 1  OBVIOUS
<1>9. PICK F : F = Taken(n)  OBVIOUS
<1>10. PICK f : f = F[n]  OBVIOUS
<1>11. /\ Alloc(n) /\ vm.swap_block <= MaxSwap
       /\ card' = vm.card /\ swap_block' = vm.swap_block /\ tlb' = None
       /\ UNCHANGED <<alive, current, space, want>>
       /\ tables' = [tables EXCEPT ![space[t]] = IF n = 2 THEN @ \cup {F[1]} ELSE @]
       /\ mem' = [g \in Frame |-> IF n = 2 /\ g = F[1] THEN "table" ELSE Zeroed(vm.mem, n)[g]]
       /\ pt' = [pt EXCEPT ![space[t]] = [vm.pt EXCEPT ![va] = Entry(f, FALSE)]]
       /\ plist' = [plist EXCEPT ![t] = Append(vm.plist, PageT(va, f, 0))]
       /\ pnum' = [pnum EXCEPT ![t] = vm.pnum + 1]
  BY <1>5, <1>8, <1>9, <1>10 DEF MapNew, Becomes, local_flush_tlb_all, tasks
<1>12. /\ \A i \in 1 .. n : F[i] \in Frame /\ ~ InUse(F[i])
       /\ \A i, j \in 1 .. n : F[i] = F[j] => i = j
       /\ memCurr' \in 0 .. MaxFrame /\ freePageList' \in Seq(Frame) /\ FreeOK'
  BY <1>1, <1>9, <1>11, AllocOK
<1>13. f \in Frame /\ ~ InUse(f) /\ n \in 1 .. n /\ (n = 2 => F[1] # f /\ F[1] \in Frame)
  BY <1>10, <1>12
<1>14. /\ mem' \in [Frame -> Contents] /\ mem'[f] = "0" /\ (n = 2 => mem'[F[1]] = "table")
       /\ \A g \in Frame : InUse(g) => mem'[g] = vm.mem[g]
  <2>1. vm.mem \in [Frame -> Contents]  BY <1>7 DEF Vms
  <2>2. \A g \in Frame : Zeroed(vm.mem, n)[g] = IF \E i \in 1 .. n : g = F[i] THEN "0" ELSE vm.mem[g]
    BY <1>9 DEF Zeroed
  <2>3. "0" \in Contents /\ "table" \in Contents  BY DEF Contents
  <2>4. \A g \in Frame : Zeroed(vm.mem, n)[g] \in Contents  BY <2>1, <2>2, <2>3
  <2>5. mem' \in [Frame -> Contents]  BY <1>11, <2>3, <2>4
  <2>6. mem'[f] = "0"  BY <1>10, <1>11, <1>13, <2>2
  <2>7. n = 2 => mem'[F[1]] = "table"  BY <1>11, <1>13
  <2>8. \A g \in Frame : InUse(g) => mem'[g] = vm.mem[g]
    <3>1. \A g \in Frame : InUse(g) => \A i \in 1 .. n : F[i] # g  BY <1>12
    <3>2. 1 \in 1 .. n  OBVIOUS
    <3>. QED  BY <1>11, <2>2, <3>1, <3>2
  <2>. QED  BY <2>5, <2>6, <2>7, <2>8
<1>15. PICK e : e = Entry(f, FALSE)  OBVIOUS
<1>16. e \in PTE /\ e # None /\ e.pfn = f /\ e.v
  <2>1. e = [pfn |-> f, v |-> TRUE, a |-> FALSE, d |-> FALSE]  BY <1>15 DEF Entry
  <2>2. e \in PTE /\ e.pfn = f /\ e.v  BY <1>13, <2>1 DEF PTE
  <2>. QED  BY <2>2, ConstantFacts
<1>17. TypeOK'
  <2>1. vm.swap_block \in 0 .. MaxSwap  BY <1>7, <1>11, ConstantFacts DEF Vms
  <2>2. pt' \in [Proc -> [Va -> PTE \cup {None}]]
    BY <1>1, <1>2, <1>7, <1>11, <1>15, <1>16 DEF TypeOK, Vms
  <2>3. plist' \in [Task -> Seq(PageTs)]
    <3>1. PageT(va, f, 0) \in PageTs  BY <1>3, <1>13, ConstantFacts DEF PageT, PageTs
    <3>2. Append(vm.plist, PageT(va, f, 0)) \in Seq(PageTs)  BY <1>7, <3>1, AppendProperties DEF Vms
    <3>. QED  BY <1>1, <1>11, <3>2 DEF TypeOK
  <2>4. pnum' \in [Task -> Int]
    <3>1. vm.pnum + 1 \in Int  BY <1>7 DEF Vms
    <3>. QED  BY <1>1, <1>11, <3>1 DEF TypeOK
  <2>5. tables' \in [Proc -> SUBSET Frame]  BY <1>1, <1>11, <1>13 DEF TypeOK
  <2>6. card' \in [0 .. MaxSwap -> Contents]  BY <1>7, <1>11 DEF Vms
  <2>7. instr' \in [Task -> {None} \cup [va : Va, op : Data \cup Reading, faults : Nat]]
    BY <1>1, <1>2, <1>3, TrapTyped DEF MapNew
  <2>. QED  BY <1>1, <1>11, <1>12, <1>14, <2>1, <2>2, <2>3, <2>4, <2>5, <2>6, <2>7 DEF TypeOK
<1>18. /\ pt'[space[t]][va] = e
       /\ \A p \in Proc : \A wa \in Va : p # space[t] \/ wa # va =>
            /\ pt'[p][wa] = None <=> pt[p][wa] = None
            /\ pt[p][wa] # None => /\ pt'[p][wa].pfn = pt[p][wa].pfn
                                   /\ p # space[t] \/ wa \notin Mine(t) => pt'[p][wa].v = pt[p][wa].v
  BY <1>1, <1>2, <1>3, <1>7, <1>11, <1>15 DEF SameFrames, Ent, TypeOK, Vms
<1>19. \A u \in alive : \A wa \in Mine(u) \cup {Image} :
         /\ wa \in Va
         /\ u # t => (space[u] # space[t] \/ wa # va) /\ (space[u] # space[t] \/ wa \notin Mine(t))
  <2>1. \A u \in alive : \A wa \in Mine(u) \cup {Image} : wa \in Va  BY <1>2, MineFacts
  <2>2. \A u \in alive \ {t} : \A wa \in Mine(u) \cup {Image} : space[u] # space[t] \/ wa \notin Mine(t)
    BY <1>1, <1>2, SameSpace, MineFacts
  <2>. QED  BY <1>3, <2>1, <2>2
<1>20. \A u \in alive : \A wa \in Mine(u) \cup {Image} : u # t \/ wa # va =>
         /\ Ent(u, wa)' = None <=> Ent(u, wa) = None
         /\ Ent(u, wa) # None => Ent(u, wa)'.pfn = Ent(u, wa).pfn
         /\ Ent(u, wa) # None /\ u # t => Ent(u, wa)'.v = Ent(u, wa).v
  <2>. SUFFICES ASSUME NEW u \in alive, NEW wa \in Mine(u) \cup {Image}, u # t \/ wa # va
                PROVE  /\ Ent(u, wa)' = None <=> Ent(u, wa) = None
                       /\ Ent(u, wa) # None => Ent(u, wa)'.pfn = Ent(u, wa).pfn
                       /\ Ent(u, wa) # None /\ u # t => Ent(u, wa)'.v = Ent(u, wa).v
    OBVIOUS
  <2>1. PICK p \in Proc : p = space[u]  BY <1>2
  <2>2. Ent(u, wa) = pt[p][wa] /\ Ent(u, wa)' = pt'[p][wa]  BY <1>11, <2>1 DEF Ent
  <2>3. wa \in Va /\ (p # space[t] \/ wa # va) /\ (u # t => p # space[t] \/ wa \notin Mine(t))
    BY <1>19, <2>1
  <2>. QED  BY <1>18, <2>2, <2>3
<1>21. Image \in Va /\ Image # va /\ \A p \in Proc : space[p] # None => /\ pt'[p][Image] # None /\ pt'[p][Image].v
                                                          /\ pt'[p][Image].pfn = pt[p][Image].pfn
  BY <1>1, <1>2, <1>18, MineFacts DEF Mapped
<1>22. Spaces'
  <2>1. ASSUME NEW u \in Thread, space[u] = None, NEW p \in Proc, NEW wa \in Touches[u] \cap Page
        PROVE  pt'[p][wa] = None
    <3>1. pt[p][wa] = None  BY <1>1, <2>1 DEF Spaces
    <3>2. u # t /\ u \in Task  BY <1>2, <2>1, ConstantFacts
    <3>3. wa \in Mine(u) /\ wa \in Va  BY <2>1, <3>2, MineFacts, ConstantFacts
    <3>4. wa # va  BY <1>2, <1>3, <3>2, <3>3, MineApart
    <3>. QED  BY <1>18, <3>1, <3>3, <3>4
  <2>. QED  BY <1>1, <1>11, <2>1 DEF Spaces
<1>23. Mapped'
  <2>1. ASSUME NEW p \in Proc, NEW wa \in Page, pt'[p][wa] = None PROVE want[p][wa] = "0"
    <3>1. wa \in Va  BY <1>2, MineFacts
    <3>2. pt[p][wa] = None  BY <1>16, <1>18, <2>1, <3>1
    <3>. QED  BY <1>1, <3>2 DEF Mapped
  <2>2. \A u \in alive : \A wa \in {UserStack(u), KernelStack(u)} : Ent(u, wa)' # None
    <3>1. \A u \in alive : \A wa \in {UserStack(u), KernelStack(u)} : wa \in Mine(u) /\ Ent(u, wa) # None
      BY <1>1, <1>2, MineFacts DEF Mapped
    <3>. QED  BY <1>4, <1>20, <3>1
  <2>. QED  BY <1>11, <1>21, <2>1, <2>2 DEF Mapped
<1>24. FreeOK' /\ Apart'
  <2>7. PICK kept : kept = (1 .. n) \ {n}  OBVIOUS
  <2>8. PICK given : given = {<<n, t, va>>}  OBVIOUS
  <2>1. \A p \in Proc : \A g \in Kept(p)' : g \in Kept(p) \/ \E i \in kept : g = F[i]
    <3>1. \A p \in Proc : \A g \in tables'[p] : g \in tables[p] \/ (n = 2 /\ g = F[1])
      BY <1>1, <1>2, <1>11 DEF TypeOK
    <3>2. n = 2 => 1 \in kept  BY <2>7
    <3>3. \A p \in Proc : (IF space[p] = None THEN {} ELSE {pt'[p][Image].pfn})
                        = (IF space[p] = None THEN {} ELSE {pt[p][Image].pfn})
      BY <1>21
    <3>. QED  BY <1>11, <3>1, <3>2, <3>3 DEF Kept
  <2>6. ASSUME NEW u \in alive', NEW wa \in Mine(u), Ent(u, wa)' # None
        PROVE  \/ u \in alive /\ Ent(u, wa) # None /\ Ent(u, wa)'.pfn = Ent(u, wa).pfn
               \/ \E i : <<i, u, wa>> \in given /\ Ent(u, wa)'.pfn = F[i]
    <3>1. u \in alive  BY <1>11
    <3>2. CASE u = t /\ wa = va
      <4>1. Ent(t, va)' = e  BY <1>11, <1>18 DEF Ent
      <4>. QED  BY <1>10, <1>16, <2>8, <3>2, <4>1
    <3>3. CASE ~ (u = t /\ wa = va)  BY <1>20, <2>6, <3>1, <3>3
    <3>. QED  BY <3>2, <3>3
  <2>2. \A u \in alive' : \A wa \in Mine(u) : Ent(u, wa)' # None =>
          \/ u \in alive /\ Ent(u, wa) # None /\ Ent(u, wa)'.pfn = Ent(u, wa).pfn
          \/ \E i : <<i, u, wa>> \in given /\ Ent(u, wa)'.pfn = F[i]
    BY <2>6
  <2>3. \A i, u, wa : <<i, u, wa>> \in given => i \in (1 .. n) \ kept  BY <1>13, <2>7, <2>8
  <2>4. \A i, u, wa, v, xa : <<i, u, wa>> \in given /\ <<i, v, xa>> \in given => u = v /\ wa = xa
    BY <2>8
  <2>5. kept \subseteq 1 .. n /\ n \in Nat  BY <2>7
  <2>9. GivesOut(n, F, kept, given)  BY <2>1, <2>2, <2>3, <2>4, <2>5 DEF GivesOut
  <2>. QED  BY <1>1, <1>9, <1>11, <2>5, <2>9, Grown
\* What the frames in use hold.
<1>25. \A u \in alive : \A wa \in Mine(u) \cup {Image} : Ent(u, wa) # None =>
         /\ Ent(u, wa).pfn \in Frame /\ InUse(Ent(u, wa).pfn)
         /\ mem'[Ent(u, wa).pfn] = vm.mem[Ent(u, wa).pfn]
         /\ u # t \/ wa \notin Touches[t] \ {Image} => vm.mem[Ent(u, wa).pfn] = mem[Ent(u, wa).pfn]
  <2>. SUFFICES ASSUME NEW u \in alive, NEW wa \in Mine(u) \cup {Image}, Ent(u, wa) # None
                PROVE  /\ Ent(u, wa).pfn \in Frame /\ InUse(Ent(u, wa).pfn)
                       /\ mem'[Ent(u, wa).pfn] = vm.mem[Ent(u, wa).pfn]
                       /\ u # t \/ wa \notin Touches[t] \ {Image} => vm.mem[Ent(u, wa).pfn] = mem[Ent(u, wa).pfn]
    OBVIOUS
  <2>1. Ent(u, wa).pfn \in Frame  BY <1>1, <1>2, <1>19 DEF Ent, TypeOK, PTE
  <2>2. InUse(Ent(u, wa).pfn)
    <3>1. CASE wa \in Mine(u)  BY <3>1 DEF InUse, Owned
    <3>2. CASE wa = Image
      <4>1. space[space[u]] # None  BY <1>1, <1>2 DEF Spaces
      <4>2. Ent(u, wa).pfn \in Kept(space[u])  BY <3>2, <4>1 DEF Kept, Ent
      <4>. QED  BY <1>2, <4>2 DEF InUse
    <3>. QED  BY <3>1, <3>2
  <2>3. ASSUME u # t \/ wa \notin Touches[t] \ {Image}
        PROVE  vm.mem[Ent(u, wa).pfn] = mem[Ent(u, wa).pfn]
    <3>1. \A xa \in Touches[t] \ {Image} : xa \in Mine(t)  BY <1>2, MineFacts
    <3>2. \A xa \in Touches[t] \ {Image} : Ent(t, xa) # None => Ent(t, xa).pfn # Ent(u, wa).pfn
      BY <1>1, <2>3, <3>1, FramesDiffer
    <3>. QED  BY <1>7, <2>1, <3>2 DEF WritesOwn
  <2>. QED  BY <1>14, <2>1, <2>2, <2>3
<1>26. Kernel'
  <2>1. ASSUME NEW p \in Proc, NEW g \in tables'[p] PROVE mem'[g] = "table"
    <3>1. CASE g \in tables[p]
      <4>1. g \in Frame /\ mem[g] = "table" /\ InUse(g)
        BY <1>1, <3>1 DEF TypeOK, Kernel, InUse, Kept
      <4>2. \A xa \in Touches[t] \ {Image} : Ent(t, xa) # None => Ent(t, xa).pfn # g
        <5>1. \A xa \in Touches[t] \ {Image} : xa \in Mine(t)  BY <1>2, MineFacts
        <5>. QED  BY <1>1, <3>1, <5>1, FramesDiffer
      <4>3. vm.mem[g] = mem[g]  BY <1>7, <4>1, <4>2 DEF WritesOwn
      <4>. QED  BY <1>14, <4>1, <4>3
    <3>2. CASE g \notin tables[p]
      <4>1. n = 2 /\ g = F[1]  BY <1>1, <1>2, <1>11, <2>1, <3>2 DEF TypeOK
      <4>. QED  BY <1>14, <4>1
    <3>. QED  BY <3>1, <3>2
  <2>2. \A u \in alive : mem'[Ent(u, KernelStack(u))'.pfn] = "kstack"
    <3>1. \A u \in alive : KernelStack(u) \in Mine(u) /\ Ent(u, KernelStack(u)) # None
                          /\ (u = t => KernelStack(u) \notin Touches[t])
      BY <1>1, <1>2, MineFacts DEF Mapped
    <3>2. \A u \in alive : mem[Ent(u, KernelStack(u)).pfn] = "kstack"  BY <1>1 DEF Kernel
    <3>. QED  BY <1>4, <1>20, <1>25, <3>1, <3>2
  <2>3. ASSUME NEW p \in Proc, space[p] # None PROVE mem'[pt'[p][Image].pfn] = want[p][Image]
    <3>1. PICK g : g = pt[p][Image].pfn  OBVIOUS
    <3>2. g \in Kept(p) /\ InUse(g)  BY <2>3, <3>1 DEF Kept, InUse
    <3>3. g \in Frame  BY <1>1, <3>2, InUseFacts
    <3>4. \A xa \in Touches[t] \ {Image} : Ent(t, xa) # None => Ent(t, xa).pfn # g
      <4>1. \A xa \in Touches[t] \ {Image} : xa \in Mine(t)  BY <1>2, MineFacts
      <4>. QED  BY <1>1, <3>2, <4>1, FramesDiffer
    <3>5. vm.mem[g] = mem[g]  BY <1>7, <3>3, <3>4 DEF WritesOwn
    <3>6. mem[g] = want[p][Image]  BY <1>1, <2>3, <3>1 DEF Kernel
    <3>7. pt'[p][Image].pfn = g  BY <1>21, <2>3, <3>1
    <3>. QED  BY <1>14, <3>2, <3>3, <3>5, <3>6, <3>7
  <2>. QED  BY <1>11, <2>1, <2>2, <2>3 DEF Kernel
<1>27. ListOK(t, Vm(t)') /\ Reads(t, Vm(t)', want'[space'[t]])
  <2>1. PICK vn : vn = Vm(t)'  OBVIOUS
  <2>2. PICK l : l = vm.plist  OBVIOUS
  <2>3. PICK new : new = PageT(va, f, 0)  OBVIOUS
  <2>4. /\ new \in PageTs /\ new.va = va /\ new.pa = f /\ new.atds = 0
        /\ l \in Seq(PageTs) /\ Len(l) \in Nat /\ DOMAIN l = 1 .. Len(l)
        /\ \A i \in DOMAIN l : l[i] \in PageTs
    <3>1. new = [va |-> va, pa |-> f, atds |-> 0, block |-> 0]  BY <2>3 DEF PageT
    <3>2. new \in PageTs  BY <1>3, <1>13, <3>1, ConstantFacts DEF PageTs
    <3>3. l \in Seq(PageTs)  BY <1>7, <2>2 DEF Vms
    <3>. QED  BY <3>1, <3>2, <3>3, LenProperties, ElementOfSeq
  <2>5. /\ vn.plist = Append(l, new) /\ vn.mem = mem' /\ vn.card = vm.card
        /\ vn.swap_block = vm.swap_block /\ vn.pt = [vm.pt EXCEPT ![va] = e]
    <3>1. plist'[t] = Append(l, new)  BY <1>1, <1>2, <1>11, <2>2, <2>3 DEF TypeOK
    <3>2. pt'[space'[t]] = [vm.pt EXCEPT ![va] = e]  BY <1>1, <1>2, <1>11, <1>15 DEF TypeOK
    <3>. QED  BY <1>11, <2>1, <3>1, <3>2 DEF Vm
  <2>6. /\ vn.pt[va] = e /\ vm.pt[va] = None
        /\ \A wa \in Va : wa # va => vn.pt[wa] = vm.pt[wa]
    <3>1. vm.pt \in [Va -> PTE \cup {None}]  BY <1>7 DEF Vms
    <3>. QED  BY <1>3, <1>4, <1>7, <2>5, <3>1 DEF SameFrames
  <2>7. /\ DOMAIN vn.plist = 1 .. Len(l) + 1 /\ vn.plist[Len(l) + 1] = new
        /\ \A i \in 1 .. Len(l) : i \in DOMAIN vn.plist /\ i # Len(l) + 1 /\ vn.plist[i] = l[i]
    BY <2>4, <2>5, AppendProperties, LenProperties
  <2>8. \A i \in 1 .. Len(l) + 1 : i \in 1 .. Len(l) \/ i = Len(l) + 1  BY <2>4
  <2>9. \A i \in 1 .. Len(l) :
          /\ l[i].va \in Mine(t) /\ l[i].va \in Va /\ l[i].va # va
          /\ vn.pt[l[i].va] = vm.pt[l[i].va]
    <3>1. \A i \in 1 .. Len(l) : l[i].va \in Mine(t) /\ vm.pt[l[i].va] # None
      BY <1>7, <2>2, <2>4 DEF ListOK
    <3>. QED  BY <1>2, <2>6, <3>1, MineFacts
  <2>10. ListOK(t, vn)
    <3>1. ASSUME NEW i \in DOMAIN vn.plist
          PROVE  /\ vn.plist[i].va \in Mine(t)
                 /\ vn.pt[vn.plist[i].va] # None /\ vn.pt[vn.plist[i].va].pfn = vn.plist[i].pa
                 /\ vn.plist[i].atds = 0 => vn.pt[vn.plist[i].va].v
      <4>1. CASE i \in 1 .. Len(l)
        <5>1. vn.plist[i] = l[i] /\ i \in DOMAIN vm.plist /\ vm.plist[i] = l[i]
          BY <2>2, <2>4, <2>7, <4>1
        <5>. QED  BY <1>7, <2>9, <4>1, <5>1 DEF ListOK
      <4>2. CASE i = Len(l) + 1  BY <1>3, <1>16, <2>4, <2>6, <2>7, <4>2
      <4>. QED  BY <2>7, <2>8, <3>1, <4>1, <4>2
    <3>2. \A i, j \in 1 .. Len(l) : l[i].va = l[j].va => i = j
      BY <1>7, <2>2, <2>4 DEF ListOK
    <3>3. ASSUME NEW i \in DOMAIN vn.plist, NEW j \in DOMAIN vn.plist, vn.plist[i].va = vn.plist[j].va
          PROVE  i = j
      BY <2>4, <2>7, <2>8, <2>9, <3>2, <3>3
    <3>. QED  BY <3>1, <3>3 DEF ListOK
  <2>11. Reads(t, vn, want[space[t]])
    <3>. SUFFICES ASSUME NEW wa \in Touches[t], vn.pt[wa] # None
                  PROVE  IF vn.pt[wa].v THEN vn.mem[vn.pt[wa].pfn] = want[space[t]][wa]
                         ELSE OnTheCard(vn, wa, want[space[t]][wa])
      BY DEF Reads
    <3>1. CASE wa = va
      <4>1. want[space[t]][va] = "0"  BY <1>1, <1>2, <1>4 DEF Mapped, Ent
      <4>. QED  BY <1>14, <1>16, <2>5, <2>6, <3>1, <4>1
    <3>2. CASE wa # va
      <4>1. wa \in Va /\ wa \in Mine(t) \cup {Image}  BY <1>2, MineFacts
      <4>2. vn.pt[wa] = vm.pt[wa] /\ vm.pt[wa] # None /\ Ent(t, wa) # None
            /\ vm.pt[wa].pfn = Ent(t, wa).pfn
        BY <1>7, <2>6, <3>2, <4>1 DEF SameFrames
      <4>3. CASE vm.pt[wa].v
        <5>1. vm.mem[vm.pt[wa].pfn] = want[space[t]][wa]  BY <1>7, <4>2, <4>3 DEF Reads
        <5>2. mem'[vm.pt[wa].pfn] = vm.mem[vm.pt[wa].pfn]  BY <1>25, <4>1, <4>2
        <5>. QED  BY <2>5, <4>2, <4>3, <5>1, <5>2
      <4>4. CASE ~ vm.pt[wa].v
        <5>1. OnTheCard(vm, wa, want[space[t]][wa])  BY <1>7, <4>2, <4>4 DEF Reads
        <5>2. PICK k \in DOMAIN vm.plist : /\ vm.plist[k].va = wa /\ vm.plist[k].atds = 1
                                           /\ vm.plist[k].block < vm.swap_block
                                           /\ vm.card[vm.plist[k].block] = want[space[t]][wa]
          BY <5>1 DEF OnTheCard
        <5>3. k \in DOMAIN vn.plist /\ vn.plist[k] = vm.plist[k]  BY <2>2, <2>4, <2>7
        <5>4. OnTheCard(vn, wa, want[space[t]][wa])  BY <2>5, <5>2, <5>3 DEF OnTheCard
        <5>. QED  BY <4>2, <4>4, <5>4
      <4>. QED  BY <4>3, <4>4
    <3>. QED  BY <3>1, <3>2
  <2>. QED  BY <1>11, <2>1, <2>10, <2>11
<1>28. Pages'
  <2>1. ASSUME NEW u \in alive, u # t
        PROVE  ListOK(u, Vm(u)') /\ Reads(u, Vm(u)', want'[space'[u]])
    <3>1. space'[u] = space[u] /\ plist'[u] = plist[u]  BY <1>1, <1>2, <1>11, <2>1 DEF TypeOK
    <3>2. \A wa \in Mine(u) \cup {Image} :
            /\ Ent(u, wa)' = None <=> Ent(u, wa) = None
            /\ Ent(u, wa) # None => Ent(u, wa)'.pfn = Ent(u, wa).pfn /\ Ent(u, wa)'.v = Ent(u, wa).v
      BY <1>20, <2>1
    <3>3. \A wa \in Touches[u] : /\ want'[space[u]][wa] = want[space[u]][wa]
                                 /\ Ent(u, wa) # None => mem'[Ent(u, wa).pfn] = mem[Ent(u, wa).pfn]
      <4>1. \A wa \in Touches[u] : wa \in Mine(u) \cup {Image}  BY <1>2, MineFacts
      <4>. QED  BY <1>11, <1>25, <2>1, <4>1
    <3>4. /\ \A b \in 0 .. MaxSwap : b < swap_block => card'[b] = card[b]
          /\ swap_block <= swap_block' /\ swap_block' \in Nat
      BY <1>7, <1>11 DEF WritesOwn, Vms
    <3>. QED  BY <1>1, <3>1, <3>2, <3>3, <3>4, OthersKeep
  <2>2. \A u \in alive : ListOK(u, Vm(u)') /\ Reads(u, Vm(u)', want'[space'[u]])  BY <1>27, <2>1
  <2>. QED  BY <1>11, <2>2 DEF Pages
<1>29. TlbOK'  BY <1>11 DEF TlbOK
<1>. QED  BY <1>17, <1>22, <1>23, <1>24, <1>26, <1>28, <1>29 DEF IInv

-----------------------------------------------------------------------------
(* Instructions. *)

\* The part of the invariant that the TLB and the traps have no part in.
LEMMA MemoryKeeps ==
  ASSUME IInv, UNCHANGED <<alive, space, pt, tables, plist, frames, mem, swap, want>>
  PROVE  Spaces' /\ Mapped' /\ FreeOK' /\ Apart' /\ Pages' /\ Kernel'
<1>1. Spaces /\ Mapped /\ FreeOK /\ Apart /\ Pages /\ Kernel  BY DEF IInv
<1>2. UNCHANGED <<alive, space, pt, tables, plist, freePageList, memCurr, mem, card, swap_block, want>>
  BY DEF frames, swap
<1>3. Spaces' /\ Mapped' /\ FreeOK' /\ Kernel'  BY <1>1, <1>2 DEF Spaces, Mapped, FreeOK, Kernel, Ent
<1>4. Apart'  BY <1>1, <1>2 DEF Apart, Kept, IsFree, Owned, Ent
<1>5. Pages'
  <2>1. ASSUME NEW t \in alive PROVE ListOK(t, Vm(t)') /\ Reads(t, Vm(t)', want[space[t]])
    <3>1. PICK vo : vo = Vm(t)  OBVIOUS
    <3>2. PICK vn : vn = Vm(t)'  OBVIOUS
    <3>3. /\ vn.pt = vo.pt /\ vn.plist = vo.plist /\ vn.mem = vo.mem /\ vn.card = vo.card
          /\ vn.swap_block = vo.swap_block
      BY <1>2, <3>1, <3>2 DEF Vm
    <3>4. ListOK(t, vo) /\ Reads(t, vo, want[space[t]])  BY <1>1, <3>1 DEF Pages
    <3>5. ListOK(t, vn)  BY <3>3, <3>4 DEF ListOK
    <3>6. Reads(t, vn, want[space[t]])  BY <3>3, <3>4 DEF Reads, OnTheCard
    <3>. QED  BY <3>2, <3>5, <3>6
  <2>. QED  BY <1>2, <2>1 DEF Pages
<1>. QED  BY <1>3, <1>4, <1>5

\* A program reads and writes through an entry of its table only.
LEMMA ExecuteKeeps ==
  ASSUME IInv, NEW t \in alive, NEW va \in Touches[t], NEW op \in Data \cup Reading,
         va = Image => op \in Reading, Execute(t, va, op)
  PROVE  IInv'
<1>1. TypeOK /\ Spaces /\ Mapped /\ FreeOK /\ Apart /\ Pages /\ Kernel /\ TlbOK  BY DEF IInv
<1>2. t \in Task /\ space[t] \in Proc /\ \A u \in alive : u \in Task /\ space[u] \in Proc
  BY <1>1 DEF TypeOK, Spaces
<1>3. va \in Va /\ va \in Mine(t) \cup {Image}  BY <1>2, MineFacts
<1>4. current = t  BY DEF Execute, Tries
<1>5. PICK e \in Translations(t, va) :
        /\ mem' = IF op \in Reading THEN mem ELSE [mem EXCEPT ![e.pfn] = op]
        /\ tlb' = [va |-> va, entry |-> e]
  BY DEF Execute
<1>6. e = Ent(t, va) /\ e # None /\ e.v /\ e \in PTE
  <2>1. e = Ent(t, va) /\ e # None /\ e.v
    BY <1>1, <1>4, <1>5 DEF Translations, check_ad, TlbOK, Ent
  <2>2. pt \in [Proc -> [Va -> PTE \cup {None}]]  BY <1>1 DEF TypeOK
  <2>3. Ent(t, va) \in PTE \cup {None}  BY <1>2, <1>3, <2>2 DEF Ent
  <2>. QED  BY <2>1, <2>3
<1>7. e.pfn \in Frame  BY <1>6 DEF PTE
<1>8. /\ UNCHANGED <<alive, current, space, pt, tables, plist, pnum, freePageList, memCurr, card, swap_block>>
      /\ want' = IF op \in Reading THEN want ELSE [want EXCEPT ![space[t]][va] = op]
      /\ instr' = [instr EXCEPT ![t] = None]
  BY DEF Execute, tasks, frames, swap
<1>9. TypeOK'
  <2>1. op \in Reading \/ op \in Contents  BY DEF Contents
  <2>2. mem' \in [Frame -> Contents]  BY <1>1, <1>5, <1>7, <2>1 DEF TypeOK
  <2>3. want' \in [Proc -> [Va -> Contents]]  BY <1>1, <1>2, <1>3, <1>8, <2>1 DEF TypeOK
  <2>4. tlb' \in [va : Va, entry : PTE]  BY <1>3, <1>5, <1>6
  <2>5. instr' \in [Task -> {None} \cup [va : Va, op : Data \cup Reading, faults : Nat]]
    BY <1>1, <1>2, <1>8 DEF TypeOK
  <2>. QED  BY <1>1, <1>8, <2>2, <2>3, <2>4, <2>5 DEF TypeOK
<1>10. TlbOK'
  <2>1. t # None  BY <1>2, ConstantFacts
  <2>2. tlb'.va = va /\ tlb'.entry = e  BY <1>5
  <2>3. Ent(current, tlb.va)' = e  BY <1>4, <1>6, <1>8, <2>2 DEF Ent
  <2>. QED  BY <1>4, <1>6, <1>8, <2>1, <2>2, <2>3 DEF TlbOK
<1>11. CASE op \in Reading
  <2>1. UNCHANGED <<alive, space, pt, tables, plist, frames, mem, swap, want>>
    BY <1>5, <1>8, <1>11 DEF frames, swap
  <2>. QED  BY <1>9, <1>10, <2>1, MemoryKeeps DEF IInv
<1>12. CASE op \notin Reading
  <2>1. va \in Mine(t) /\ va # Image  BY <1>3, <1>12
  <2>2. mem' = [mem EXCEPT ![e.pfn] = op] /\ want' = [want EXCEPT ![space[t]][va] = op]
    BY <1>5, <1>8, <1>12
  <2>3. \A f \in Frame : f # e.pfn => mem'[f] = mem[f]  BY <1>1, <2>2 DEF TypeOK
  <2>4. mem'[e.pfn] = op  BY <1>1, <1>7, <2>2 DEF TypeOK
  <2>5. /\ want'[space[t]][va] = op
        /\ \A p \in Proc : \A wa \in Va : p # space[t] \/ wa # va => want'[p][wa] = want[p][wa]
    BY <1>1, <1>2, <1>3, <2>2 DEF TypeOK
  <2>6. /\ \A u \in alive : \A wa \in Mine(u) \cup {Image} :
             ~ (u = t /\ wa = va) /\ Ent(u, wa) # None => Ent(u, wa).pfn # e.pfn
        /\ \A p \in Proc : e.pfn \notin tables[p] /\ e.pfn \notin Kept(p)
    BY <1>1, <1>6, <2>1, FramesDiffer
  <2>7. \A u \in alive : \A wa \in Mine(u) \cup {Image} :
          ~ (u = t /\ wa = va) /\ Ent(u, wa) # None => mem'[Ent(u, wa).pfn] = mem[Ent(u, wa).pfn]
    <3>. SUFFICES ASSUME NEW u \in alive, NEW wa \in Mine(u) \cup {Image}, ~ (u = t /\ wa = va), Ent(u, wa) # None
                  PROVE  mem'[Ent(u, wa).pfn] = mem[Ent(u, wa).pfn]
      OBVIOUS
    <3>1. wa \in Va  BY <1>2, MineFacts
    <3>2. Ent(u, wa).pfn \in Frame  BY <1>1, <1>2, <3>1 DEF Ent, TypeOK, PTE
    <3>. QED  BY <2>3, <2>6, <3>2
  <2>8. Spaces'  BY <1>1, <1>8 DEF Spaces
  <2>9. Mapped'
    <3>1. \A p \in Proc : \A wa \in Page : pt[p][wa] = None => want'[p][wa] = want[p][wa]
      BY <1>2, <1>6, <2>5, MineFacts DEF Ent
    <3>. QED  BY <1>1, <1>8, <3>1 DEF Mapped, Ent
  <2>10. FreeOK' /\ Apart'  BY <1>1, <1>8 DEF FreeOK, Apart, Kept, IsFree, Owned, Ent
  <2>11. Kernel'
    <3>1. \A p \in Proc : \A f \in tables[p] : f \in Frame  BY <1>1 DEF TypeOK
    <3>2. \A p \in Proc : \A f \in tables[p] : mem'[f] = "table"  BY <1>1, <2>3, <2>6, <3>1 DEF Kernel
    <3>3. \A u \in alive : /\ KernelStack(u) \in Mine(u) /\ Ent(u, KernelStack(u)) # None
                           /\ ~ (u = t /\ KernelStack(u) = va)
      BY <1>1, <1>2, MineFacts DEF Mapped
    <3>4. \A u \in alive : mem'[Ent(u, KernelStack(u)).pfn] = "kstack"  BY <1>1, <2>7, <3>3 DEF Kernel
    <3>5. ASSUME NEW p \in Proc, space[p] # None PROVE mem'[pt[p][Image].pfn] = want'[p][Image]
      <4>1. Image \in Va /\ pt[p][Image] # None  BY <1>1, <1>2, <3>5, MineFacts DEF Mapped
      <4>2. pt[p][Image].pfn \in Frame  BY <1>1, <4>1 DEF TypeOK, PTE
      <4>3. pt[p][Image].pfn # e.pfn  BY <2>6, <3>5 DEF Kept
      <4>4. mem[pt[p][Image].pfn] = want[p][Image]  BY <1>1, <3>5 DEF Kernel
      <4>. QED  BY <2>1, <2>3, <2>5, <4>1, <4>2, <4>3, <4>4
    <3>. QED  BY <1>8, <3>2, <3>4, <3>5 DEF Kernel, Ent
  <2>12. \A u \in alive \ {t} : ListOK(u, Vm(u)') /\ Reads(u, Vm(u)', want'[space'[u]])
    <3>. SUFFICES ASSUME NEW u \in alive, u # t
                  PROVE  ListOK(u, Vm(u)') /\ Reads(u, Vm(u)', want'[space'[u]])
      OBVIOUS
    <3>1. \A wa \in Touches[u] : wa \in Mine(u) \cup {Image} /\ wa \in Va  BY <1>2, MineFacts
    <3>2. space[u] # space[t] \/ va \notin Mine(u) \cup {Image}
      BY <1>1, <2>1, SameSpace
    <3>3. \A wa \in Touches[u] : want'[space[u]][wa] = want[space[u]][wa]
      BY <1>2, <2>5, <3>1, <3>2
    <3>4. \A wa \in Touches[u] : Ent(u, wa) # None => mem'[Ent(u, wa).pfn] = mem[Ent(u, wa).pfn]
      BY <2>7, <3>1
    <3>5. /\ swap_block <= swap_block' /\ swap_block' \in Nat
          /\ \A b \in 0 .. MaxSwap : b < swap_block => card'[b] = card[b]
      BY <1>1, <1>8, ConstantFacts DEF TypeOK
    <3>6. \A wa \in Mine(u) \cup {Image} :
            /\ Ent(u, wa)' = None <=> Ent(u, wa) = None
            /\ Ent(u, wa) # None => Ent(u, wa)'.pfn = Ent(u, wa).pfn /\ Ent(u, wa)'.v = Ent(u, wa).v
      BY <1>8 DEF Ent
    <3>. QED  BY <1>1, <1>8, <3>3, <3>4, <3>5, <3>6, OthersKeep
  <2>13. ListOK(t, Vm(t)') /\ Reads(t, Vm(t)', want'[space'[t]])
    <3>1. PICK vo : vo = Vm(t)  OBVIOUS
    <3>2. PICK vn : vn = Vm(t)'  OBVIOUS
    <3>3. /\ vn.pt = vo.pt /\ vn.plist = vo.plist /\ vn.mem = mem' /\ vn.card = vo.card
          /\ vn.swap_block = vo.swap_block /\ vo.mem = mem
          /\ \A wa : vo.pt[wa] = Ent(t, wa)
      BY <1>8, <3>1, <3>2 DEF Vm, Ent
    <3>4. ListOK(t, vo) /\ Reads(t, vo, want[space[t]])  BY <1>1, <3>1 DEF Pages
    <3>5. ListOK(t, vn)  BY <3>3, <3>4 DEF ListOK
    <3>6. Reads(t, vn, want'[space[t]])
      <4>. SUFFICES ASSUME NEW wa \in Touches[t], vn.pt[wa] # None
                    PROVE  IF vn.pt[wa].v THEN vn.mem[vn.pt[wa].pfn] = want'[space[t]][wa]
                           ELSE OnTheCard(vn, wa, want'[space[t]][wa])
        BY DEF Reads
      <4>1. CASE wa = va  BY <1>6, <2>4, <2>5, <3>3, <4>1
      <4>2. CASE wa # va
        <5>1. wa \in Va /\ wa \in Mine(t) \cup {Image}  BY <1>2, MineFacts
        <5>2. want'[space[t]][wa] = want[space[t]][wa]  BY <1>2, <2>5, <4>2, <5>1
        <5>3. mem'[Ent(t, wa).pfn] = mem[Ent(t, wa).pfn]  BY <2>7, <3>3, <4>2, <5>1
        <5>. QED  BY <3>3, <3>4, <5>2, <5>3 DEF Reads, OnTheCard
      <4>. QED  BY <4>1, <4>2
    <3>. QED  BY <1>8, <3>2, <3>5, <3>6
  <2>14. Pages'  BY <1>8, <2>12, <2>13 DEF Pages
  <2>. QED  BY <1>9, <1>10, <2>8, <2>9, <2>10, <2>11, <2>14 DEF IInv
<1>. QED  BY <1>11, <1>12

\* do_scheduler empties the TLB.
LEMMA SchedulerKeeps == IInv /\ do_scheduler => IInv'
<1>. SUFFICES ASSUME IInv, do_scheduler PROVE IInv'  OBVIOUS
<1>1. UNCHANGED <<alive, space, pt, tables, plist, pnum, frames, mem, swap, instr, want>>
      /\ current' \in alive \cup {None} /\ tlb' = None
  BY DEF do_scheduler, Schedule, local_flush_tlb_all
<1>2. Spaces' /\ Mapped' /\ FreeOK' /\ Apart' /\ Pages' /\ Kernel'  BY <1>1, MemoryKeeps
<1>3. TypeOK'
  <2>1. TypeOK  BY DEF IInv
  <2>. QED  BY <1>1, <2>1 DEF TypeOK, frames, swap
<1>4. TlbOK'  BY <1>1 DEF TlbOK
<1>. QED  BY <1>2, <1>3, <1>4 DEF IInv

-----------------------------------------------------------------------------
(* The end of a task. *)

\* The frames that do_kill and do_exit hand back were pages of t alone.
LEMMA RecycleKeeps ==
  ASSUME IInv, NEW t \in alive, Recycle(t),
         \/ t # current /\ UNCHANGED <<current, tlb>>
         \/ Schedule(alive \ {t})
  PROVE  IInv'
<1>1. TypeOK /\ Spaces /\ Mapped /\ FreeOK /\ Apart /\ Pages /\ Kernel /\ TlbOK  BY DEF IInv
<1>2. t \in Task /\ space[t] \in Proc /\ \A u \in alive : u \in Task /\ space[u] \in Proc
  BY <1>1 DEF TypeOK, Spaces
<1>3. PICK F : F = [i \in DOMAIN plist[t] |-> plist[t][i].pa]  OBVIOUS
<1>4. /\ alive' = alive \ {t} /\ freePageList' = freePageList \o F
      /\ plist' = [plist EXCEPT ![t] = <<>>] /\ instr' = [instr EXCEPT ![t] = None]
      /\ UNCHANGED <<space, pt, tables, pnum, memCurr, mem, card, swap_block, want>>
  BY <1>3 DEF Recycle, swap
<1>5. /\ current' \in alive' \cup {None}
      /\ tlb' # None => current' = current /\ tlb' = tlb /\ current # t
  BY <1>1, <1>4 DEF Schedule, local_flush_tlb_all, TypeOK
<1>6. PICK m \in Nat : m = Len(plist[t]) /\ DOMAIN plist[t] = 1 .. m
  BY <1>1, <1>2, LenProperties DEF TypeOK
\* Frame F[i] is that of the page wa(i) of t.
<1>7. \A i \in 1 .. m : \E wa \in Mine(t) :
        /\ wa = plist[t][i].va /\ Ent(t, wa) # None /\ Ent(t, wa).pfn = F[i]
  <2>1. PICK vo : vo = Vm(t)  OBVIOUS
  <2>2. ListOK(t, vo) /\ vo.plist = plist[t] /\ vo.pt = pt[space[t]]  BY <1>1, <2>1 DEF Pages, Vm
  <2>. QED  BY <1>3, <1>6, <2>2 DEF ListOK, Ent
<1>8. \A i \in 1 .. m : F[i] \in Frame /\ Owned(F[i]) /\ F[i] <= memCurr /\ ~ IsFree(F[i])
  <2>1. \A wa \in Mine(t) : wa \in Va  BY <1>2, MineFacts
  <2>2. \A i \in 1 .. m : F[i] \in Frame
    <3>1. \A wa \in Va : Ent(t, wa) # None => Ent(t, wa).pfn \in Frame  BY <1>1, <1>2 DEF Ent, TypeOK, PTE
    <3>. QED  BY <1>7, <2>1, <3>1
  <2>3. \A i \in 1 .. m : Owned(F[i])  BY <1>7 DEF Owned
  <2>. QED  BY <1>1, <2>2, <2>3 DEF Apart
<1>9. \A i, j \in 1 .. m : F[i] = F[j] => i = j
  <2>1. \A i, j \in 1 .. m : plist[t][i].va = plist[t][j].va => i = j
    <3>1. PICK vo : vo = Vm(t)  OBVIOUS
    <3>2. ListOK(t, vo) /\ vo.plist = plist[t]  BY <1>1, <3>1 DEF Pages, Vm
    <3>. QED  BY <1>6, <3>2 DEF ListOK
  <2>2. ASSUME NEW i \in 1 .. m, NEW j \in 1 .. m, F[i] = F[j] PROVE i = j
    <3>1. PICK wa \in Mine(t) : wa = plist[t][i].va /\ Ent(t, wa) # None /\ Ent(t, wa).pfn = F[i]
      BY <1>7
    <3>2. PICK xa \in Mine(t) : xa = plist[t][j].va /\ Ent(t, xa) # None /\ Ent(t, xa).pfn = F[j]
      BY <1>7
    <3>3. wa = xa  BY <1>1, <2>2, <3>1, <3>2 DEF Apart
    <3>. QED  BY <2>1, <3>1, <3>2, <3>3
  <2>. QED  BY <2>2
<1>10. PICK L \in Nat : L = Len(freePageList) /\ DOMAIN freePageList = 1 .. L
  BY <1>1, LenProperties DEF TypeOK
<1>11. /\ freePageList' \in Seq(Frame) /\ DOMAIN freePageList' = 1 .. L + m
       /\ \A i \in 1 .. L + m : freePageList'[i] = IF i <= L THEN freePageList[i] ELSE F[i - L]
  <2>1. F \in Seq(Frame) /\ Len(F) = m
    <3>1. F \in [1 .. m -> Frame]  BY <1>3, <1>6, <1>8
    <3>. QED  BY <3>1, SeqDef, LenProperties
  <2>2. freePageList \in Seq(Frame)  BY <1>1 DEF TypeOK
  <2>3. /\ freePageList \o F \in Seq(Frame) /\ Len(freePageList \o F) = L + m
        /\ \A i \in 1 .. L + m : (freePageList \o F)[i] = IF i <= L THEN freePageList[i] ELSE F[i - L]
    BY <1>10, <2>1, <2>2, ConcatProperties
  <2>. QED  BY <1>4, <2>3, LenProperties
<1>12. \A i \in 1 .. L + m : (i <= L /\ i \in 1 .. L) \/ (~ (i <= L) /\ i - L \in 1 .. m)  OBVIOUS
<1>13. \A f : IsFree(f)' <=> IsFree(f) \/ \E i \in 1 .. m : f = F[i]
  <2>1. ASSUME NEW f, IsFree(f)' PROVE IsFree(f) \/ \E i \in 1 .. m : f = F[i]
    BY <1>10, <1>11, <1>12, <2>1 DEF IsFree
  <2>2. ASSUME NEW f, IsFree(f) PROVE IsFree(f)'
    <3>1. PICK i \in 1 .. L : freePageList[i] = f  BY <1>10, <2>2 DEF IsFree
    <3>2. i \in 1 .. L + m /\ i <= L  OBVIOUS
    <3>. QED  BY <1>11, <3>1, <3>2 DEF IsFree
  <2>3. ASSUME NEW f, NEW i \in 1 .. m, f = F[i] PROVE IsFree(f)'
    <3>1. PICK k \in 1 .. L + m : k = L + i  OBVIOUS
    <3>2. ~ (k <= L) /\ k - L = i  BY <3>1
    <3>3. freePageList'[k] = f  BY <1>11, <2>3, <3>2
    <3>. QED  BY <1>11, <3>3 DEF IsFree
  <2>. QED  BY <2>1, <2>2, <2>3
<1>14. FreeOK'
  <2>1. ASSUME NEW i \in 1 .. L + m, NEW j \in 1 .. L + m, freePageList'[i] = freePageList'[j] PROVE i = j
    <3>1. CASE i <= L /\ j <= L  BY <1>1, <1>10, <1>11, <1>12, <2>1, <3>1 DEF FreeOK
    <3>2. CASE ~ (i <= L) /\ ~ (j <= L)
      <4>1. i - L \in 1 .. m /\ j - L \in 1 .. m /\ F[i - L] = F[j - L]  BY <1>11, <1>12, <2>1, <3>2
      <4>2. i - L = j - L  BY <1>9, <4>1
      <4>. QED  BY <4>2
    <3>3. CASE i <= L /\ ~ (j <= L)  BY <1>8, <1>10, <1>11, <1>12, <2>1, <3>3 DEF IsFree
    <3>4. CASE ~ (i <= L) /\ j <= L  BY <1>8, <1>10, <1>11, <1>12, <2>1, <3>4 DEF IsFree
    <3>. QED  BY <3>1, <3>2, <3>3, <3>4
  <2>2. \A i \in 1 .. L + m : freePageList'[i] <= memCurr'
    BY <1>1, <1>4, <1>8, <1>10, <1>11, <1>12 DEF FreeOK
  <2>. QED  BY <1>11, <2>1, <2>2 DEF FreeOK
<1>15. \A u \in alive' : \A wa : Ent(u, wa)' = Ent(u, wa) /\ u \in alive /\ u # t  BY <1>4 DEF Ent
<1>16. \A f : Owned(f)' => Owned(f) /\ \A i \in 1 .. m : f # F[i]
  <2>. SUFFICES ASSUME NEW f, Owned(f)' PROVE Owned(f) /\ \A i \in 1 .. m : f # F[i]
    OBVIOUS
  <2>1. PICK u \in alive' : \E wa \in Mine(u) : Ent(u, wa)' # None /\ Ent(u, wa)'.pfn = f  BY DEF Owned
  <2>2. PICK wa \in Mine(u) : Ent(u, wa) # None /\ Ent(u, wa).pfn = f /\ u \in alive /\ u # t
    BY <1>15, <2>1
  <2>3. ASSUME NEW i \in 1 .. m, f = F[i] PROVE FALSE
    <3>1. PICK xa \in Mine(t) : Ent(t, xa) # None /\ Ent(t, xa).pfn = f  BY <1>7, <2>3
    <3>. QED  BY <1>1, <2>2, <3>1 DEF Apart
  <2>. QED  BY <2>2, <2>3 DEF Owned
<1>17. Apart'
  <2>1. \A p \in Proc : Kept(p)' = Kept(p)  BY <1>4 DEF Kept
  <2>2. \A p \in Proc : \A f \in Kept(p) : f <= memCurr' /\ ~ IsFree(f)' /\ ~ Owned(f)'
    BY <1>1, <1>4, <1>8, <1>13, <1>16 DEF Apart
  <2>3. \A f \in Frame : Owned(f)' => f <= memCurr' /\ ~ IsFree(f)'
    BY <1>1, <1>4, <1>13, <1>16 DEF Apart
  <2>4. \A u, v \in alive' : \A wa \in Mine(u), xa \in Mine(v) :
          Ent(u, wa)' # None /\ Ent(v, xa)' # None /\ Ent(u, wa)'.pfn = Ent(v, xa)'.pfn => u = v /\ wa = xa
    BY <1>1, <1>15 DEF Apart
  <2>. QED  BY <2>1, <2>2, <2>3, <2>4 DEF Apart
<1>18. Spaces' /\ Mapped' /\ Kernel'
  BY <1>1, <1>4 DEF Spaces, Mapped, Kernel, Ent
<1>19. Pages'
  <2>. SUFFICES ASSUME NEW u \in alive, u # t
                PROVE  ListOK(u, Vm(u)') /\ Reads(u, Vm(u)', want'[space'[u]])
    BY <1>4 DEF Pages
  <2>1. /\ swap_block <= swap_block' /\ swap_block' \in Nat
        /\ \A b \in 0 .. MaxSwap : b < swap_block => card'[b] = card[b]
    BY <1>1, <1>4, ConstantFacts DEF TypeOK
  <2>2. \A wa : Ent(u, wa)' = Ent(u, wa)  BY <1>4 DEF Ent
  <2>3. plist'[u] = plist[u]  BY <1>1, <1>2, <1>4 DEF TypeOK
  <2>. QED  BY <1>1, <1>4, <2>1, <2>2, <2>3, OthersKeep
<1>20. TlbOK'  BY <1>1, <1>4, <1>5 DEF TlbOK, Ent
<1>21. TypeOK'
  <2>1. plist' \in [Task -> Seq(PageTs)]
    <3>1. <<>> \in Seq(PageTs)  BY EmptySeq
    <3>. QED  BY <1>1, <1>4, <3>1 DEF TypeOK
  <2>2. instr' \in [Task -> {None} \cup [va : Va, op : Data \cup Reading, faults : Nat]]
    BY <1>1, <1>2, <1>4 DEF TypeOK
  <2>3. tlb' \in {None} \cup [va : Va, entry : PTE]  BY <1>1, <1>5 DEF TypeOK
  <2>4. alive' \subseteq Task  BY <1>1, <1>4 DEF TypeOK
  <2>. QED  BY <1>1, <1>4, <1>5, <1>11, <2>1, <2>2, <2>3, <2>4 DEF TypeOK
<1>. QED  BY <1>14, <1>17, <1>18, <1>19, <1>20, <1>21 DEF IInv

-----------------------------------------------------------------------------
(* New tasks. *)

\* The pages of tasks and what processes keep are in frames in use.
LEMMA FramesInUse ==
  ASSUME TypeOK, Spaces, Mapped
  PROVE  /\ \A u \in alive : \A wa \in Mine(u) \cup {Image} : Ent(u, wa) # None => InUse(Ent(u, wa).pfn)
         /\ \A p \in Proc : \A f \in Kept(p) : InUse(f)
<1>1. ASSUME NEW u \in alive, NEW wa \in Mine(u) \cup {Image}, Ent(u, wa) # None
      PROVE  InUse(Ent(u, wa).pfn)
  <2>1. CASE wa \in Mine(u)  BY <1>1, <2>1 DEF InUse, Owned
  <2>2. CASE wa = Image
    <3>1. u \in Task /\ space[u] \in Proc /\ space[space[u]] # None
      BY ConstantFacts DEF Spaces, TypeOK, Task
    <3>2. Ent(u, wa).pfn \in Kept(space[u])  BY <2>2, <3>1 DEF Kept, Ent
    <3>. QED  BY <3>1, <3>2 DEF InUse
  <2>. QED  BY <2>1, <2>2
<1>. QED  BY <1>1 DEF InUse

\* A new task q, when it gets frames of its own and what was there stays.
LEMMA CreateKeeps ==
  ASSUME IInv, NEW q \in Task, q \notin alive, NEW s \in Proc, NEW l \in Seq(PageTs),
         NEW n \in Nat, Alloc(n), NEW F, F = Taken(n), NEW kept, NEW given, GivesOut(n, F, kept, given),
         alive' = alive \cup {q}, space' = [space EXCEPT ![q] = s], plist' = [plist EXCEPT ![q] = l],
         UNCHANGED <<current, swap, tlb, instr>>, pnum' \in [Task -> Int],
         pt' \in [Proc -> [Va -> PTE \cup {None}]], tables' \in [Proc -> SUBSET Frame],
         mem' \in [Frame -> Contents], want' \in [Proc -> [Va -> Contents]],
         \A g : InUse(g) => mem'[g] = mem[g],
         \A u \in alive : \A wa \in Mine(u) \cup {Image} :
           Ent(u, wa)' = Ent(u, wa) /\ want'[space[u]][wa] = want[space[u]][wa],
         Spaces', Mapped',
         \A p \in Proc : \A f \in tables'[p] : f \in tables[p] \/ mem'[f] = "table",
         \A p \in Proc : space'[p] # None =>
           \/ space[p] # None /\ pt'[p][Image] = pt[p][Image] /\ want'[p][Image] = want[p][Image]
           \/ mem'[pt'[p][Image].pfn] = want'[p][Image],
         mem'[Ent(q, KernelStack(q))'.pfn] = "kstack",
         ListOK(q, Vm(q)'), Reads(q, Vm(q)', want'[space'[q]])
  PROVE  IInv'
<1>1. TypeOK /\ Spaces /\ Mapped /\ FreeOK /\ Apart /\ Pages /\ Kernel /\ TlbOK  BY DEF IInv
<1>2. \A u \in alive : u \in Task /\ space[u] \in Proc  BY <1>1 DEF TypeOK, Spaces
<1>3. UNCHANGED <<card, swap_block>>  BY DEF swap
<1>4. memCurr' \in 0 .. MaxFrame /\ freePageList' \in Seq(Frame)  BY <1>1, AllocOK
<1>5. TypeOK'
  <2>1. space' \in [Task -> Proc \cup {None}] /\ plist' \in [Task -> Seq(PageTs)]  BY <1>1 DEF TypeOK
  <2>2. alive' \subseteq Task /\ current' \in alive' \cup {None}  BY <1>1 DEF TypeOK
  <2>3. /\ card' \in [0 .. MaxSwap -> Contents] /\ swap_block' \in 0 .. MaxSwap
        /\ tlb' \in {None} \cup [va : Va, entry : PTE]
        /\ instr' \in [Task -> {None} \cup [va : Va, op : Data \cup Reading, faults : Nat]]
    BY <1>1, <1>3 DEF TypeOK
  <2>. QED  BY <1>4, <2>1, <2>2, <2>3 DEF TypeOK
<1>6. FreeOK' /\ Apart'  BY <1>1, Grown
<1>7. Kernel'
  <2>1. /\ \A u \in alive : \A wa \in Mine(u) \cup {Image} : Ent(u, wa) # None => InUse(Ent(u, wa).pfn)
        /\ \A p \in Proc : \A f \in Kept(p) : InUse(f)
    BY <1>1, FramesInUse
  <2>2. \A p \in Proc : \A f \in tables'[p] : mem'[f] = "table"
    <3>1. \A p \in Proc : \A f \in tables[p] : InUse(f) /\ mem[f] = "table"
      BY <1>1, <2>1 DEF Kept, Kernel
    <3>. QED  BY <3>1
  <2>3. ASSUME NEW p \in Proc, space'[p] # None PROVE mem'[pt'[p][Image].pfn] = want'[p][Image]
    <3>1. CASE space[p] # None /\ pt'[p][Image] = pt[p][Image] /\ want'[p][Image] = want[p][Image]
      <4>1. PICK g : g = pt[p][Image].pfn  OBVIOUS
      <4>2. InUse(g)  BY <2>1, <3>1, <4>1 DEF Kept
      <4>3. mem[g] = want[p][Image]  BY <1>1, <3>1, <4>1 DEF Kernel
      <4>. QED  BY <3>1, <4>1, <4>2, <4>3
    <3>. QED  BY <2>3, <3>1
  <2>4. ASSUME NEW u \in alive PROVE mem'[Ent(u, KernelStack(u))'.pfn] = "kstack"
    <3>1. KernelStack(u) \in Mine(u) /\ Ent(u, KernelStack(u)) # None
      BY <1>1, <1>2, MineFacts DEF Mapped
    <3>2. mem[Ent(u, KernelStack(u)).pfn] = "kstack"  BY <1>1 DEF Kernel
    <3>. QED  BY <2>1, <3>1, <3>2
  <2>5. \A u \in alive' : u \in alive \/ u = q  OBVIOUS
  <2>. QED  BY <2>2, <2>3, <2>4, <2>5 DEF Kernel
<1>8. Pages'
  <2>1. ASSUME NEW u \in alive PROVE ListOK(u, Vm(u)') /\ Reads(u, Vm(u)', want'[space'[u]])
    <3>1. u # q /\ space'[u] = space[u] /\ plist'[u] = plist[u]  BY <1>1, <1>2 DEF TypeOK
    <3>2. \A wa \in Touches[u] : wa \in Mine(u) \cup {Image}  BY <1>2, MineFacts
    <3>3. \A wa \in Touches[u] : /\ want'[space[u]][wa] = want[space[u]][wa]
                                 /\ Ent(u, wa) # None => mem'[Ent(u, wa).pfn] = mem[Ent(u, wa).pfn]
      BY <1>1, <3>2, FramesInUse
    <3>4. /\ swap_block <= swap_block' /\ swap_block' \in Nat
          /\ \A b \in 0 .. MaxSwap : b < swap_block => card'[b] = card[b]
      BY <1>1, <1>3, ConstantFacts DEF TypeOK
    <3>. QED  BY <1>1, <3>1, <3>3, <3>4, OthersKeep
  <2>2. \A u \in alive' : ListOK(u, Vm(u)') /\ Reads(u, Vm(u)', want'[space'[u]])  BY <2>1
  <2>. QED  BY <2>2 DEF Pages
<1>9. TlbOK'
  <2>. SUFFICES ASSUME tlb # None
                PROVE  /\ current # None /\ tlb.va \in Touches[current] /\ tlb.entry # None /\ tlb.entry.v
                       /\ tlb.entry = Ent(current, tlb.va)'
    BY DEF TlbOK, Ent
  <2>1. PICK u : u = current  OBVIOUS
  <2>2. PICK wa : wa = tlb.va  OBVIOUS
  <2>3. u \in alive /\ wa \in Touches[u] /\ tlb.entry = Ent(u, wa)
    BY <1>1, <2>1, <2>2 DEF TlbOK, TypeOK
  <2>4. wa \in Mine(u) \cup {Image}  BY <1>2, <2>3, MineFacts
  <2>5. Ent(u, wa)' = Ent(u, wa)  BY <2>3, <2>4
  <2>. QED  BY <1>1, <2>1, <2>2, <2>3, <2>5 DEF TlbOK, Ent
<1>. QED  BY <1>5, <1>6, <1>7, <1>8, <1>9 DEF IInv

\* The table exec makes for p, and what the pages in it are to read as.
LEMMA ExecFacts ==
  ASSUME NEW p \in Proc, NEW F, F[2] \in Frame, F[3] \in Frame, F[4] \in Frame,
         NEW k, k = KernelStack(p), NEW m, m = UserStack(p), NEW tab, tab = ExecTable(p, F),
         NEW w, w = ExecWant(p)
  PROVE  /\ k \in Va /\ m \in Va /\ Image \in Va /\ k # m /\ k # Image /\ m # Image
         /\ k \notin Page /\ m \notin Page /\ Image \notin Page
         /\ k \in Mine(p) /\ m \in Mine(p) /\ k \notin Touches[p] /\ Image \notin Mine(p) /\ Page \subseteq Va
         /\ tab \in [Va -> PTE \cup {None}]
         /\ tab[k] # None /\ tab[k].pfn = F[2] /\ tab[k].v
         /\ tab[m] # None /\ tab[m].pfn = F[3] /\ tab[m].v
         /\ tab[Image] # None /\ tab[Image].pfn = F[4] /\ tab[Image].v
         /\ \A va \in Va : va \notin {k, m, Image} => tab[va] = None
         /\ w \in [Va -> Contents] /\ w[m] = "args" /\ w[Image] = "elf"
         /\ \A va \in Va : va # m /\ va # Image => w[va] = "0"
<1>1. /\ k \in Va /\ m \in Va /\ Image \in Va /\ k # m /\ k # Image /\ m # Image
      /\ k \notin Page /\ m \notin Page /\ Image \notin Page
      /\ k \in Mine(p) /\ m \in Mine(p) /\ k \notin Touches[p] /\ Image \notin Mine(p) /\ Page \subseteq Va
  <2>1. p \in Task  BY ConstantFacts
  <2>. QED  BY <2>1, MineFacts, ConstantFacts DEF KernelStack, UserStack
<1>2. PICK e2 : e2 = Entry(F[2], FALSE)  OBVIOUS
<1>3. PICK e3 : e3 = Entry(F[3], FALSE)  OBVIOUS
<1>4. PICK e4 : e4 = Entry(F[4], FALSE)  OBVIOUS
<1>5. /\ e2 \in PTE /\ e2.pfn = F[2] /\ e2.v /\ e3 \in PTE /\ e3.pfn = F[3] /\ e3.v
      /\ e4 \in PTE /\ e4.pfn = F[4] /\ e4.v
  <2>1. \A f \in Frame : Entry(f, FALSE) \in PTE /\ Entry(f, FALSE).pfn = f /\ Entry(f, FALSE).v
    BY DEF Entry, PTE
  <2>. QED  BY <2>1, <1>2, <1>3, <1>4
<1>6. tab = [[va \in Va |-> None] EXCEPT ![k] = e2, ![m] = e3, ![Image] = e4]
  BY <1>2, <1>3, <1>4 DEF ExecTable, Blank
<1>7. /\ tab \in [Va -> PTE \cup {None}] /\ tab[k] = e2 /\ tab[m] = e3 /\ tab[Image] = e4
      /\ \A va \in Va : va \notin {k, m, Image} => tab[va] = None
  BY <1>1, <1>5, <1>6
<1>8. /\ w \in [Va -> Contents] /\ w[m] = "args" /\ w[Image] = "elf"
      /\ \A va \in Va : va # m /\ va # Image => w[va] = "0"
  BY <1>1 DEF ExecWant, Contents
<1>. QED  BY <1>1, <1>5, <1>7, <1>8, ConstantFacts

\* exec builds a process in frames of its own.
LEMMA ExecKeeps ==
  ASSUME IInv, NEW p \in Proc, do_exec(p)
  PROVE  IInv'
<1>1. TypeOK /\ Spaces /\ Mapped /\ FreeOK /\ Apart /\ Pages /\ Kernel  BY DEF IInv
<1>2. p \in Task /\ p \notin Thread /\ \A u \in alive : u \in Task /\ space[u] \in Proc
  BY <1>1, ConstantFacts DEF TypeOK, Spaces
<1>3. PICK F : F = Taken(4)  OBVIOUS
<1>4. /\ p \notin alive /\ space[p] = None /\ Alloc(4)
      /\ pt' = [pt EXCEPT ![p] = ExecTable(p, F)] /\ mem' = ExecMem(Zeroed(mem, 4), F)
      /\ tables' = [tables EXCEPT ![p] = {F[1]}] /\ want' = [want EXCEPT ![p] = ExecWant(p)]
      /\ plist' = [plist EXCEPT ![p] = ExecList(p, F)] /\ pnum' = [pnum EXCEPT ![p] = 2]
      /\ alive' = alive \cup {p} /\ space' = [space EXCEPT ![p] = p]
      /\ UNCHANGED <<current, swap, tlb, instr>>
  BY <1>3 DEF do_exec
<1>5. /\ \A i \in 1 .. 4 : F[i] \in Frame /\ ~ InUse(F[i])
      /\ \A i, j \in 1 .. 4 : F[i] = F[j] => i = j
  BY <1>1, <1>3, <1>4, AllocOK
<1>6. /\ F[1] \in Frame /\ F[2] \in Frame /\ F[3] \in Frame /\ F[4] \in Frame
      /\ F[1] # F[2] /\ F[1] # F[3] /\ F[1] # F[4] /\ F[2] # F[3] /\ F[2] # F[4] /\ F[3] # F[4]
  <2>1. 1 \in 1 .. 4 /\ 2 \in 1 .. 4 /\ 3 \in 1 .. 4 /\ 4 \in 1 .. 4  OBVIOUS
  <2>. QED  BY <1>5, <2>1
<1>7. /\ mem' \in [Frame -> Contents] /\ mem'[F[1]] = "table" /\ mem'[F[2]] = "kstack"
      /\ mem'[F[3]] = "args" /\ mem'[F[4]] = "elf"
      /\ \A g : InUse(g) => mem'[g] = mem[g]
  <2>1. PICK z : z = Zeroed(mem, 4)  OBVIOUS
  <2>2. z \in [Frame -> Contents] /\ \A g \in Frame : z[g] = IF \E i \in 1 .. 4 : g = F[i] THEN "0" ELSE mem[g]
    BY <1>1, <1>3, <2>1 DEF Zeroed, Contents, TypeOK
  <2>3. mem' = [z EXCEPT ![F[1]] = "table", ![F[2]] = "kstack", ![F[3]] = "args", ![F[4]] = "elf"]
    BY <1>4, <2>1 DEF ExecMem
  <2>4. /\ mem' \in [Frame -> Contents] /\ mem'[F[1]] = "table" /\ mem'[F[2]] = "kstack"
        /\ mem'[F[3]] = "args" /\ mem'[F[4]] = "elf"
    BY <1>6, <2>2, <2>3 DEF Contents
  <2>5. ASSUME NEW g, InUse(g) PROVE mem'[g] = mem[g]
    <3>1. g \in Frame  BY <1>1, <2>5, InUseFacts
    <3>2. \A i \in 1 .. 4 : g # F[i]  BY <1>5, <2>5
    <3>3. g # F[1] /\ g # F[2] /\ g # F[3] /\ g # F[4]  BY <3>2
    <3>. QED  BY <2>2, <2>3, <3>1, <3>2, <3>3
  <2>. QED  BY <2>4, <2>5
<1>8. PICK k : k = KernelStack(p)  OBVIOUS
<1>9. PICK m : m = UserStack(p)  OBVIOUS
<1>10. /\ k \in Va /\ m \in Va /\ Image \in Va /\ k # m /\ k # Image /\ m # Image
       /\ k \notin Page /\ m \notin Page /\ Image \notin Page
       /\ k \in Mine(p) /\ m \in Mine(p) /\ k \notin Touches[p] /\ Image \notin Mine(p) /\ Page \subseteq Va
  BY <1>6, <1>8, <1>9, ExecFacts
<1>11. PICK tab : tab = ExecTable(p, F)  OBVIOUS
<1>12. /\ tab \in [Va -> PTE \cup {None}]
       /\ tab[k] # None /\ tab[k].pfn = F[2] /\ tab[k].v
       /\ tab[m] # None /\ tab[m].pfn = F[3] /\ tab[m].v
       /\ tab[Image] # None /\ tab[Image].pfn = F[4] /\ tab[Image].v
       /\ \A va \in Va : va \notin {k, m, Image} => tab[va] = None
  BY <1>6, <1>8, <1>9, <1>11, ExecFacts
<1>13. pt'[p] = tab /\ \A r \in Proc : r # p => pt'[r] = pt[r]  BY <1>1, <1>4, <1>11 DEF TypeOK
<1>14. space'[p] = p /\ \A u \in Task : u # p => space'[u] = space[u]  BY <1>1, <1>2, <1>4 DEF TypeOK
<1>15. \A u \in alive : space[u] # p /\ u # p
  <2>1. \A u \in alive : space[u] = p => space[p] = p  BY <1>1, <1>2 DEF Spaces
  <2>2. p # None  BY <1>2, ConstantFacts
  <2>. QED  BY <1>4, <2>1, <2>2
<1>16. PICK w : w = ExecWant(p)  OBVIOUS
<1>17. /\ w \in [Va -> Contents] /\ w[m] = "args" /\ w[Image] = "elf"
       /\ \A va \in Va : va # m /\ va # Image => w[va] = "0"
  BY <1>6, <1>8, <1>9, <1>16, ExecFacts
<1>18. want'[p] = w /\ \A r \in Proc : r # p => want'[r] = want[r]  BY <1>1, <1>4, <1>16 DEF TypeOK
<1>19. \A u \in alive : \A wa \in Mine(u) \cup {Image} :
         Ent(u, wa)' = Ent(u, wa) /\ want'[space[u]][wa] = want[space[u]][wa]
  BY <1>2, <1>13, <1>14, <1>15, <1>18 DEF Ent
<1>20. \A wa : Ent(p, wa)' = tab[wa]  BY <1>13, <1>14 DEF Ent
<1>21. Spaces'
  <2>1. \A u \in alive' : space'[u] # None
    BY <1>1, <1>2, <1>4, <1>14, <1>15, ConstantFacts DEF Spaces
  <2>2. \A r \in Proc : space'[r] \in {r, None}  BY <1>1, <1>14, ConstantFacts DEF Spaces
  <2>3. \A u \in Task : space'[u] # None => space'[space'[u]] = space'[u]
    <3>. SUFFICES ASSUME NEW u \in Task, space'[u] # None PROVE space'[space'[u]] = space'[u]
      OBVIOUS
    <3>1. CASE u = p  BY <1>14, <3>1
    <3>2. CASE u # p
      <4>1. space'[u] = space[u] /\ space[u] \in Proc /\ space[space[u]] = space[u]
        BY <1>1, <1>14, <3>2 DEF Spaces, TypeOK
      <4>2. space[u] # p  BY <1>4, <4>1, <1>2, ConstantFacts
      <4>. QED  BY <1>14, <4>1, <4>2, ConstantFacts
    <3>. QED  BY <3>1, <3>2
  <2>4. ASSUME NEW u \in Thread, space'[u] = None, NEW r \in Proc, NEW va \in Touches[u] \cap Page
        PROVE  pt'[r][va] = None
    <3>1. u # p /\ space[u] = None  BY <1>2, <1>14, <2>4, ConstantFacts
    <3>2. r # p => pt'[r][va] = None  BY <1>1, <1>13, <2>4, <3>1 DEF Spaces
    <3>3. tab[va] = None  BY <1>10, <1>12
    <3>. QED  BY <1>13, <3>2, <3>3
  <2>. QED  BY <2>1, <2>2, <2>3, <2>4 DEF Spaces
<1>22. Mapped'
  <2>1. ASSUME NEW u \in alive' PROVE \A va \in {UserStack(u), KernelStack(u)} : Ent(u, va)' # None
    <3>1. CASE u = p  BY <1>8, <1>9, <1>12, <1>20, <3>1
    <3>2. CASE u # p
      <4>1. u \in alive /\ u \in Task  BY <1>2, <1>4, <3>2
      <4>2. \A va \in {UserStack(u), KernelStack(u)} : va \in Mine(u)  BY <4>1, MineFacts
      <4>. QED  BY <1>1, <1>19, <4>1, <4>2 DEF Mapped
    <3>. QED  BY <3>1, <3>2
  <2>2. \A r \in Proc : space'[r] # None => pt'[r][Image] # None /\ pt'[r][Image].v
    BY <1>1, <1>12, <1>13, <1>14, ConstantFacts DEF Mapped
  <2>3. \A r \in Proc : \A va \in Page : pt'[r][va] = None => want'[r][va] = "0"
    <3>1. \A va \in Page : want'[p][va] = "0"  BY <1>10, <1>17, <1>18
    <3>. QED  BY <1>1, <1>13, <1>18, <3>1 DEF Mapped
  <2>. QED  BY <2>1, <2>2, <2>3 DEF Mapped
<1>23. PICK kept : kept = {1, 4}  OBVIOUS
<1>24. PICK given : given = {<<2, p, k>>, <<3, p, m>>}  OBVIOUS
<1>25. GivesOut(4, F, kept, given)
  <2>1. \A r \in Proc : \A f \in Kept(r)' : f \in Kept(r) \/ \E i \in kept : f = F[i]
    <3>. SUFFICES ASSUME NEW r \in Proc, NEW f \in Kept(r)', f \notin Kept(r) PROVE \E i \in kept : f = F[i]
      OBVIOUS
    <3>1. CASE r = p
      <4>1. tables'[p] = {F[1]}  BY <1>1, <1>4 DEF TypeOK
      <4>2. f = F[1] \/ f = F[4]  BY <1>12, <1>13, <1>14, <3>1, <4>1 DEF Kept
      <4>. QED  BY <1>23, <4>2
    <3>2. CASE r # p
      <4>1. tables'[r] = tables[r] /\ pt'[r] = pt[r] /\ space'[r] = space[r]
        BY <1>1, <1>4, <1>13, <1>14, <3>2, ConstantFacts DEF TypeOK
      <4>. QED  BY <4>1 DEF Kept
    <3>. QED  BY <3>1, <3>2
  <2>2. ASSUME NEW u \in alive', NEW wa \in Mine(u), Ent(u, wa)' # None
        PROVE  \/ u \in alive /\ Ent(u, wa) # None /\ Ent(u, wa)'.pfn = Ent(u, wa).pfn
               \/ \E i : <<i, u, wa>> \in given /\ Ent(u, wa)'.pfn = F[i]
    <3>1. CASE u = p
      <4>1. wa \in Va /\ wa # Image  BY <1>2, <3>1, MineFacts
      <4>2. wa = k \/ wa = m  BY <1>12, <1>20, <2>2, <3>1, <4>1
      <4>3. wa = k => <<2, u, wa>> \in given /\ Ent(u, wa)'.pfn = F[2]  BY <1>12, <1>20, <1>24, <3>1
      <4>4. wa = m => <<3, u, wa>> \in given /\ Ent(u, wa)'.pfn = F[3]  BY <1>12, <1>20, <1>24, <3>1
      <4>. QED  BY <4>2, <4>3, <4>4
    <3>2. CASE u # p  BY <1>4, <1>19, <2>2, <3>2
    <3>. QED  BY <3>1, <3>2
  <2>3. \A i, u, wa : <<i, u, wa>> \in given => i \in (1 .. 4) \ kept  BY <1>23, <1>24
  <2>4. \A i, u, wa, v, xa : <<i, u, wa>> \in given /\ <<i, v, xa>> \in given => u = v /\ wa = xa
    BY <1>24
  <2>5. kept \subseteq 1 .. 4  BY <1>23
  <2>. QED  BY <2>1, <2>2, <2>3, <2>4, <2>5 DEF GivesOut
<1>26. PICK l : l = ExecList(p, F)  OBVIOUS
<1>27. /\ l \in Seq(PageTs) /\ DOMAIN l = 1 .. 2
       /\ l[1].va = k /\ l[1].pa = F[2] /\ l[1].atds = 1 /\ l[2].va = m /\ l[2].pa = F[3] /\ l[2].atds = 1
  <2>1. PICK a : a = PageT(k, F[2], 1)  OBVIOUS
  <2>2. PICK b : b = PageT(m, F[3], 1)  OBVIOUS
  <2>3. /\ a = [va |-> k, pa |-> F[2], atds |-> 1, block |-> 0]
        /\ b = [va |-> m, pa |-> F[3], atds |-> 1, block |-> 0]
    BY <2>1, <2>2 DEF PageT
  <2>4. a \in PageTs /\ b \in PageTs  BY <1>6, <1>10, <2>3, ConstantFacts DEF PageTs
  <2>5. l = <<a, b>>  BY <1>8, <1>9, <1>26, <2>1, <2>2 DEF ExecList
  <2>. QED  BY <2>3, <2>4, <2>5
<1>28. ListOK(p, Vm(p)') /\ Reads(p, Vm(p)', want'[space'[p]])
  <2>1. PICK vn : vn = Vm(p)'  OBVIOUS
  <2>2. vn.pt = tab /\ vn.plist = l /\ vn.mem = mem'
    BY <1>1, <1>2, <1>4, <1>13, <1>14, <1>26, <2>1 DEF Vm, TypeOK
  <2>3. ListOK(p, vn)
    <3>1. \A i \in 1 .. 2 : i = 1 \/ i = 2  OBVIOUS
    <3>. QED  BY <1>10, <1>12, <1>27, <2>2, <3>1 DEF ListOK
  <2>4. Reads(p, vn, w)
    <3>1. \A va \in Touches[p] : va \in Va /\ va # k  BY <1>2, <1>10, MineFacts
    <3>2. \A va \in Touches[p] : tab[va] # None => va = m \/ va = Image  BY <1>12, <3>1
    <3>. QED  BY <1>7, <1>12, <1>17, <2>2, <3>2 DEF Reads
  <2>. QED  BY <1>14, <1>18, <2>1, <2>3, <2>4
<1>29. /\ pnum' \in [Task -> Int] /\ pt' \in [Proc -> [Va -> PTE \cup {None}]]
       /\ tables' \in [Proc -> SUBSET Frame] /\ want' \in [Proc -> [Va -> Contents]]
  BY <1>1, <1>2, <1>4, <1>6, <1>11, <1>12, <1>16, <1>17 DEF TypeOK
<1>30. \A r \in Proc : \A f \in tables'[r] : f \in tables[r] \/ mem'[f] = "table"
  BY <1>1, <1>4, <1>7 DEF TypeOK
<1>31. \A r \in Proc : space'[r] # None =>
         \/ space[r] # None /\ pt'[r][Image] = pt[r][Image] /\ want'[r][Image] = want[r][Image]
         \/ mem'[pt'[r][Image].pfn] = want'[r][Image]
  BY <1>7, <1>12, <1>13, <1>14, <1>17, <1>18, ConstantFacts
<1>32. mem'[Ent(p, KernelStack(p))'.pfn] = "kstack"  BY <1>7, <1>8, <1>12, <1>20
<1>33. /\ alive' = alive \cup {p} /\ space' = [space EXCEPT ![p] = p]
       /\ plist' = [plist EXCEPT ![p] = l] /\ UNCHANGED <<current, swap, tlb, instr>>
  BY <1>4, <1>26
<1>34. 4 \in Nat /\ Alloc(4) /\ p \notin alive  BY <1>4
<1>. QED
  BY <1>2, <1>3, <1>7, <1>19, <1>21, <1>22, <1>25, <1>27, <1>28, <1>29, <1>30, <1>31, <1>32, <1>33, <1>34, CreateKeeps

\* A thread gets its stacks in the table of its process.
LEMMA ThreadKeeps ==
  ASSUME IInv, NEW t \in Thread, do_mthread_create(t)
  PROVE  IInv'
<1>1. TypeOK /\ Spaces /\ Mapped /\ FreeOK /\ Apart /\ Pages /\ Kernel  BY DEF IInv
<1>2. t \in Task /\ t \notin Proc /\ \A u \in alive : u \in Task /\ space[u] \in Proc
  BY <1>1, ConstantFacts DEF TypeOK, Spaces
<1>3. PICK F : F = Taken(2)  OBVIOUS
<1>4. PICK s : s = space[current]  OBVIOUS
<1>5. s \in Proc /\ space[s] = s /\ space[s] # None
  <2>1. current \in alive  BY <1>1 DEF do_mthread_create, TypeOK
  <2>. QED  BY <1>1, <1>2, <1>4, <2>1, ConstantFacts DEF Spaces
<1>6. PICK k : k = KernelStack(t)  OBVIOUS
<1>7. PICK m : m = UserStack(t)  OBVIOUS
<1>8. /\ k \in Va /\ m \in Va /\ Image \in Va /\ k # m /\ k # Image /\ m # Image
      /\ k \notin Page /\ m \notin Page
      /\ k \in Mine(t) /\ m \in Mine(t) /\ k \notin Touches[t] /\ Image \notin Mine(t) /\ Page \subseteq Va
      /\ \A wa \in Mine(t) : wa = k \/ wa = m \/ wa \in Touches[t] \cap Page
      /\ \A wa \in Touches[t] : wa \in Mine(t) \cup {Image} /\ wa \in Va
  <2>1. \A wa \in Mine(t) : wa = k \/ wa = m \/ wa \in Touches[t] \cap Page
    <3>1. \A wa \in Mine(t) : wa = k \/ wa = m \/ wa \in Touches[t]  BY <1>6, <1>7 DEF Mine
    <3>. QED  BY <1>2, <1>6, <1>7, <3>1, MineFacts
  <2>. QED  BY <1>2, <1>6, <1>7, <2>1, MineFacts, ConstantFacts DEF KernelStack, UserStack
<1>9. PICK e1 : e1 = Entry(F[1], FALSE)  OBVIOUS
<1>10. PICK e2 : e2 = Entry(F[2], FALSE)  OBVIOUS
<1>11. PICK l : l = <<PageT(k, F[1], 1)>>  OBVIOUS
<1>12. /\ t \notin alive /\ space[t] = None /\ Alloc(2)
       /\ pt' = [pt EXCEPT ![s][k] = e1, ![s][m] = e2]
       /\ mem' = [Zeroed(mem, 2) EXCEPT ![F[1]] = "kstack", ![F[2]] = "args"]
       /\ want' = [want EXCEPT ![s][m] = "args"]
       /\ plist' = [plist EXCEPT ![t] = l] /\ space' = [space EXCEPT ![t] = s]
       /\ alive' = alive \cup {t}
       /\ UNCHANGED <<current, tables, pnum, swap, tlb, instr>>
  BY <1>3, <1>4, <1>6, <1>7, <1>9, <1>10, <1>11 DEF do_mthread_create
<1>13. F[1] \in Frame /\ F[2] \in Frame /\ F[1] # F[2] /\ ~ InUse(F[1]) /\ ~ InUse(F[2])
  <2>1. 1 \in 1 .. 2 /\ 2 \in 1 .. 2  OBVIOUS
  <2>2. /\ \A i \in 1 .. 2 : F[i] \in Frame /\ ~ InUse(F[i])
        /\ \A i, j \in 1 .. 2 : F[i] = F[j] => i = j
    BY <1>1, <1>3, <1>12, AllocOK
  <2>. QED  BY <2>1, <2>2
<1>14. /\ mem' \in [Frame -> Contents] /\ mem'[F[1]] = "kstack" /\ mem'[F[2]] = "args"
       /\ \A g : InUse(g) => mem'[g] = mem[g]
  <2>1. PICK z : z = Zeroed(mem, 2)  OBVIOUS
  <2>2. z \in [Frame -> Contents] /\ \A g \in Frame : z[g] = IF \E i \in 1 .. 2 : g = F[i] THEN "0" ELSE mem[g]
    BY <1>1, <1>3, <2>1 DEF Zeroed, Contents, TypeOK
  <2>3. mem' = [z EXCEPT ![F[1]] = "kstack", ![F[2]] = "args"]  BY <1>12, <2>1
  <2>4. mem' \in [Frame -> Contents] /\ mem'[F[1]] = "kstack" /\ mem'[F[2]] = "args"
    BY <1>13, <2>2, <2>3 DEF Contents
  <2>5. ASSUME NEW g, InUse(g) PROVE mem'[g] = mem[g]
    <3>1. g \in Frame /\ g # F[1] /\ g # F[2]  BY <1>1, <1>13, <2>5, InUseFacts
    <3>2. \A i \in 1 .. 2 : i = 1 \/ i = 2  OBVIOUS
    <3>. QED  BY <2>2, <2>3, <3>1, <3>2
  <2>. QED  BY <2>4, <2>5
<1>15. /\ e1 \in PTE /\ e1.pfn = F[1] /\ e1.v /\ e1 # None
       /\ e2 \in PTE /\ e2.pfn = F[2] /\ e2.v /\ e2 # None
  <2>1. \A f \in Frame : Entry(f, FALSE) \in PTE /\ Entry(f, FALSE).pfn = f /\ Entry(f, FALSE).v
    BY DEF Entry, PTE
  <2>2. e1 \in PTE /\ e1.pfn = F[1] /\ e1.v /\ e2 \in PTE /\ e2.pfn = F[2] /\ e2.v
    BY <1>9, <1>10, <1>13, <2>1
  <2>. QED  BY <2>2, ConstantFacts
<1>16. /\ pt' \in [Proc -> [Va -> PTE \cup {None}]]
       /\ pt'[s][k] = e1 /\ pt'[s][m] = e2
       /\ \A p \in Proc : \A va \in Va : p # s \/ va \notin {k, m} => pt'[p][va] = pt[p][va]
  <2>1. PICK tab : tab = [pt[s] EXCEPT ![k] = e1, ![m] = e2]  OBVIOUS
  <2>2. pt \in [Proc -> [Va -> PTE \cup {None}]] /\ pt[s] \in [Va -> PTE \cup {None}]
    BY <1>1, <1>5 DEF TypeOK
  <2>3. pt' = [pt EXCEPT ![s] = tab]  BY <1>5, <1>12, <2>1, <2>2
  <2>4. /\ tab \in [Va -> PTE \cup {None}] /\ tab[k] = e1 /\ tab[m] = e2
        /\ \A va \in Va : va \notin {k, m} => tab[va] = pt[s][va]
    BY <1>8, <1>15, <2>1, <2>2
  <2>. QED  BY <1>5, <2>2, <2>3, <2>4
<1>17. space'[t] = s /\ \A u \in Task : u # t => space'[u] = space[u]  BY <1>1, <1>2, <1>12 DEF TypeOK
<1>18. /\ want' \in [Proc -> [Va -> Contents]] /\ want'[s][m] = "args"
       /\ \A p \in Proc : \A va \in Va : p # s \/ va # m => want'[p][va] = want[p][va]
  BY <1>1, <1>5, <1>8, <1>12 DEF TypeOK, Contents
<1>19. \A u \in alive : \A wa \in Mine(u) \cup {Image} :
         /\ Ent(u, wa)' = Ent(u, wa) /\ want'[space[u]][wa] = want[space[u]][wa]
         /\ u # t /\ space'[u] = space[u] /\ wa \in Va /\ wa \notin {k, m}
  <2>. SUFFICES ASSUME NEW u \in alive, NEW wa \in Mine(u) \cup {Image}
                PROVE  /\ Ent(u, wa)' = Ent(u, wa) /\ want'[space[u]][wa] = want[space[u]][wa]
                       /\ u # t /\ space'[u] = space[u] /\ wa \in Va /\ wa \notin {k, m}
    OBVIOUS
  <2>1. u # t /\ space'[u] = space[u] /\ space[u] \in Proc  BY <1>2, <1>12, <1>17
  <2>2. wa \in Va  BY <1>2, MineFacts
  <2>3. wa \notin {k, m}  BY <1>2, <1>8, <2>1, MineApart
  <2>. QED  BY <1>16, <1>18, <2>1, <2>2, <2>3 DEF Ent
<1>20. /\ Ent(t, k)' = e1 /\ Ent(t, m)' = e2
       /\ \A wa \in Touches[t] \cap Page : Ent(t, wa)' = None
       /\ Ent(t, Image)' = pt[s][Image]
  <2>1. \A wa \in Touches[t] \cap Page : pt[s][wa] = None  BY <1>1, <1>5, <1>12 DEF Spaces
  <2>2. \A wa : Ent(t, wa)' = pt'[s][wa]  BY <1>17 DEF Ent
  <2>. QED  BY <1>5, <1>8, <1>16, <2>1, <2>2
<1>21. Spaces'
  <2>1. \A u \in alive' : space'[u] # None
    <3>1. s # None  BY <1>5
    <3>. QED  BY <1>1, <1>2, <1>12, <1>17, <3>1 DEF Spaces
  <2>2. \A r \in Proc : r \in Task /\ r # t /\ space'[r] = space[r]  BY <1>2, <1>17, ConstantFacts
  <2>3. \A u \in Task : space'[u] # None => space'[space'[u]] = space'[u]
    <3>. SUFFICES ASSUME NEW u \in Task, space'[u] # None PROVE space'[space'[u]] = space'[u]
      OBVIOUS
    <3>1. CASE u = t  BY <1>5, <1>17, <2>2, <3>1
    <3>2. CASE u # t
      <4>1. space'[u] = space[u] /\ space[u] \in Proc /\ space[space[u]] = space[u]
        BY <1>1, <1>17, <3>2 DEF Spaces, TypeOK
      <4>. QED  BY <2>2, <4>1
    <3>. QED  BY <3>1, <3>2
  <2>4. ASSUME NEW u \in Thread, space'[u] = None, NEW r \in Proc, NEW va \in Touches[u] \cap Page
        PROVE  pt'[r][va] = None
    <3>1. u \in Task /\ space[u] = None  BY <1>5, <1>17, <2>4, ConstantFacts
    <3>2. pt[r][va] = None  BY <1>1, <2>4, <3>1 DEF Spaces
    <3>3. va \in Va /\ va \notin {k, m}  BY <1>8
    <3>. QED  BY <1>16, <3>2, <3>3
  <2>. QED  BY <1>1, <2>1, <2>2, <2>3, <2>4 DEF Spaces
<1>22. Mapped'
  <2>1. ASSUME NEW u \in alive' PROVE \A va \in {UserStack(u), KernelStack(u)} : Ent(u, va)' # None
    <3>1. CASE u = t  BY <1>6, <1>7, <1>15, <1>20, <3>1
    <3>2. CASE u # t
      <4>1. u \in alive /\ u \in Task  BY <1>2, <1>12, <3>2
      <4>2. \A va \in {UserStack(u), KernelStack(u)} : va \in Mine(u)  BY <4>1, MineFacts
      <4>. QED  BY <1>1, <1>19, <4>1, <4>2 DEF Mapped
    <3>. QED  BY <3>1, <3>2
  <2>2. \A r \in Proc : r \in Task /\ r # t /\ space'[r] = space[r] /\ pt'[r][Image] = pt[r][Image]
    BY <1>2, <1>8, <1>16, <1>17, ConstantFacts
  <2>3. \A r \in Proc : \A va \in Page : pt'[r][va] = pt[r][va] /\ want'[r][va] = want[r][va]
    BY <1>8, <1>16, <1>18
  <2>. QED  BY <1>1, <2>1, <2>2, <2>3 DEF Mapped
<1>23. PICK kept : kept = {}  OBVIOUS
<1>24. PICK given : given = {<<1, t, k>>, <<2, t, m>>}  OBVIOUS
<1>25. GivesOut(2, F, kept, given)
  <2>1. \A r \in Proc : \A f \in Kept(r)' : f \in Kept(r) \/ \E i \in kept : f = F[i]
    <3>1. \A r \in Proc : r \in Task /\ r # t /\ space'[r] = space[r] /\ pt'[r][Image] = pt[r][Image]
      BY <1>2, <1>8, <1>16, <1>17, ConstantFacts
    <3>. QED  BY <1>12, <3>1 DEF Kept
  <2>2. ASSUME NEW u \in alive', NEW wa \in Mine(u), Ent(u, wa)' # None
        PROVE  \/ u \in alive /\ Ent(u, wa) # None /\ Ent(u, wa)'.pfn = Ent(u, wa).pfn
               \/ \E i : <<i, u, wa>> \in given /\ Ent(u, wa)'.pfn = F[i]
    <3>1. CASE u = t
      <4>1. wa = k \/ wa = m  BY <1>8, <1>20, <2>2, <3>1
      <4>2. wa = k => <<1, u, wa>> \in given /\ Ent(u, wa)'.pfn = F[1]  BY <1>15, <1>20, <1>24, <3>1
      <4>3. wa = m => <<2, u, wa>> \in given /\ Ent(u, wa)'.pfn = F[2]  BY <1>15, <1>20, <1>24, <3>1
      <4>. QED  BY <4>1, <4>2, <4>3
    <3>2. CASE u # t  BY <1>12, <1>19, <2>2, <3>2
    <3>. QED  BY <3>1, <3>2
  <2>3. \A i, u, wa : <<i, u, wa>> \in given => i \in (1 .. 2) \ kept  BY <1>23, <1>24
  <2>4. \A i, u, wa, v, xa : <<i, u, wa>> \in given /\ <<i, v, xa>> \in given => u = v /\ wa = xa
    BY <1>24
  <2>5. kept \subseteq 1 .. 2  BY <1>23
  <2>. QED  BY <2>1, <2>2, <2>3, <2>4, <2>5 DEF GivesOut
<1>26. l \in Seq(PageTs) /\ DOMAIN l = 1 .. 1 /\ l[1].va = k /\ l[1].pa = F[1] /\ l[1].atds = 1
  <2>1. PICK a : a = PageT(k, F[1], 1)  OBVIOUS
  <2>2. a = [va |-> k, pa |-> F[1], atds |-> 1, block |-> 0]  BY <2>1 DEF PageT
  <2>3. a \in PageTs  BY <1>8, <1>13, <2>2, ConstantFacts DEF PageTs
  <2>4. l = <<a>>  BY <1>11, <2>1
  <2>. QED  BY <2>2, <2>3, <2>4
<1>27. ListOK(t, Vm(t)') /\ Reads(t, Vm(t)', want'[space'[t]])
  <2>1. PICK vn : vn = Vm(t)'  OBVIOUS
  <2>2. vn.plist = l /\ vn.mem = mem' /\ vn.pt[k] = e1 /\ vn.pt[m] = e2 /\ vn.pt[Image] = pt[s][Image]
        /\ \A wa \in Touches[t] \cap Page : vn.pt[wa] = None
    <3>1. plist'[t] = l  BY <1>1, <1>2, <1>12 DEF TypeOK
    <3>2. \A wa : vn.pt[wa] = Ent(t, wa)'  BY <2>1 DEF Vm, Ent
    <3>. QED  BY <1>20, <2>1, <3>1, <3>2 DEF Vm
  <2>3. ListOK(t, vn)
    <3>1. \A i \in 1 .. 1 : i = 1  OBVIOUS
    <3>. QED  BY <1>8, <1>15, <1>26, <2>2, <3>1 DEF ListOK
  <2>4. Reads(t, vn, want'[s])
    <3>1. \A va \in Touches[t] : vn.pt[va] # None => va = m \/ va = Image  BY <1>8, <2>2
    <3>2. mem'[e2.pfn] = want'[s][m] /\ e2.v  BY <1>14, <1>15, <1>18
    <3>3. mem'[pt[s][Image].pfn] = want'[s][Image] /\ pt[s][Image].v
      <4>1. pt[s][Image].v /\ mem[pt[s][Image].pfn] = want[s][Image]  BY <1>1, <1>5 DEF Mapped, Kernel
      <4>2. pt[s][Image].pfn \in Kept(s)  BY <1>5 DEF Kept
      <4>3. InUse(pt[s][Image].pfn)  BY <1>5, <4>2 DEF InUse
      <4>. QED  BY <1>5, <1>8, <1>14, <1>18, <4>1, <4>3
    <3>. QED  BY <2>2, <3>1, <3>2, <3>3 DEF Reads
  <2>. QED  BY <1>17, <2>1, <2>3, <2>4
<1>28. /\ pnum' \in [Task -> Int] /\ tables' \in [Proc -> SUBSET Frame]
       /\ \A r \in Proc : \A f \in tables'[r] : f \in tables[r] \/ mem'[f] = "table"
  BY <1>1, <1>12 DEF TypeOK
<1>29. \A r \in Proc : space'[r] # None =>
         \/ space[r] # None /\ pt'[r][Image] = pt[r][Image] /\ want'[r][Image] = want[r][Image]
         \/ mem'[pt'[r][Image].pfn] = want'[r][Image]
  <2>1. \A r \in Proc : r \in Task /\ r # t /\ space'[r] = space[r] /\ pt'[r][Image] = pt[r][Image]
                        /\ want'[r][Image] = want[r][Image]
    BY <1>2, <1>8, <1>16, <1>17, <1>18, ConstantFacts
  <2>. QED  BY <2>1
<1>30. mem'[Ent(t, KernelStack(t))'.pfn] = "kstack"  BY <1>6, <1>14, <1>15, <1>20
<1>31. /\ alive' = alive \cup {t} /\ space' = [space EXCEPT ![t] = s]
       /\ plist' = [plist EXCEPT ![t] = l] /\ UNCHANGED <<current, swap, tlb, instr>>
       /\ 2 \in Nat /\ Alloc(2) /\ t \notin alive
  BY <1>12
<1>32. \A u \in alive : \A wa \in Mine(u) \cup {Image} :
         Ent(u, wa)' = Ent(u, wa) /\ want'[space[u]][wa] = want[space[u]][wa]
  BY <1>19
<1>33. mem' \in [Frame -> Contents] /\ \A g : InUse(g) => mem'[g] = mem[g]  BY <1>14
<1>34. /\ pt' \in [Proc -> [Va -> PTE \cup {None}]] /\ want' \in [Proc -> [Va -> Contents]]
       /\ l \in Seq(PageTs) /\ t \in Task /\ s \in Proc
  BY <1>2, <1>5, <1>16, <1>18, <1>26
<1>. QED
  BY <1>3, <1>21, <1>22, <1>25, <1>27, <1>28, <1>29, <1>30, <1>31, <1>32, <1>33, <1>34, CreateKeeps

-----------------------------------------------------------------------------
(* The invariant, and what follows from it. *)

\* The shell starts with frames of its own and no list.
LEMMA InitOK == Init => IInv
<1>. SUFFICES ASSUME Init PROVE IInv  OBVIOUS
<1>1. PICK F : F = <<1, 2, 3, 4>>  OBVIOUS
<1>2. F[1] = 1 /\ F[2] = 2 /\ F[3] = 3 /\ F[4] = 4  BY <1>1
<1>3. 1 \in Frame /\ 2 \in Frame /\ 3 \in Frame /\ 4 \in Frame  BY ConstantFacts DEF Frame
<1>4. Shell \in Proc /\ Shell \in Task /\ Shell # None  BY ConstantFacts
<1>5. /\ alive = {Shell} /\ current = Shell
      /\ space = [t \in Task |-> IF t = Shell THEN Shell ELSE None]
      /\ pt = [p \in Proc |-> IF p = Shell THEN ExecTable(p, F) ELSE Blank]
      /\ tables = [p \in Proc |-> IF p = Shell THEN {1} ELSE {}]
      /\ plist = [t \in Task |-> <<>>] /\ pnum = [t \in Task |-> 0]
      /\ freePageList = <<>> /\ memCurr = 4
      /\ mem = ExecMem([f \in Frame |-> "junk"], F)
      /\ card = [b \in 0 .. MaxSwap |-> "junk"] /\ swap_block = 0
      /\ tlb = None /\ instr = [t \in Task |-> None] /\ want = [p \in Proc |-> ExecWant(p)]
  BY <1>1 DEF Init
<1>6. PICK k : k = KernelStack(Shell)  OBVIOUS
<1>7. PICK m : m = UserStack(Shell)  OBVIOUS
<1>8. PICK tab : tab = ExecTable(Shell, F)  OBVIOUS
<1>9. \A p \in Proc : /\ ExecWant(p) \in [Va -> Contents]
                      /\ \A va \in Page : ExecWant(p)[va] = "0"
  <2>1. \A p \in Proc : p \in Task  BY ConstantFacts
  <2>2. \A p \in Proc : \A va \in Page : va # p /\ va # Image /\ va \in Va  BY <2>1, ConstantFacts DEF Va
  <2>. QED  BY <2>2 DEF ExecWant, Contents, UserStack
<1>10. /\ k \in Va /\ m \in Va /\ Image \in Va /\ k # m /\ k # Image /\ m # Image
       /\ k \notin Page /\ m \notin Page /\ Image \notin Page
       /\ k \in Mine(Shell) /\ m \in Mine(Shell) /\ k \notin Touches[Shell] /\ Image \notin Mine(Shell)
       /\ Page \subseteq Va
       /\ tab \in [Va -> PTE \cup {None}]
       /\ tab[k] # None /\ tab[k].pfn = 2 /\ tab[k].v
       /\ tab[m] # None /\ tab[m].pfn = 3 /\ tab[m].v
       /\ tab[Image] # None /\ tab[Image].pfn = 4 /\ tab[Image].v
       /\ \A va \in Va : va \notin {k, m, Image} => tab[va] = None
       /\ ExecWant(Shell)[m] = "args" /\ ExecWant(Shell)[Image] = "elf"
  BY <1>2, <1>3, <1>4, <1>6, <1>7, <1>8, ExecFacts
<1>11. /\ mem \in [Frame -> Contents]
       /\ mem[1] = "table" /\ mem[2] = "kstack" /\ mem[3] = "args" /\ mem[4] = "elf"
  <2>1. PICK z : z = [f \in Frame |-> "junk"]  OBVIOUS
  <2>2. mem = [z EXCEPT ![1] = "table", ![2] = "kstack", ![3] = "args", ![4] = "elf"]
    BY <1>2, <1>5, <2>1 DEF ExecMem
  <2>3. z \in [Frame -> Contents]  BY <2>1 DEF Contents
  <2>. QED  BY <1>3, <2>2, <2>3 DEF Contents
<1>12. /\ space[Shell] = Shell /\ pt[Shell] = tab /\ tables[Shell] = {1} /\ want[Shell] = ExecWant(Shell)
       /\ \A va : Ent(Shell, va) = tab[va]
       /\ \A p \in Proc : p # Shell => space[p] = None /\ pt[p] = Blank /\ tables[p] = {}
  BY <1>4, <1>5, <1>8, ConstantFacts DEF Ent
<1>13. /\ Blank \in [Va -> PTE \cup {None}] /\ \A va \in Page : Blank[va] = None /\ tab[va] = None
  BY <1>10 DEF Blank
<1>14. TypeOK
  <2>1. pt \in [Proc -> [Va -> PTE \cup {None}]]  BY <1>5, <1>8, <1>10, <1>13
  <2>2. plist \in [Task -> Seq(PageTs)] /\ freePageList \in Seq(Frame)  BY <1>5, EmptySeq
  <2>3. card \in [0 .. MaxSwap -> Contents] /\ swap_block \in 0 .. MaxSwap /\ memCurr \in 0 .. MaxFrame
    BY <1>5, ConstantFacts DEF Contents
  <2>4. want \in [Proc -> [Va -> Contents]]  BY <1>5, <1>9
  <2>5. /\ alive \subseteq Task /\ current \in alive \cup {None} /\ space \in [Task -> Proc \cup {None}]
        /\ tables \in [Proc -> SUBSET Frame] /\ pnum \in [Task -> Int]
        /\ tlb \in {None} \cup [va : Va, entry : PTE]
        /\ instr \in [Task -> {None} \cup [va : Va, op : Data \cup Reading, faults : Nat]]
    BY <1>3, <1>4, <1>5
  <2>. QED  BY <1>11, <2>1, <2>2, <2>3, <2>4, <2>5 DEF TypeOK
<1>15. Spaces
  <2>1. /\ \A t \in alive : space[t] # None
        /\ \A p \in Proc : space[p] \in {p, None}
        /\ \A t \in Task : space[t] # None => space[space[t]] = space[t]
    BY <1>4, <1>5, <1>12
  <2>2. \A p \in Proc : \A va \in Page : pt[p][va] = None  BY <1>12, <1>13
  <2>. QED  BY <2>1, <2>2 DEF Spaces
<1>16. Mapped  BY <1>4, <1>5, <1>6, <1>7, <1>9, <1>10, <1>12 DEF Mapped
<1>17. FreeOK  BY <1>5 DEF FreeOK
<1>18. Apart
  <2>1. \A va \in Mine(Shell) : tab[va] # None => va = k \/ va = m
    <3>1. \A va \in Mine(Shell) : va \in Va /\ va # Image  BY <1>4, MineFacts
    <3>. QED  BY <1>10, <3>1
  <2>2. \A f : Owned(f) => f = 2 \/ f = 3  BY <1>5, <1>10, <1>12, <2>1 DEF Owned
  <2>3. \A p \in Proc : \A f \in Kept(p) : f = 1 \/ f = 4  BY <1>10, <1>12 DEF Kept
  <2>4. \A f : ~ IsFree(f)  BY <1>5 DEF IsFree
  <2>5. memCurr = 4  BY <1>5
  <2>6. \A f : f = 1 \/ f = 4 => f <= memCurr /\ f # 2 /\ f # 3  BY <2>5
  <2>7. \A p \in Proc : \A f \in Kept(p) : f <= memCurr /\ ~ IsFree(f) /\ ~ Owned(f)
    BY <2>2, <2>3, <2>4, <2>6
  <2>8. \A f \in Frame : Owned(f) => f <= memCurr /\ ~ IsFree(f)  BY <2>2, <2>4, <2>5
  <2>9. \A t, u \in alive : \A va \in Mine(t), wa \in Mine(u) :
          Ent(t, va) # None /\ Ent(u, wa) # None /\ Ent(t, va).pfn = Ent(u, wa).pfn => t = u /\ va = wa
    BY <1>5, <1>10, <1>12, <2>1
  <2>. QED  BY <2>7, <2>8, <2>9 DEF Apart
<1>19. Pages
  <2>1. PICK vo : vo = Vm(Shell)  OBVIOUS
  <2>2. vo.pt = tab /\ vo.plist = <<>> /\ vo.mem = mem  BY <1>4, <1>5, <1>12, <2>1 DEF Vm
  <2>3. ListOK(Shell, vo)  BY <2>2 DEF ListOK
  <2>4. \A va \in Touches[Shell] : tab[va] # None => va = m \/ va = Image
    <3>1. \A va \in Touches[Shell] : va \in Va /\ va # k  BY <1>4, <1>10, MineFacts
    <3>. QED  BY <1>10, <3>1
  <2>5. Reads(Shell, vo, want[space[Shell]])  BY <1>10, <1>11, <1>12, <2>2, <2>4 DEF Reads
  <2>. QED  BY <1>5, <2>1, <2>3, <2>5 DEF Pages
<1>20. Kernel  BY <1>5, <1>6, <1>10, <1>11, <1>12 DEF Kernel
<1>21. TlbOK  BY <1>5 DEF TlbOK
<1>. QED  BY <1>14, <1>15, <1>16, <1>17, <1>18, <1>19, <1>20, <1>21 DEF IInv

\* Each step keeps the invariant.
LEMMA NextOK == IInv /\ [Next]_vars => IInv'
<1>. SUFFICES ASSUME IInv, [Next]_vars PROVE IInv'  OBVIOUS
<1>1. TypeOK  BY DEF IInv
<1>2. CASE Access
  <2>0. PICK t \in alive : \E va \in Touches[t] :
          IF va = Image THEN Execute(t, va, "fetch") \/ SetBits(t, va, "fetch")
          ELSE \E op \in Data \cup {"load"} :
            Execute(t, va, op) \/ SetBits(t, va, op) \/ SwapIn(t, va, op) \/ MapNew(t, va, op)
    BY <1>2 DEF Access
  <2>1. PICK va \in Touches[t] :
          IF va = Image THEN Execute(t, va, "fetch") \/ SetBits(t, va, "fetch")
          ELSE \E op \in Data \cup {"load"} :
            Execute(t, va, op) \/ SetBits(t, va, op) \/ SwapIn(t, va, op) \/ MapNew(t, va, op)
    BY <2>0
  <2>2. PICK op \in Data \cup Reading :
          /\ va = Image => op \in Reading
          /\ \/ Execute(t, va, op) \/ SetBits(t, va, op)
             \/ va # Image /\ (SwapIn(t, va, op) \/ MapNew(t, va, op))
    <3>1. "fetch" \in Reading /\ "load" \in Reading  BY DEF Reading
    <3>. QED  BY <2>1, <3>1
  <2>. QED  BY <2>2, ExecuteKeeps, SetBitsKeeps, SwapInKeeps, MapNewKeeps
<1>3. ASSUME NEW p \in Proc, do_exec(p) PROVE IInv'  BY <1>3, ExecKeeps
<1>4. ASSUME NEW t \in Thread, do_mthread_create(t) PROVE IInv'  BY <1>4, ThreadKeeps
<1>5. ASSUME NEW t \in Task, do_kill(t) PROVE IInv'
  <2>1. t \in alive /\ Recycle(t)  BY <1>5 DEF do_kill
  <2>2. (t # current /\ UNCHANGED <<current, tlb>>) \/ Schedule(alive \ {t})  BY <1>5 DEF do_kill
  <2>. QED  BY <2>1, <2>2, RecycleKeeps
<1>6. CASE do_exit
  <2>1. current \in alive  BY <1>1, <1>6 DEF do_exit, TypeOK
  <2>. QED  BY <1>6, <2>1, RecycleKeeps DEF do_exit
<1>7. CASE do_scheduler  BY <1>7, SchedulerKeeps
<1>8. CASE UNCHANGED vars
  <2>1. UNCHANGED <<alive, current, space, pt, tables, plist, pnum, frames, mem, swap, tlb, instr, want>>
    BY <1>8 DEF vars, tasks
  <2>2. Spaces' /\ Mapped' /\ FreeOK' /\ Apart' /\ Pages' /\ Kernel'  BY <2>1, MemoryKeeps
  <2>3. TypeOK'  BY <1>1, <2>1 DEF TypeOK, frames, swap
  <2>4. TlbOK'
    <3>1. TlbOK  BY DEF IInv
    <3>. QED  BY <2>1, <3>1 DEF TlbOK, Ent
  <2>. QED  BY <2>2, <2>3, <2>4 DEF IInv
<1>. QED  BY <1>2, <1>3, <1>4, <1>5, <1>6, <1>7, <1>8 DEF Next

\* The invariant holds in every state.
LEMMA Invariance == Spec => []IInv
<1>1. Init => IInv  BY InitOK
<1>2. IInv /\ [Next]_vars => IInv'  BY NextOK
<1>. QED  BY <1>1, <1>2, PTL DEF Spec

\* The variables of the page tables, lists and frames keep their types, and
\* no frame number passes the bound.
THEOREM PagingTyped == Spec => []TypeOK
<1>1. IInv => TypeOK  BY DEF IInv
<1>. QED  BY <1>1, Invariance, PTL

\* What a program may read, through its table or the TLB, is what it wrote
\* last: no page is lost or mixed up by do_swap, do_unswap and allocPage.
THEOREM ReadsWhatItWrote == Spec => []ReadsLastWrite
<1>1. IInv => ReadsLastWrite
  <2>. SUFFICES ASSUME IInv, NEW t \in alive, NEW va \in Touches[t]
                PROVE  /\ check_ad(pt[space[t]], va) => mem[pt[space[t]][va].pfn] = want[space[t]][va]
                       /\ current = t /\ tlb # None /\ tlb.va = va => mem[tlb.entry.pfn] = want[space[t]][va]
    BY DEF ReadsLastWrite
  <2>1. Pages /\ TlbOK  BY DEF IInv
  <2>2. PICK vo : vo = Vm(t)  OBVIOUS
  <2>3. Reads(t, vo, want[space[t]]) /\ vo.pt = pt[space[t]] /\ vo.mem = mem
    BY <2>1, <2>2 DEF Pages, Vm
  <2>4. check_ad(pt[space[t]], va) => mem[pt[space[t]][va].pfn] = want[space[t]][va]
    BY <2>3 DEF Reads, check_ad
  <2>5. current = t /\ tlb # None /\ tlb.va = va =>
          tlb.entry = pt[space[t]][va] /\ check_ad(pt[space[t]], va)
    BY <2>1 DEF TlbOK, Ent, check_ad
  <2>. QED  BY <2>4, <2>5
<1>. QED  BY <1>1, Invariance, PTL

\* No program gets a frame of a page table or a kernel stack in use.
THEOREM KernelKept == Spec => []KernelIntact
<1>1. IInv => KernelIntact
  <2>. SUFFICES ASSUME IInv, NEW t \in alive
                PROVE  /\ \A f \in tables[space[t]] : mem[f] = "table"
                       /\ mem[pt[space[t]][KernelStack(t)].pfn] = "kstack"
    BY DEF KernelIntact
  <2>1. Kernel /\ space[t] \in Proc  BY DEF IInv, TypeOK, Spaces
  <2>. QED  BY <2>1 DEF Kernel, Ent
<1>. QED  BY <1>1, Invariance, PTL

\* No frame is in the free list twice, or there and in a page table, or the
\* page of two tasks, however tasks are made and killed.
THEOREM FramesOwnedOnce == Spec => []OneOwner
<1>1. IInv => OneOwner
  <2>. SUFFICES ASSUME IInv PROVE OneOwner  OBVIOUS
  <2>1. TypeOK /\ Spaces /\ FreeOK /\ Apart  BY DEF IInv
  <2>2. \A t \in alive : t \in Task /\ space[t] \in Proc  BY <2>1 DEF TypeOK, Spaces
  <2>3. \A t \in alive : \A f \in FramesOf(t) :
          /\ Owned(f) /\ f \in Frame
          /\ \E va \in Mine(t) : Ent(t, va) # None /\ Ent(t, va).pfn = f
    <3>. SUFFICES ASSUME NEW t \in alive, NEW f \in FramesOf(t)
                  PROVE  /\ Owned(f) /\ f \in Frame
                         /\ \E va \in Mine(t) : Ent(t, va) # None /\ Ent(t, va).pfn = f
      OBVIOUS
    <3>1. PICK va \in Mine(t) : Ent(t, va) # None /\ Ent(t, va).pfn = f
      BY DEF FramesOf, PagesOf, Mine, Ent
    <3>2. va \in Va  BY <2>2, MineFacts
    <3>3. f \in Frame  BY <2>1, <2>2, <3>1, <3>2 DEF TypeOK, Ent, PTE
    <3>. QED  BY <3>1, <3>3 DEF Owned
  <2>4. \A t \in alive : FramesOf(t) \cap {freePageList[i] : i \in DOMAIN freePageList} = {}
    BY <2>1, <2>3 DEF Apart, IsFree
  <2>5. ASSUME NEW t \in alive, NEW u \in alive \ {t} PROVE FramesOf(t) \cap (FramesOf(u) \cup tables[space[u]]) = {}
    <3>1. FramesOf(t) \cap FramesOf(u) = {}  BY <2>1, <2>3 DEF Apart
    <3>2. FramesOf(t) \cap tables[space[u]] = {}  BY <2>1, <2>2, <2>3 DEF Apart, Kept
    <3>. QED  BY <3>1, <3>2
  <2>. QED  BY <2>1, <2>4, <2>5 DEF OneOwner, FreeOK
<1>. QED  BY <1>1, Invariance, PTL


-----------------------------------------------------------------------------
(* The count of the pages in memory. *)

\* The entries of a page list that are not on the card, what a process is charged
\* for its stacks, and that a memory is counted right.
Loaded(l) == {i \in DOMAIN l : l[i].atds = 0}
Stacks(t) == IF t \in Proc \ {Shell} THEN 2 ELSE 0
Charged(t, vm) == vm.pnum = Cardinality(Loaded(vm.plist)) + Stacks(t)

\* Every task that lives is charged right, and one to come with nothing yet: a task
\* is made once, and the shell never by do_exec.
Counted ==
  /\ \A t \in alive : pnum[t] = Cardinality(Loaded(plist[t])) + Stacks(t)
  /\ \A t \in Task : space[t] = None => pnum[t] = 0
  /\ space[Shell] # None

\* There are finitely many entries.
LEMMA LoadedFinite ==
  ASSUME NEW l \in Seq(PageTs)
  PROVE  IsFiniteSet(Loaded(l)) /\ Cardinality(Loaded(l)) \in Nat
<1>1. PICK n \in Nat : n = Len(l) /\ DOMAIN l = 1 .. n  BY LenProperties
<1>2. Loaded(l) \in SUBSET (1 .. n)  BY <1>1 DEF Loaded
<1>3. 1 \in Int /\ n \in Int  OBVIOUS
<1>4. IsFiniteSet(1 .. n)  BY <1>3, FS_Interval
<1>5. IsFiniteSet(Loaded(l))  BY <1>2, <1>4, FS_Subset
<1>. QED  BY <1>5, FS_CardinalityType

\* A new page counts.
LEMMA LoadedAppend ==
  ASSUME NEW l \in Seq(PageTs), NEW e \in PageTs, e.atds = 0
  PROVE  Cardinality(Loaded(Append(l, e))) = Cardinality(Loaded(l)) + 1
<1>1. PICK n \in Nat : n = Len(l) /\ DOMAIN l = 1 .. n  BY LenProperties
<1>2. PICK k : k = Append(l, e)  OBVIOUS
<1>3. /\ k \in Seq(PageTs) /\ Len(k) = n + 1 /\ k[n + 1] = e
      /\ \A i \in 1 .. n : k[i] = l[i]
  BY <1>1, <1>2, AppendProperties
<1>4. DOMAIN k = 1 .. n + 1  BY <1>3, LenProperties
<1>5. Loaded(k) = Loaded(l) \cup {n + 1} /\ n + 1 \notin Loaded(l)  BY <1>1, <1>3, <1>4 DEF Loaded
<1>6. Cardinality(Loaded(l) \cup {n + 1}) = Cardinality(Loaded(l)) + 1
  BY <1>5, LoadedFinite, FS_AddElement
<1>. QED  BY <1>2, <1>5, <1>6

\* A page that comes back from the card counts; the others keep their places.
LEMMA LoadedMoved ==
  ASSUME NEW l \in Seq(PageTs), NEW i \in DOMAIN l, l[i].atds = 1, NEW e \in PageTs, e.atds = 0
  PROVE  Cardinality(Loaded(Append(RemoveAt(l, i), e))) = Cardinality(Loaded(l)) + 1
<1>1. PICK n \in Nat : n = Len(l) /\ DOMAIN l = 1 .. n  BY LenProperties
<1>2. PICK k : k = Append(RemoveAt(l, i), e)  OBVIOUS
<1>3. /\ k \in Seq(PageTs) /\ Len(k) = n
      /\ \A j \in 1 .. n : k[j] = IF j < i THEN l[j] ELSE IF j < n THEN l[j + 1] ELSE e
  BY <1>1, <1>2, Moved
<1>4. DOMAIN k = 1 .. n /\ i \in 1 .. n /\ n \in 1 .. n
  <2>1. DOMAIN k = 1 .. Len(k)  BY <1>3, LenProperties
  <2>. QED  BY <1>1, <1>3, <2>1
<1>5. PICK S : S = Loaded(l)  OBVIOUS
<1>6. PICK T : T = Loaded(k) \ {n}  OBVIOUS
<1>7. \A j : j \in S <=> j \in 1 .. n /\ l[j].atds = 0  BY <1>1, <1>5 DEF Loaded
<1>8. \A j : j \in T <=> j \in 1 .. n /\ j # n /\ k[j].atds = 0  BY <1>4, <1>6 DEF Loaded
<1>9. PICK g : g = [j \in S |-> IF j < i THEN j ELSE j - 1]  OBVIOUS
<1>10. \A j \in S : j # i /\ j \in 1 .. n  BY <1>7
<1>11. ASSUME NEW j \in S PROVE g[j] \in T
  <2>1. CASE j < i
    <3>1. g[j] = j /\ j # n /\ k[j] = l[j]  BY <1>3, <1>4, <1>9, <1>10, <2>1
    <3>. QED  BY <1>7, <1>8, <3>1
  <2>2. CASE j > i
    <3>1. PICK m \in 1 .. n : m = j - 1  BY <1>4, <1>10, <2>2
    <3>2. g[j] = m /\ ~ (m < i) /\ m < n /\ m + 1 = j  BY <1>4, <1>9, <1>10, <2>2, <3>1
    <3>3. k[m] = l[j]  BY <1>3, <3>2
    <3>. QED  BY <1>7, <1>8, <3>2, <3>3
  <2>. QED  BY <1>4, <1>10, <2>1, <2>2
<1>12. ASSUME NEW j \in S, NEW m \in S, g[j] = g[m] PROVE j = m
  BY <1>4, <1>9, <1>10, <1>12
<1>13. ASSUME NEW m \in T PROVE \E j \in S : g[j] = m
  <2>1. m \in 1 .. n /\ m < n /\ k[m].atds = 0  BY <1>8
  <2>2. CASE m < i
    <3>1. m \in S  BY <1>3, <1>7, <2>1, <2>2
    <3>. QED  BY <1>9, <2>2, <3>1
  <2>3. CASE ~ (m < i)
    <3>1. PICK j \in 1 .. n : j = m + 1  BY <2>1
    <3>2. k[m] = l[j]  BY <1>3, <2>1, <2>3, <3>1
    <3>3. j \in S /\ ~ (j < i) /\ j - 1 = m  BY <1>4, <1>7, <2>1, <2>3, <3>1, <3>2
    <3>. QED  BY <1>9, <3>3
  <2>. QED  BY <2>2, <2>3
<1>14. g \in Bijection(S, T)
  <2>1. g \in [S -> T]  BY <1>9, <1>11
  <2>. QED  BY <2>1, <1>12, <1>13 DEF Bijection, Injection, Surjection, IsInjective
<1>15. IsFiniteSet(S)  BY <1>5, LoadedFinite
<1>16. ExistsBijection(S, T)  BY <1>14 DEF ExistsBijection
<1>17. IsFiniteSet(T) /\ Cardinality(T) = Cardinality(S)  BY <1>15, <1>16, FS_Bijection
<1>18. Loaded(k) = T \cup {n} /\ n \notin T
  <2>1. k[n] = e  BY <1>3, <1>4
  <2>. QED  BY <1>4, <1>6, <2>1 DEF Loaded
<1>19. Cardinality(T \cup {n}) = Cardinality(T) + 1  BY <1>17, <1>18, FS_AddElement
<1>. QED  BY <1>2, <1>5, <1>17, <1>18, <1>19

\* do_swap takes the page it writes out off the count.
LEMMA SwapCounts ==
  ASSUME NEW t, NEW vm \in Vms, Charged(t, vm)
  PROVE  Charged(t, do_swap(vm))
<1>. SUFFICES ASSUME Victim(vm) # {} PROVE Charged(t, do_swap(vm))  BY DEF do_swap
<1>1. PICK n : n = do_swap(vm)  OBVIOUS
<1>2. PICK i \in Victim(vm) : i = CHOOSE j \in Victim(vm) : TRUE  OBVIOUS
<1>3. i \in DOMAIN vm.plist /\ vm.plist[i].atds = 0 /\ vm.plist \in Seq(PageTs) /\ vm.pnum \in Int
  BY <1>2 DEF Victim, Vms
<1>4. /\ n.plist = [vm.plist EXCEPT ![i].atds = 1, ![i].block = vm.swap_block]
      /\ n.pnum = vm.pnum - 1
  BY <1>1, <1>2 DEF do_swap
<1>5. \A j \in DOMAIN vm.plist : vm.plist[j] \in PageTs
  <2>1. DOMAIN vm.plist = 1 .. Len(vm.plist)  BY <1>3, LenProperties
  <2>. QED  BY <1>3, <2>1, ElementOfSeq
<1>6. DOMAIN n.plist = DOMAIN vm.plist /\ n.plist[i].atds = 1
      /\ \A j \in DOMAIN vm.plist : j # i => n.plist[j] = vm.plist[j]
  BY <1>3, <1>4, <1>5 DEF PageTs
<1>7. Loaded(n.plist) = Loaded(vm.plist) \ {i} /\ i \in Loaded(vm.plist)  BY <1>3, <1>6 DEF Loaded
<1>8. Cardinality(Loaded(n.plist)) = Cardinality(Loaded(vm.plist)) - 1
  <2>1. IsFiniteSet(Loaded(vm.plist))  BY <1>3, LoadedFinite
  <2>2. Cardinality(Loaded(vm.plist) \ {i}) = Cardinality(Loaded(vm.plist)) - 1
    BY <1>7, <2>1, FS_RemoveElement
  <2>. QED  BY <1>7, <2>2
<1>9. Cardinality(Loaded(vm.plist)) \in Nat  BY <1>3, LoadedFinite
<1>. QED  BY <1>1, <1>3, <1>4, <1>8, <1>9 DEF Charged, Stacks

\* do_unswap adds the page it fetches, which is then the last of the list.
LEMMA UnswapCounts ==
  ASSUME NEW t, NEW vm \in Vms, NEW va, OnCard(vm, va) # {}, Charged(t, vm)
  PROVE  /\ Charged(t, do_unswap(vm, va))
         /\ Len(do_unswap(vm, va).plist) \in DOMAIN do_unswap(vm, va).plist
         /\ do_unswap(vm, va).plist[Len(do_unswap(vm, va).plist)].va = va
<1>1. PICK n : n = do_unswap(vm, va)  OBVIOUS
<1>2. PICK i \in OnCard(vm, va) : i = CHOOSE j \in OnCard(vm, va) : TRUE  OBVIOUS
<1>3. PICK p : p = vm.plist[i]  OBVIOUS
<1>4. i \in DOMAIN vm.plist /\ p.atds = 1 /\ p.va = va /\ vm.plist \in Seq(PageTs) /\ vm.pnum \in Int
  BY <1>2, <1>3 DEF OnCard, Vms
<1>5. p \in PageTs
  <2>1. DOMAIN vm.plist = 1 .. Len(vm.plist)  BY <1>4, LenProperties
  <2>. QED  BY <1>3, <1>4, <2>1, ElementOfSeq
<1>6. PICK e : e = [p EXCEPT !.atds = 0, !.block = 0]  OBVIOUS
<1>7. e \in PageTs /\ e.atds = 0 /\ e.va = va
  <2>1. 0 \in 0 .. MaxSwap  BY ConstantFacts
  <2>. QED  BY <1>4, <1>5, <1>6, <2>1 DEF PageTs
<1>8. n.plist = Append(RemoveAt(vm.plist, i), e) /\ n.pnum = vm.pnum + 1
  BY <1>1, <1>2, <1>3, <1>6 DEF do_unswap, Vms
<1>9. Cardinality(Loaded(n.plist)) = Cardinality(Loaded(vm.plist)) + 1
  BY <1>3, <1>4, <1>7, <1>8, LoadedMoved
<1>10. PICK L \in Nat : L = Len(vm.plist) /\ DOMAIN vm.plist = 1 .. L  BY <1>4, LenProperties
<1>11. /\ n.plist \in Seq(PageTs) /\ Len(n.plist) = L
       /\ \A j \in 1 .. L : n.plist[j] = IF j < i THEN vm.plist[j] ELSE IF j < L THEN vm.plist[j + 1] ELSE e
  <2>1. PICK l \in Seq(PageTs) : l = vm.plist  BY <1>4
  <2>2. i \in DOMAIN l /\ Len(l) = L  BY <1>4, <1>10, <2>1
  <2>3. /\ Append(RemoveAt(l, i), e) \in Seq(PageTs) /\ Len(Append(RemoveAt(l, i), e)) = Len(l)
        /\ \A j \in 1 .. Len(l) :
             Append(RemoveAt(l, i), e)[j] = IF j < i THEN l[j] ELSE IF j < Len(l) THEN l[j + 1] ELSE e
    BY <1>7, <2>2, Moved
  <2>. QED  BY <1>8, <2>1, <2>2, <2>3
<1>12. L \in 1 .. L /\ ~ (L < i) /\ DOMAIN n.plist = 1 .. L  BY <1>4, <1>10, <1>11, LenProperties
<1>13. n.plist[L] = e  BY <1>11, <1>12
<1>14. Cardinality(Loaded(vm.plist)) \in Nat  BY <1>4, LoadedFinite
<1>15. Charged(t, n)
  <2>1. PICK k \in Int : k = Stacks(t)  BY DEF Stacks
  <2>. QED  BY <1>4, <1>8, <1>9, <1>14, <2>1 DEF Charged
<1>. QED  BY <1>1, <1>7, <1>11, <1>12, <1>13, <1>15

\* Limited counts as do_swap does.
LEMMA LimitedCounts ==
  ASSUME NEW t, NEW vm \in Vms, Charged(t, vm)
  PROVE  Charged(t, Limited(vm))
BY SwapCounts DEF Limited


\* A step that gives task q a list and its count.
LEMMA CountsSet ==
  ASSUME TypeOK, Spaces, Counted, NEW q \in Task, NEW l, NEW k,
         k = Cardinality(Loaded(l)) + Stacks(q),
         plist' = [plist EXCEPT ![q] = l], pnum' = [pnum EXCEPT ![q] = k],
         alive' \subseteq alive \cup {q},
         \A t \in Task : space'[t] = None => space[t] = None /\ t # q
  PROVE  Counted'
<1>1. plist'[q] = l /\ pnum'[q] = k  BY DEF TypeOK
<1>2. \A t \in Task : t # q => plist'[t] = plist[t] /\ pnum'[t] = pnum[t]  BY DEF TypeOK
<1>3. \A t \in alive' : t \in alive \/ t = q  OBVIOUS
<1>4. alive \subseteq Task /\ Shell \in Task  BY ConstantFacts DEF TypeOK
<1>5. \A t \in alive' : pnum'[t] = Cardinality(Loaded(plist'[t])) + Stacks(t)
  <2>. SUFFICES ASSUME NEW t \in alive' PROVE pnum'[t] = Cardinality(Loaded(plist'[t])) + Stacks(t)
    OBVIOUS
  <2>1. CASE t = q  BY <1>1, <2>1
  <2>2. CASE t # q
    <3>1. t \in alive /\ plist'[t] = plist[t] /\ pnum'[t] = pnum[t]  BY <1>2, <1>3, <1>4, <2>2
    <3>. QED  BY <3>1 DEF Counted
  <2>. QED  BY <2>1, <2>2
<1>6. \A t \in Task : space'[t] = None => pnum'[t] = 0  BY <1>2 DEF Counted
<1>7. space'[Shell] # None  BY <1>4 DEF Counted
<1>. QED  BY <1>5, <1>6, <1>7 DEF Counted

\* A list that is empty, or of stacks only, has nothing that counts.
LEMMA NothingLoaded ==
  ASSUME NEW l, \A i \in DOMAIN l : l[i].atds = 1
  PROVE  Cardinality(Loaded(l)) = 0
<1>1. Loaded(l) = {}  BY DEF Loaded
<1>. QED  BY <1>1, FS_EmptySet

\* Swapping in, and mapping a page, whether or not another goes to the card.
LEMMA FaultCounts ==
  ASSUME IInv, Counted, NEW t \in alive, NEW va \in Touches[t] \ {Image}, NEW op \in Data \cup Reading,
         SwapIn(t, va, op) \/ MapNew(t, va, op)
  PROVE  Counted'
<1>1. TypeOK /\ Spaces /\ Mapped /\ Apart /\ Pages  BY DEF IInv
<1>2. t \in Task /\ \A u \in Task : space[u] = None => u # t  BY <1>1 DEF TypeOK, Spaces
<1>3. PICK vo : vo = Vm(t)  OBVIOUS
<1>4. VmOK(t, vo) /\ vo \in Vms /\ Charged(t, vo)
  <2>1. VmOK(t, vo)  BY <1>1, <1>3, VmStart
  <2>2. vo.pnum = pnum[t] /\ vo.plist = plist[t]  BY <1>3 DEF Vm
  <2>. QED  BY <2>1, <2>2 DEF VmOK, Charged, Counted
<1>5. CASE SwapIn(t, va, op)
  <2>1. PICK vu : vu = do_unswap(vo, va)  OBVIOUS
  <2>2. PICK vm : vm = Limited(vu)  OBVIOUS
  <2>3. ~ check_ad(vo.pt, va) /\ OnCard(vo, va) # {}  BY <1>3, <1>5 DEF SwapIn, Vm
  <2>4. VmOK(t, vu) /\ vu \in Vms  BY <1>1, <1>4, <2>1, <2>3, UnswapKeeps DEF VmOK
  <2>5. Charged(t, vu)  BY <1>4, <2>1, <2>3, UnswapCounts
  <2>6. Charged(t, vm)  BY <2>2, <2>4, <2>5, LimitedCounts
  <2>7. /\ plist' = [plist EXCEPT ![t] = vm.plist] /\ pnum' = [pnum EXCEPT ![t] = vm.pnum]
        /\ UNCHANGED <<alive, space>>
    BY <1>3, <1>5, <2>1, <2>2 DEF SwapIn, Becomes, tasks
  <2>8. vm.pnum = Cardinality(Loaded(vm.plist)) + Stacks(t)  BY <2>6 DEF Charged
  <2>. QED  BY <1>1, <1>2, <2>7, <2>8, CountsSet
<1>6. CASE MapNew(t, va, op)
  <2>1. PICK vm : vm = Limited(vo)  OBVIOUS
  <2>2. PICK f : f = Taken(IF TableMissing(t) THEN 2 ELSE 1)[IF TableMissing(t) THEN 2 ELSE 1]  OBVIOUS
  <2>3. PICK p : p = PageT(va, f, 0)  OBVIOUS
  <2>4. /\ plist' = [plist EXCEPT ![t] = Append(vm.plist, p)] /\ pnum' = [pnum EXCEPT ![t] = vm.pnum + 1]
        /\ UNCHANGED <<alive, space>>
    BY <1>3, <1>6, <2>1, <2>2, <2>3 DEF MapNew, Becomes, tasks
  <2>5. Charged(t, vm)  BY <1>4, <2>1, LimitedCounts
  <2>6. vm \in Vms
    <3>1. vo.swap_block <= MaxSwap  BY <1>1, <1>3 DEF Vm, TypeOK
    <3>. QED  BY <1>1, <1>4, <2>1, <3>1, LimitedKeeps DEF VmOK
  <2>7. p \in PageTs /\ p.atds = 0
    <3>1. IInv'  BY <1>6, MapNewKeeps
    <3>2. plist'[t] \in Seq(PageTs) /\ plist'[t] = Append(vm.plist, p)
      BY <1>1, <1>2, <2>4, <3>1 DEF IInv, TypeOK
    <3>3. PICK n \in Nat : n = Len(vm.plist) /\ vm.plist \in Seq(PageTs)  BY <2>6, LenProperties DEF Vms
    <3>4. Len(plist'[t]) = n + 1 /\ plist'[t][n + 1] = p  BY <3>2, <3>3
    <3>5. n + 1 \in 1 .. Len(plist'[t])  BY <3>3, <3>4
    <3>6. p \in PageTs  BY <3>2, <3>4, <3>5, ElementOfSeq
    <3>. QED  BY <2>3, <3>6 DEF PageT
  <2>8. Cardinality(Loaded(Append(vm.plist, p))) = Cardinality(Loaded(vm.plist)) + 1
    BY <2>6, <2>7, LoadedAppend DEF Vms
  <2>9. vm.pnum + 1 = Cardinality(Loaded(Append(vm.plist, p))) + Stacks(t)
    <3>1. PICK a \in Nat : a = Cardinality(Loaded(vm.plist))  BY <2>6, LoadedFinite DEF Vms
    <3>2. PICK b \in Int : b = Stacks(t)  BY DEF Stacks
    <3>3. vm.pnum = a + b  BY <2>5, <3>1, <3>2 DEF Charged
    <3>. QED  BY <2>8, <3>1, <3>2, <3>3
  <2>. QED  BY <1>1, <1>2, <2>4, <2>9, CountsSet
<1>. QED  BY <1>5, <1>6

\* Every step.
LEMMA NextCounts == IInv /\ Counted /\ [Next]_vars => Counted'
<1>. SUFFICES ASSUME IInv, Counted, [Next]_vars PROVE Counted'  OBVIOUS
<1>1. TypeOK /\ Spaces  BY DEF IInv
<1>2. ASSUME UNCHANGED <<alive, space, plist, pnum>> PROVE Counted'  BY <1>2 DEF Counted
<1>3. CASE Access
  <2>1. PICK t \in alive : \E va \in Touches[t] :
          IF va = Image THEN Execute(t, va, "fetch") \/ SetBits(t, va, "fetch")
          ELSE \E op \in Data \cup {"load"} :
            Execute(t, va, op) \/ SetBits(t, va, op) \/ SwapIn(t, va, op) \/ MapNew(t, va, op)
    BY <1>3 DEF Access
  <2>2. PICK va \in Touches[t], op \in Data \cup Reading :
          \/ Execute(t, va, op) \/ SetBits(t, va, op)
          \/ va # Image /\ (SwapIn(t, va, op) \/ MapNew(t, va, op))
    <3>1. "fetch" \in Reading /\ "load" \in Reading  BY DEF Reading
    <3>. QED  BY <2>1, <3>1
  <2>3. CASE Execute(t, va, op)  BY <1>2, <2>3 DEF Execute, tasks
  <2>4. CASE SetBits(t, va, op)  BY <1>2, <2>4 DEF SetBits, tasks
  <2>5. CASE va # Image /\ (SwapIn(t, va, op) \/ MapNew(t, va, op))  BY <2>5, FaultCounts
  <2>. QED  BY <2>2, <2>3, <2>4, <2>5
<1>4. ASSUME NEW p \in Proc, do_exec(p) PROVE Counted'
  <2>1. PICK l : l = ExecList(p, Taken(4))  OBVIOUS
  <2>2. /\ space[p] = None /\ alive' = alive \cup {p} /\ space' = [space EXCEPT ![p] = p]
        /\ plist' = [plist EXCEPT ![p] = l] /\ pnum' = [pnum EXCEPT ![p] = 2]
    BY <1>4, <2>1 DEF do_exec
  <2>3. p \in Task /\ p # None  BY ConstantFacts
  <2>4. p # Shell  BY <2>2 DEF Counted
  <2>5. Cardinality(Loaded(l)) = 0
    <3>1. \A i \in DOMAIN l : l[i].atds = 1  BY <2>1 DEF ExecList, PageT
    <3>. QED  BY <3>1, NothingLoaded
  <2>6. 2 = Cardinality(Loaded(l)) + Stacks(p)  BY <2>4, <2>5 DEF Stacks
  <2>7. \A t \in Task : space'[t] = None => space[t] = None /\ t # p  BY <1>1, <2>2, <2>3 DEF TypeOK
  <2>8. alive' \subseteq alive \cup {p}  BY <2>2
  <2>. QED  BY <1>1, <2>2, <2>3, <2>6, <2>7, <2>8, CountsSet
<1>5. ASSUME NEW t \in Thread, do_mthread_create(t) PROVE Counted'
  <2>1. PICK l : l = <<PageT(KernelStack(t), Taken(2)[1], 1)>>  OBVIOUS
  <2>2. /\ space[t] = None /\ alive' = alive \cup {t} /\ space' = [space EXCEPT ![t] = space[current]]
        /\ plist' = [plist EXCEPT ![t] = l] /\ pnum' = pnum /\ current # None
    BY <1>5, <2>1 DEF do_mthread_create
  <2>3. t \in Task /\ t \notin Proc /\ space[current] # None
    BY <1>1, <2>2, ConstantFacts DEF TypeOK, Spaces
  <2>4. pnum' = [pnum EXCEPT ![t] = 0]
    <3>1. pnum[t] = 0  BY <2>2, <2>3 DEF Counted
    <3>. QED  BY <1>1, <2>2, <2>3, <3>1 DEF TypeOK
  <2>5. Cardinality(Loaded(l)) = 0
    <3>1. \A i \in DOMAIN l : l[i].atds = 1  BY <2>1 DEF PageT
    <3>. QED  BY <3>1, NothingLoaded
  <2>6. 0 = Cardinality(Loaded(l)) + Stacks(t)  BY <2>3, <2>5 DEF Stacks
  <2>7. \A u \in Task : space'[u] = None => space[u] = None /\ u # t  BY <1>1, <2>2, <2>3 DEF TypeOK
  <2>8. alive' \subseteq alive \cup {t}  BY <2>2
  <2>. QED  BY <1>1, <2>2, <2>3, <2>4, <2>6, <2>7, <2>8, CountsSet
<1>6. ASSUME NEW t \in alive, Recycle(t) PROVE Counted'
  <2>1. /\ alive' = alive \ {t} /\ plist' = [plist EXCEPT ![t] = <<>>] /\ UNCHANGED <<space, pnum>>
    BY <1>6 DEF Recycle
  <2>2. \A u \in alive' : u \in alive /\ plist'[u] = plist[u]  BY <1>1, <2>1 DEF TypeOK
  <2>. QED  BY <2>1, <2>2 DEF Counted
<1>7. ASSUME NEW t \in Task, do_kill(t) PROVE Counted'  BY <1>6, <1>7 DEF do_kill
<1>8. CASE do_exit
  <2>1. current \in alive  BY <1>1, <1>8 DEF do_exit, TypeOK
  <2>. QED  BY <1>6, <1>8, <2>1 DEF do_exit
<1>9. CASE do_scheduler  BY <1>2, <1>9 DEF do_scheduler
<1>10. CASE UNCHANGED vars  BY <1>2, <1>10 DEF vars, tasks
<1>. QED  BY <1>3, <1>4, <1>5, <1>7, <1>8, <1>9, <1>10 DEF Next

\* The shell has neither pages nor stacks in a list at the start.
LEMMA InitCounts == Init => Counted
<1>. SUFFICES ASSUME Init PROVE Counted  OBVIOUS
<1>1. Shell \in Task /\ Shell # None  BY ConstantFacts
<1>2. /\ alive = {Shell} /\ plist[Shell] = <<>> /\ \A t \in Task : pnum[t] = 0
      /\ space[Shell] = Shell
  BY <1>1 DEF Init
<1>3. Cardinality(Loaded(<<>>)) = 0
  <2>1. \A i \in DOMAIN <<>> : <<>>[i].atds = 1  OBVIOUS
  <2>. QED  BY <2>1, NothingLoaded
<1>4. Stacks(Shell) = 0  BY DEF Stacks
<1>. QED  BY <1>1, <1>2, <1>3, <1>4 DEF Counted

\* pnum is the number of pages in memory, and the stacks, of each task: do_swap and
\* do_unswap, which decide by it when a page goes to the card, keep it right.
THEOREM PagesCounted == Spec => []PnumCounts
<1>1. IInv /\ Counted /\ [Next]_vars => Counted'  BY NextCounts
<1>2. Counted => PnumCounts
  <2>1. \A t : InMemory(t) = Loaded(plist[t])  BY DEF InMemory, Loaded
  <2>. QED  BY <2>1 DEF Counted, PnumCounts, Stacks
<1>. QED  BY <1>1, <1>2, InitCounts, Invariance, PTL DEF Spec


-----------------------------------------------------------------------------
(* An instruction makes progress with every trap. *)

\* Whoever has trapped is about to try again, with a valid entry from the first trap
\* on, and one that permits the access from the second.
Retries(t, table) ==
  /\ t \in alive /\ instr[t].va \in Touches[t]
  /\ check_ad(table, instr[t].va)
  /\ instr[t].faults <= 1 \/ (instr[t].faults <= 2 /\ Permits(table[instr[t].va], instr[t].op))
Trapped == \A t \in Task : instr[t] # None => Retries(t, pt[space[t]])

\* What a retry needs of the entry of its page.
StillThere(t, new, old) ==
  check_ad(old, instr[t].va) =>
    /\ check_ad(new, instr[t].va)
    /\ (old[instr[t].va].a => new[instr[t].va].a) /\ (old[instr[t].va].d => new[instr[t].va].d)

\* A step that leaves the entry of a trapped task leaves it trapped.
LEMMA RetriesKept ==
  ASSUME Trapped, NEW t \in Task, instr[t] # None, instr'[t] = instr[t], t \in alive',
         NEW new, new = (pt[space[t]])', StillThere(t, new, pt[space[t]])
  PROVE  Retries(t, pt[space[t]])'
<1>1. PICK old : old = pt[space[t]]  OBVIOUS
<1>2. /\ instr[t].va \in Touches[t] /\ check_ad(old, instr[t].va)
      /\ instr[t].faults <= 1 \/ (instr[t].faults <= 2 /\ Permits(old[instr[t].va], instr[t].op))
  BY <1>1 DEF Trapped, Retries
<1>3. /\ check_ad(new, instr[t].va)
      /\ Permits(old[instr[t].va], instr[t].op) => Permits(new[instr[t].va], instr[t].op)
  BY <1>1, <1>2 DEF StillThere, Permits
<1>. QED  BY <1>2, <1>3 DEF Retries

\* The same for all the tasks but one, t, when the tables change in entries that
\* are no other task's.
LEMMA OthersRetry ==
  ASSUME TypeOK, Spaces, Trapped, NEW t,
         \A u \in Task : u # t => instr'[u] = instr[u],
         \A u \in alive : u # t => u \in alive' /\ space'[u] = space[u],
         \A u \in alive : \A va \in Touches[u] : u # t /\ pt[space[u]][va] # None =>
           /\ pt'[space[u]][va] # None
           /\ pt'[space[u]][va].v = pt[space[u]][va].v
           /\ pt[space[u]][va].a => pt'[space[u]][va].a
           /\ pt[space[u]][va].d => pt'[space[u]][va].d
  PROVE  \A u \in Task : u # t /\ instr'[u] # None => Retries(u, pt[space[u]])'
<1>. SUFFICES ASSUME NEW u \in Task, u # t, instr'[u] # None PROVE Retries(u, pt[space[u]])'
  OBVIOUS
<1>1. instr'[u] = instr[u] /\ instr[u] # None  OBVIOUS
<1>2. u \in alive /\ instr[u].va \in Touches[u] /\ check_ad(pt[space[u]], instr[u].va)
  BY <1>1 DEF Trapped, Retries
<1>3. u \in alive' /\ space'[u] = space[u]  BY <1>2
<1>4. PICK new : new = (pt[space[u]])'  OBVIOUS
<1>5. new = pt'[space[u]]  BY <1>3, <1>4
<1>6. StillThere(u, new, pt[space[u]])  BY <1>2, <1>5 DEF StillThere, check_ad
<1>. QED  BY <1>1, <1>3, <1>4, <1>6, RetriesKept

\* The first trap, when the entry is valid after it, or one at a valid entry that
\* permits the access after it.
LEMMA TrapRetries ==
  ASSUME TypeOK, TlbOK, Trapped, NEW t \in alive, NEW va \in Touches[t], NEW op, Traps(t, va, op),
         t \in alive', NEW new, new = (pt[space[t]])', check_ad(new, va),
         check_ad(pt[space[t]], va) => Permits(new[va], op)
  PROVE  Retries(t, pt[space[t]])'
<1>1. t \in Task  BY DEF TypeOK
<1>2. PICK k : k = (IF instr[t] = None THEN 1 ELSE instr[t].faults + 1)  OBVIOUS
<1>3. instr'[t] = [va |-> va, op |-> op, faults |-> k]  BY <1>1, <1>2 DEF Traps, TypeOK
<1>4. k <= 1 \/ (k <= 2 /\ Permits(new[va], op))
  <2>1. CASE instr[t] = None  BY <1>2, <2>1
  <2>2. CASE instr[t] # None
    <3>1. instr[t].va = va /\ instr[t].op = op /\ current = t  BY <2>2 DEF Traps, Tries
    <3>2. Retries(t, pt[space[t]])  BY <1>1, <2>2 DEF Trapped
    <3>3. check_ad(pt[space[t]], va)  BY <3>1, <3>2 DEF Retries
    <3>4. Translations(t, va) = {pt[space[t]][va]}
      BY <3>1, <3>3 DEF Translations, TlbOK, Ent
    <3>5. ~ Permits(pt[space[t]][va], op)  BY <3>4 DEF Traps
    <3>6. instr[t].faults <= 1  BY <3>1, <3>2, <3>5 DEF Retries
    <3>7. instr[t].faults \in Nat
      BY <1>1, <2>2 DEF TypeOK
    <3>8. k <= 2  BY <1>2, <2>2, <3>6, <3>7
    <3>. QED  BY <3>3, <3>8
  <2>. QED  BY <2>1, <2>2
<1>. QED  BY <1>3, <1>4 DEF Retries


\* Swapping leaves the A and D bits.
SameBits(new, old) ==
  \A va \in Va : old[va] # None => /\ new[va] # None
                                   /\ new[va].a = old[va].a /\ new[va].d = old[va].d

\* Of a page that goes out ...
LEMMA SwapBits ==
  ASSUME NEW vm \in Vms
  PROVE  SameBits(Limited(vm).pt, vm.pt)
<1>. SUFFICES ASSUME vm.pnum >= PageLimit, Victim(vm) # {} PROVE SameBits(do_swap(vm).pt, vm.pt)
  BY DEF Limited, do_swap, SameBits
<1>1. PICK i \in Victim(vm) : i = CHOOSE j \in Victim(vm) : TRUE  OBVIOUS
<1>2. PICK wa : wa = vm.plist[i].va  OBVIOUS
<1>3. PICK tab : tab = vm.pt  OBVIOUS
<1>4. i \in 1 .. i /\ vm.plist[i] \in PageTs
  <2>1. i \in DOMAIN vm.plist /\ vm.plist \in Seq(PageTs)  BY <1>1 DEF Victim, Vms
  <2>2. PICK n \in Nat : n = Len(vm.plist) /\ DOMAIN vm.plist = 1 .. n  BY <2>1, LenProperties
  <2>. QED  BY <2>1, <2>2, ElementOfSeq
<1>5. tab[wa] # None /\ wa \in Va
  <2>1. check_ad(vm.pt, vm.plist[i].va)  BY <1>1, <1>4 DEF Victim
  <2>. QED  BY <1>2, <1>3, <1>4, <2>1 DEF check_ad, PageTs
<1>6. tab \in [Va -> PTE \cup {None}] /\ tab[wa] \in PTE  BY <1>3, <1>5 DEF Vms
<1>7. do_swap(vm).pt = [tab EXCEPT ![wa].v = FALSE]  BY <1>1, <1>2, <1>3 DEF do_swap
<1>8. PICK e : e = [tab[wa] EXCEPT !.v = FALSE]  OBVIOUS
<1>9. e \in PTE /\ e.a = tab[wa].a /\ e.d = tab[wa].d  BY <1>6, <1>8 DEF PTE
<1>10. e # None  BY <1>9, ConstantFacts
<1>11. do_swap(vm).pt = [tab EXCEPT ![wa] = e]  BY <1>6, <1>7, <1>8
<1>. QED  BY <1>3, <1>5, <1>6, <1>9, <1>10, <1>11 DEF SameBits

\* ... and of one that comes back, whose entry is valid then.
LEMMA UnswapBits ==
  ASSUME NEW t \in Task, NEW vm \in Vms, ListOK(t, vm), NEW va \in Va, OnCard(vm, va) # {}
  PROVE  SameBits(do_unswap(vm, va).pt, vm.pt) /\ check_ad(do_unswap(vm, va).pt, va)
<1>1. PICK i \in OnCard(vm, va) : i = CHOOSE j \in OnCard(vm, va) : TRUE  OBVIOUS
<1>2. PICK tab : tab = vm.pt  OBVIOUS
<1>3. tab[va] # None /\ tab \in [Va -> PTE \cup {None}]  BY <1>1, <1>2 DEF OnCard, ListOK, Vms
<1>4. do_unswap(vm, va).pt = [tab EXCEPT ![va].v = TRUE]  BY <1>1, <1>2 DEF do_unswap, Vms
<1>5. PICK e : e = [tab[va] EXCEPT !.v = TRUE]  OBVIOUS
<1>6. e \in PTE /\ e.a = tab[va].a /\ e.d = tab[va].d /\ e.v  BY <1>3, <1>5 DEF PTE
<1>7. e # None  BY <1>6, ConstantFacts
<1>8. do_unswap(vm, va).pt = [tab EXCEPT ![va] = e]  BY <1>3, <1>4, <1>5
<1>. QED  BY <1>2, <1>3, <1>6, <1>7, <1>8 DEF SameBits, check_ad

\* A full memory has two pages that count, so do_swap, which takes the first of the
\* list, does not take the last.
LEMMA LastStays ==
  ASSUME NEW t \in Task, NEW vm \in Vms, ListOK(t, vm), Charged(t, vm), NEW va \in Va,
         Len(vm.plist) \in DOMAIN vm.plist, vm.plist[Len(vm.plist)].va = va, check_ad(vm.pt, va)
  PROVE  check_ad(Limited(vm).pt, va)
<1>. SUFFICES ASSUME vm.pnum >= PageLimit, Victim(vm) # {} PROVE check_ad(do_swap(vm).pt, va)
  BY DEF Limited, do_swap
<1>1. PICK i \in Victim(vm) : i = CHOOSE j \in Victim(vm) : TRUE  OBVIOUS
<1>2. PICK tab : tab = vm.pt  OBVIOUS
<1>3. PICK n \in Nat : n = Len(vm.plist) /\ DOMAIN vm.plist = 1 .. n
  BY LenProperties DEF Vms
<1>4. n \in 1 .. n /\ i \in 1 .. n  BY <1>1, <1>3 DEF Victim
<1>5. vm.pnum \in Int /\ vm.pnum >= 4 /\ vm.plist \in Seq(PageTs)  BY DEF Vms, PageLimit
<1>6. PICK c \in Nat : c = Cardinality(Loaded(vm.plist))  BY <1>5, LoadedFinite
<1>7. c >= 2
  <2>1. PICK b \in {0, 2} : b = Stacks(t)  BY DEF Stacks
  <2>2. vm.pnum = c + b  BY <1>6, <2>1 DEF Charged
  <2>. QED  BY <1>5, <1>6, <2>1, <2>2
<1>8. PICK j \in Loaded(vm.plist) : j # n
  <2>. SUFFICES ASSUME \A j \in Loaded(vm.plist) : j = n PROVE FALSE  OBVIOUS
  <2>1. Loaded(vm.plist) \in SUBSET {n}  OBVIOUS
  <2>2. IsFiniteSet({n}) /\ Cardinality({n}) = 1  BY FS_Singleton
  <2>3. Cardinality(Loaded(vm.plist)) <= 1  BY <2>1, <2>2, FS_Subset
  <2>. QED  BY <1>6, <1>7, <2>3
<1>9. j \in 1 .. n /\ vm.plist[j].atds = 0  BY <1>3, <1>8 DEF Loaded
<1>10. i # n
  <2>. SUFFICES ASSUME i = n PROVE FALSE  OBVIOUS
  <2>1. j \in 1 .. (i - 1)  BY <1>4, <1>8, <1>9
  <2>2. vm.plist[j].atds = 1  BY <1>1, <2>1 DEF Victim
  <2>. QED  BY <1>9, <2>2
<1>11. vm.plist[i].va # va  BY <1>3, <1>4, <1>10 DEF ListOK
<1>12. do_swap(vm).pt = [tab EXCEPT ![vm.plist[i].va].v = FALSE] /\ tab[va] # None /\ tab[va].v
  BY <1>1, <1>2 DEF do_swap, check_ad
<1>13. do_swap(vm).pt[va] = tab[va]  BY <1>2, <1>11, <1>12 DEF Vms
<1>. QED  BY <1>12, <1>13 DEF check_ad


\* A handler of task t leaves the table of its process as row, in which t may go
\* on, and other threads too.
Leaves(t, va, op, row) ==
  /\ Traps(t, va, op) /\ UNCHANGED <<alive, space>>
  /\ pt' = [pt EXCEPT ![space[t]] = row]
  /\ check_ad(row, va) /\ (check_ad(pt[space[t]], va) => Permits(row[va], op))
  /\ \A u \in alive : u # t /\ space[u] = space[t] =>
       \A wa \in Touches[u] : pt[space[t]][wa] # None =>
         /\ row[wa] # None /\ row[wa].v = pt[space[t]][wa].v
         /\ (pt[space[t]][wa].a => row[wa].a) /\ (pt[space[t]][wa].d => row[wa].d)

\* Such a handler keeps the invariant.
LEMMA RowRetries ==
  ASSUME TypeOK, Spaces, TlbOK, Trapped, NEW t \in alive, NEW va \in Touches[t], NEW op, NEW row,
         Leaves(t, va, op, row)
  PROVE  Trapped'
<1>0. /\ Traps(t, va, op) /\ UNCHANGED <<alive, space>>
      /\ pt' = [pt EXCEPT ![space[t]] = row]
      /\ check_ad(row, va) /\ (check_ad(pt[space[t]], va) => Permits(row[va], op))
      /\ \A u \in alive : u # t /\ space[u] = space[t] =>
           \A wa \in Touches[u] : pt[space[t]][wa] # None =>
             /\ row[wa] # None /\ row[wa].v = pt[space[t]][wa].v
             /\ (pt[space[t]][wa].a => row[wa].a) /\ (pt[space[t]][wa].d => row[wa].d)
  BY DEF Leaves
<1>1. t \in Task /\ space[t] \in Proc /\ \A u \in alive : u \in Task /\ space[u] \in Proc
  BY DEF TypeOK, Spaces
<1>2. pt'[space[t]] = row /\ \A p \in Proc : p # space[t] => pt'[p] = pt[p]
  BY <1>0, <1>1 DEF TypeOK
<1>3. \A u \in Task : u # t => instr'[u] = instr[u]  BY <1>0, <1>1 DEF Traps, TypeOK
<1>4. \A u \in alive : u # t => u \in alive' /\ space'[u] = space[u]  BY <1>0
<1>5. \A u \in alive : \A wa \in Touches[u] : u # t /\ pt[space[u]][wa] # None =>
           /\ pt'[space[u]][wa] # None
           /\ pt'[space[u]][wa].v = pt[space[u]][wa].v
           /\ pt[space[u]][wa].a => pt'[space[u]][wa].a
           /\ pt[space[u]][wa].d => pt'[space[u]][wa].d
  BY <1>0, <1>1, <1>2
<1>6. \A u \in Task : u # t /\ instr'[u] # None => Retries(u, pt[space[u]])'
  BY <1>3, <1>4, <1>5, OthersRetry
<1>7. Retries(t, pt[space[t]])'
  <2>1. PICK new : new = (pt[space[t]])'  OBVIOUS
  <2>2. new = row  BY <1>0, <1>2, <2>1
  <2>3. Traps(t, va, op) /\ t \in alive'  BY <1>0
  <2>4. check_ad(new, va) /\ (check_ad(pt[space[t]], va) => Permits(new[va], op))  BY <1>0, <2>2
  <2>. QED  BY <2>1, <2>3, <2>4, TrapRetries
<1>. QED  BY <1>6, <1>7 DEF Trapped

\* The A and D bits permit the access; other tasks find bits in the entry of their
\* image that were not there before, and lose none.
LEMMA SetBitsRetries ==
  ASSUME IInv, Trapped, NEW t \in alive, NEW va \in Touches[t], NEW op \in Data \cup Reading,
         SetBits(t, va, op)
  PROVE  Trapped'
<1>1. TypeOK /\ Spaces /\ TlbOK  BY DEF IInv
<1>2. t \in Task /\ space[t] \in Proc /\ va \in Va
  <2>1. t \in Task /\ space[t] \in Proc  BY <1>1 DEF TypeOK, Spaces
  <2>. QED  BY <2>1, MineFacts
<1>3. PICK tab : tab = pt[space[t]]  OBVIOUS
<1>4. PICK e : e = set_attribute(tab[va], op)  OBVIOUS
<1>5. tab \in [Va -> PTE \cup {None}] /\ tab[va] # None /\ tab[va] \in PTE /\ tab[va].v
  BY <1>1, <1>2, <1>3 DEF SetBits, check_ad, TypeOK
<1>6. /\ e \in PTE /\ e.v /\ e.a /\ (op # "load" => e.d) /\ (tab[va].d => e.d)
  BY <1>4, <1>5 DEF set_attribute, PTE
<1>7. e # None /\ Permits(e, op)
  <2>1. op \notin Reading => op # "load"  BY DEF Reading
  <2>. QED  BY <1>6, <2>1, ConstantFacts DEF Permits
<1>8. PICK row : row = [tab EXCEPT ![va] = e]  OBVIOUS
<1>9. pt' = [pt EXCEPT ![space[t]] = row]
  <2>1. pt' = [pt EXCEPT ![space[t]][va] = set_attribute(@, op)]  BY DEF SetBits
  <2>. QED  BY <1>1, <1>2, <1>3, <1>4, <1>8, <2>1 DEF TypeOK
<1>10. row[va] = e /\ \A wa : wa # va => row[wa] = tab[wa]  BY <1>2, <1>5, <1>8
<1>11. check_ad(row, va) /\ Permits(row[va], op)  BY <1>6, <1>7, <1>10 DEF check_ad
<1>12. Traps(t, va, op) /\ UNCHANGED <<alive, space>>  BY DEF SetBits, tasks
<1>13. \A wa : tab[wa] # None =>
         /\ row[wa] # None /\ row[wa].v = tab[wa].v
         /\ (tab[wa].a => row[wa].a) /\ (tab[wa].d => row[wa].d)
  BY <1>5, <1>6, <1>7, <1>10 DEF PTE
<1>14. \A u \in alive : u # t /\ space[u] = space[t] =>
         \A wa \in Touches[u] : pt[space[t]][wa] # None =>
           /\ row[wa] # None /\ row[wa].v = pt[space[t]][wa].v
           /\ (pt[space[t]][wa].a => row[wa].a) /\ (pt[space[t]][wa].d => row[wa].d)
  BY <1>3, <1>13
<1>15. check_ad(pt[space[t]], va) => Permits(row[va], op)  BY <1>11
<1>16. Leaves(t, va, op, row)  BY <1>9, <1>11, <1>12, <1>14, <1>15 DEF Leaves
<1>. QED  BY <1>1, <1>16, RowRetries

\* The table that swapping leaves: the pages of other tasks are as they were.
LEMMA SwappedRow ==
  ASSUME TypeOK, Spaces, NEW t \in alive, NEW vm, VmOK(t, vm), SameBits(vm.pt, pt[space[t]])
  PROVE  \A u \in alive : u # t /\ space[u] = space[t] =>
           \A wa \in Touches[u] : wa \notin Mine(t) /\ wa \in Va /\ (pt[space[t]][wa] # None =>
             /\ vm.pt[wa] # None /\ vm.pt[wa].v = pt[space[t]][wa].v
             /\ vm.pt[wa].a = pt[space[t]][wa].a /\ vm.pt[wa].d = pt[space[t]][wa].d)
<1>. SUFFICES ASSUME NEW u \in alive, u # t, space[u] = space[t], NEW wa \in Touches[u]
              PROVE  wa \notin Mine(t) /\ wa \in Va /\ (pt[space[t]][wa] # None =>
                       /\ vm.pt[wa] # None /\ vm.pt[wa].v = pt[space[t]][wa].v
                       /\ vm.pt[wa].a = pt[space[t]][wa].a /\ vm.pt[wa].d = pt[space[t]][wa].d)
  OBVIOUS
<1>1. u \in Task /\ t \in Task  BY DEF TypeOK
<1>2. Mine(u) \cap Mine(t) = {}  BY SameSpace
<1>3. wa \in Va /\ wa \in Mine(u) \cup {Image} /\ Image \notin Mine(t)  BY <1>1, MineFacts
<1>4. wa \notin Mine(t)  BY <1>2, <1>3
<1>5. pt[space[t]][wa] # None => vm.pt[wa].v = pt[space[t]][wa].v
  BY <1>3, <1>4 DEF VmOK, SameFrames, Ent
<1>. QED  BY <1>3, <1>4, <1>5 DEF SameBits

\* After a trap at a page that is not in memory, it is.
LEMMA FaultRetries ==
  ASSUME IInv, Counted, Trapped, NEW t \in alive, NEW va \in Touches[t] \ {Image},
         NEW op \in Data \cup Reading, SwapIn(t, va, op) \/ MapNew(t, va, op)
  PROVE  Trapped'
<1>1. TypeOK /\ Spaces /\ Mapped /\ Apart /\ Pages /\ TlbOK  BY DEF IInv
<1>2. t \in Task /\ space[t] \in Proc /\ va \in Va /\ va \in Mine(t)
  <2>1. t \in Task /\ space[t] \in Proc  BY <1>1 DEF TypeOK, Spaces
  <2>. QED  BY <2>1, MineFacts
<1>3. PICK vo : vo = Vm(t)  OBVIOUS
<1>4. PICK tab : tab = pt[space[t]] /\ vo.pt = tab  BY <1>3 DEF Vm
<1>5. VmOK(t, vo) /\ vo \in Vms /\ Charged(t, vo) /\ vo.swap_block <= MaxSwap
  <2>1. VmOK(t, vo)  BY <1>1, <1>3, VmStart
  <2>2. vo.pnum = pnum[t] /\ vo.plist = plist[t]  BY <1>3 DEF Vm
  <2>3. vo.swap_block <= MaxSwap  BY <1>1, <1>3 DEF Vm, TypeOK
  <2>. QED  BY <2>1, <2>2, <2>3 DEF VmOK, Charged, Counted
<1>6. ~ check_ad(tab, va)  BY <1>4 DEF SwapIn, MapNew
<1>7. Traps(t, va, op) /\ UNCHANGED <<alive, space>>  BY DEF SwapIn, MapNew, Becomes, tasks
<1>8. CASE SwapIn(t, va, op)
  <2>1. PICK vu : vu = do_unswap(vo, va)  OBVIOUS
  <2>2. PICK vm : vm = Limited(vu)  OBVIOUS
  <2>3. OnCard(vo, va) # {}  BY <1>3, <1>8 DEF SwapIn
  <2>4. VmOK(t, vu) /\ vu \in Vms /\ vu.swap_block <= MaxSwap /\ ListOK(t, vu)
    BY <1>1, <1>4, <1>5, <1>6, <2>1, <2>3, UnswapKeeps DEF VmOK
  <2>5. /\ Charged(t, vu) /\ Len(vu.plist) \in DOMAIN vu.plist
        /\ vu.plist[Len(vu.plist)].va = va
    BY <1>5, <2>1, <2>3, UnswapCounts
  <2>6. SameBits(vu.pt, tab) /\ check_ad(vu.pt, va)
    BY <1>2, <1>4, <1>5, <2>1, <2>3, UnswapBits DEF VmOK
  <2>7. check_ad(vm.pt, va)  BY <1>2, <2>2, <2>4, <2>5, <2>6, LastStays
  <2>8. SameBits(vm.pt, tab)
    <3>1. SameBits(vm.pt, vu.pt)  BY <2>2, <2>4, SwapBits
    <3>. QED  BY <2>6, <3>1 DEF SameBits
  <2>9. VmOK(t, vm)  BY <1>1, <2>2, <2>4, LimitedKeeps
  <2>10. pt' = [pt EXCEPT ![space[t]] = vm.pt]  BY <1>3, <1>8, <2>1, <2>2 DEF SwapIn
  <2>11. \A u \in alive : u # t /\ space[u] = space[t] =>
           \A wa \in Touches[u] : pt[space[t]][wa] # None =>
             /\ vm.pt[wa] # None /\ vm.pt[wa].v = pt[space[t]][wa].v
             /\ (pt[space[t]][wa].a => vm.pt[wa].a) /\ (pt[space[t]][wa].d => vm.pt[wa].d)
    BY <1>1, <1>4, <2>8, <2>9, SwappedRow
  <2>12. check_ad(pt[space[t]], va) => Permits(vm.pt[va], op)  BY <1>4, <1>6
  <2>13. Leaves(t, va, op, vm.pt)  BY <1>7, <2>7, <2>10, <2>11, <2>12 DEF Leaves
  <2>. QED  BY <1>1, <2>13, RowRetries
<1>9. CASE MapNew(t, va, op)
  <2>1. PICK vm : vm = Limited(vo)  OBVIOUS
  <2>2. VmOK(t, vm) /\ vm \in Vms  BY <1>1, <1>5, <2>1, LimitedKeeps DEF VmOK
  <2>3. SameBits(vm.pt, tab)  BY <1>4, <1>5, <2>1, SwapBits
  <2>4. PICK f : f = Taken(IF TableMissing(t) THEN 2 ELSE 1)[IF TableMissing(t) THEN 2 ELSE 1]  OBVIOUS
  <2>5. PICK e : e = Entry(f, FALSE)  OBVIOUS
  <2>6. PICK row : row = [vm.pt EXCEPT ![va] = e]  OBVIOUS
  <2>7. pt' = [pt EXCEPT ![space[t]] = row]  BY <1>3, <1>9, <2>1, <2>4, <2>5, <2>6 DEF MapNew
  <2>8. row[va] = e /\ \A wa \in Va : wa # va => row[wa] = vm.pt[wa]  BY <1>2, <2>2, <2>6 DEF Vms
  <2>9. e # None /\ e.v
    <3>1. IInv'  BY <1>9, MapNewKeeps
    <3>2. pt'[space[t]][va] \in PTE \cup {None} /\ pt'[space[t]] = row
      BY <1>1, <1>2, <2>7, <3>1 DEF IInv, TypeOK
    <3>3. e.v  BY <2>5 DEF Entry
    <3>4. f \in Frame
      <4>1. PICK n \in {1, 2} : n = IF TableMissing(t) THEN 2 ELSE 1  OBVIOUS
      <4>2. Alloc(n)  BY <1>9, <4>1 DEF MapNew
      <4>3. n \in Nat /\ n \in 1 .. n  OBVIOUS
      <4>4. FreeOK  BY DEF IInv
      <4>. QED  BY <1>1, <2>4, <4>1, <4>2, <4>3, <4>4, AllocOK
    <3>5. e \in PTE  BY <2>5, <3>4 DEF Entry, PTE
    <3>. QED  BY <3>3, <3>5, ConstantFacts
  <2>10. check_ad(row, va)  BY <2>8, <2>9 DEF check_ad
  <2>11. \A u \in alive : u # t /\ space[u] = space[t] =>
           \A wa \in Touches[u] : pt[space[t]][wa] # None =>
             /\ row[wa] # None /\ row[wa].v = pt[space[t]][wa].v
             /\ (pt[space[t]][wa].a => row[wa].a) /\ (pt[space[t]][wa].d => row[wa].d)
    <3>1. \A u \in alive : u # t /\ space[u] = space[t] =>
           \A wa \in Touches[u] : wa \notin Mine(t) /\ wa \in Va /\ (pt[space[t]][wa] # None =>
             /\ vm.pt[wa] # None /\ vm.pt[wa].v = pt[space[t]][wa].v
             /\ vm.pt[wa].a = pt[space[t]][wa].a /\ vm.pt[wa].d = pt[space[t]][wa].d)
      BY <1>1, <1>4, <2>2, <2>3, SwappedRow
    <3>. QED  BY <1>2, <2>8, <3>1
  <2>12. check_ad(pt[space[t]], va) => Permits(row[va], op)  BY <1>4, <1>6
  <2>13. Leaves(t, va, op, row)  BY <1>7, <2>7, <2>10, <2>11, <2>12 DEF Leaves
  <2>. QED  BY <1>1, <2>13, RowRetries
<1>. QED  BY <1>8, <1>9


\* A step that leaves the entries of the tasks that live, and lets task t, if it is
\* one of them, be in no trap.
LEMMA EntriesKept ==
  ASSUME TypeOK, Spaces, Trapped, NEW t \in Task, instr' = [instr EXCEPT ![t] = None],
         \A u \in alive : u # t => u \in alive',
         \A u \in alive : space'[u] = space[u],
         \A u \in alive : \A wa \in Touches[u] : pt'[space[u]][wa] = pt[space[u]][wa]
  PROVE  Trapped'
<1>1. instr'[t] = None /\ \A u \in Task : u # t => instr'[u] = instr[u]  BY DEF TypeOK
<1>2. \A u \in alive : u # t => u \in alive' /\ space'[u] = space[u]  OBVIOUS
<1>3. \A u \in alive : \A va \in Touches[u] : u # t /\ pt[space[u]][va] # None =>
           /\ pt'[space[u]][va] # None
           /\ pt'[space[u]][va].v = pt[space[u]][va].v
           /\ pt[space[u]][va].a => pt'[space[u]][va].a
           /\ pt[space[u]][va].d => pt'[space[u]][va].d
  OBVIOUS
<1>4. \A u \in Task : u # t /\ instr'[u] # None => Retries(u, pt[space[u]])'
  BY <1>1, <1>2, <1>3, OthersRetry
<1>. QED  BY <1>1, <1>4 DEF Trapped

\* The pages of a task to come are in no table of one that lives, and a task that
\* goes takes its trap with it.
LEMMA NextTrapped == IInv /\ Counted /\ Trapped /\ [Next]_vars => Trapped'
<1>. SUFFICES ASSUME IInv, Counted, Trapped, [Next]_vars PROVE Trapped'  OBVIOUS
<1>1. TypeOK /\ Spaces  BY DEF IInv
<1>2. \A u \in alive : u \in Task /\ space[u] \in Proc /\ Touches[u] \subseteq Va
  <2>1. \A u \in alive : u \in Task /\ space[u] \in Proc  BY <1>1 DEF TypeOK, Spaces
  <2>. QED  BY <2>1, MineFacts
<1>3. ASSUME UNCHANGED <<alive, space, pt, instr>> PROVE Trapped'
  <2>. SUFFICES ASSUME NEW u \in Task, instr'[u] # None PROVE Retries(u, pt[space[u]])'
    BY DEF Trapped
  <2>1. Retries(u, pt[space[u]])  BY <1>3 DEF Trapped
  <2>. QED  BY <1>3, <2>1 DEF Retries, check_ad, Permits
<1>4. ASSUME NEW q \in Task \ alive, alive' = alive \cup {q}, UNCHANGED instr,
             \A u \in alive : space'[u] = space[u],
             \A u \in alive : \A wa \in Touches[u] : pt'[space[u]][wa] = pt[space[u]][wa]
      PROVE  Trapped'
  <2>1. instr[q] = None  BY <1>4 DEF Trapped, Retries
  <2>2. instr' = [instr EXCEPT ![q] = None]  BY <1>1, <1>4, <2>1 DEF TypeOK
  <2>3. \A u \in alive : u # q => u \in alive'  BY <1>4
  <2>. QED  BY <1>1, <1>4, <2>2, <2>3, EntriesKept
<1>5. CASE Access
  <2>1. PICK t \in alive : \E va \in Touches[t] :
          IF va = Image THEN Execute(t, va, "fetch") \/ SetBits(t, va, "fetch")
          ELSE \E op \in Data \cup {"load"} :
            Execute(t, va, op) \/ SetBits(t, va, op) \/ SwapIn(t, va, op) \/ MapNew(t, va, op)
    BY <1>5 DEF Access
  <2>2. PICK va \in Touches[t], op \in Data \cup Reading :
          \/ Execute(t, va, op) \/ SetBits(t, va, op)
          \/ va # Image /\ (SwapIn(t, va, op) \/ MapNew(t, va, op))
    <3>1. "fetch" \in Reading /\ "load" \in Reading  BY DEF Reading
    <3>. QED  BY <2>1, <3>1
  <2>3. CASE Execute(t, va, op)
    <3>1. instr' = [instr EXCEPT ![t] = None] /\ UNCHANGED <<alive, space, pt>>
      BY <2>3 DEF Execute, tasks
    <3>. QED  BY <1>1, <1>2, <3>1, EntriesKept
  <2>4. CASE SetBits(t, va, op)  BY <2>4, SetBitsRetries
  <2>5. CASE va # Image /\ (SwapIn(t, va, op) \/ MapNew(t, va, op))  BY <2>5, FaultRetries
  <2>. QED  BY <2>2, <2>3, <2>4, <2>5
<1>6. ASSUME NEW p \in Proc, do_exec(p) PROVE Trapped'
  <2>1. PICK tab : tab = ExecTable(p, Taken(4))  OBVIOUS
  <2>2. /\ p \notin alive /\ space[p] = None /\ alive' = alive \cup {p}
        /\ space' = [space EXCEPT ![p] = p] /\ pt' = [pt EXCEPT ![p] = tab] /\ instr' = instr
    BY <1>6, <2>1 DEF do_exec
  <2>3. p \in Task  BY ConstantFacts
  <2>4. \A u \in alive : u # p /\ space[u] # p  BY <1>1, <1>2, <2>2 DEF Spaces
  <2>5. \A u \in alive : space'[u] = space[u]  BY <2>2, <2>4
  <2>6. \A u \in alive : pt'[space[u]] = pt[space[u]]  BY <2>2, <2>4
  <2>. QED  BY <1>4, <2>2, <2>3, <2>5, <2>6
<1>7. ASSUME NEW t \in Thread, do_mthread_create(t) PROVE Trapped'
  <2>1. PICK s : s = space[current]  OBVIOUS
  <2>2. PICK a, b : a = Entry(Taken(2)[1], FALSE) /\ b = Entry(Taken(2)[2], FALSE)  OBVIOUS
  <2>3. /\ t \notin alive /\ space[t] = None /\ alive' = alive \cup {t} /\ current # None
        /\ space' = [space EXCEPT ![t] = s] /\ instr' = instr
        /\ pt' = [pt EXCEPT ![s][KernelStack(t)] = a, ![s][UserStack(t)] = b]
    BY <1>7, <2>1, <2>2 DEF do_mthread_create
  <2>4. t \in Task  BY ConstantFacts
  <2>5. \A u \in alive : space'[u] = space[u]  BY <2>3
  <2>6. \A u \in alive : KernelStack(t) \notin Touches[u] /\ UserStack(t) \notin Touches[u]
    <3>1. \A u \in alive : u # t  BY <2>3
    <3>. QED  BY <1>2, <2>4, <3>1, ConstantFacts DEF KernelStack, UserStack
  <2>7. \A u \in alive : \A wa \in Touches[u] : pt'[space[u]][wa] = pt[space[u]][wa]
    <3>1. s \in Proc  BY <1>1, <1>2, <2>1, <2>3 DEF TypeOK
    <3>. QED  BY <1>1, <1>2, <2>3, <2>6, <3>1 DEF TypeOK
  <2>. QED  BY <1>4, <2>3, <2>4, <2>5, <2>7
<1>8. ASSUME NEW t \in alive, Recycle(t) PROVE Trapped'
  <2>1. t \in Task  BY <1>2
  <2>2. alive' = alive \ {t} /\ instr' = [instr EXCEPT ![t] = None] /\ UNCHANGED <<space, pt>>
    BY <1>8 DEF Recycle
  <2>. QED  BY <1>1, <2>1, <2>2, EntriesKept
<1>9. ASSUME NEW t \in Task, do_kill(t) PROVE Trapped'  BY <1>8, <1>9 DEF do_kill
<1>10. CASE do_exit
  <2>1. current \in alive  BY <1>1, <1>10 DEF do_exit, TypeOK
  <2>. QED  BY <1>8, <1>10, <2>1 DEF do_exit
<1>11. CASE do_scheduler  BY <1>3, <1>11 DEF do_scheduler
<1>12. CASE UNCHANGED vars  BY <1>3, <1>12 DEF vars, tasks
<1>. QED  BY <1>5, <1>6, <1>7, <1>9, <1>10, <1>11, <1>12 DEF Next

\* No instruction traps more than twice, whatever is scheduled, swapped, made or
\* killed in between: no program is caught in a loop of faults.
THEOREM TwoFaultsAtMost == Spec => []FewFaults
<1>1. IInv /\ Counted /\ [Next]_vars => Counted'  BY NextCounts
<1>2. Init => Trapped  BY DEF Init, Trapped
<1>3. IInv /\ Counted /\ Trapped /\ [Next]_vars => Trapped'  BY NextTrapped
<1>4. TypeOK /\ Trapped => FewFaults
  <2>. SUFFICES ASSUME TypeOK, Trapped, NEW t \in Task, instr[t] # None PROVE instr[t].faults <= 2
    BY DEF FewFaults
  <2>1. instr[t].faults \in Nat  BY DEF TypeOK
  <2>. QED  BY <2>1 DEF Trapped, Retries
<1>5. IInv => TypeOK  BY DEF IInv
<1>. QED  BY <1>1, <1>2, <1>3, <1>4, <1>5, InitCounts, Invariance, PTL DEF Spec
=============================================================================
