------------------------------- MODULE Paging -------------------------------
(***************************************************************************)
(* Demand paging and swapping (kernel/irq/irq.c, kernel/mm/mm.c and the    *)
(* parts of kernel/sched/sched.c that make, fill and empty page tables).   *)
(*                                                                         *)
(* A program reads and writes pages.  The hart translates with the page    *)
(* table of the current process or with an entry its TLB remembers (one    *)
(* is enough to be stale), and traps when it finds no valid entry, or one  *)
(* whose A or D bit is clear.  The handler maps a new page, fetches a page *)
(* from the card, writes one to the card, or sets the bits, and the        *)
(* instruction is tried again.                                             *)
(*                                                                         *)
(* A page has a number and a content; frames are numbered in the order     *)
(* allocPage hands them out; swap_block counts units of eight sectors.     *)
(* Threads share the table of their process, and have a plist and a pnum   *)
(* of their own.  One hart runs, as at this commit.                        *)
(***************************************************************************)
EXTENDS Naturals, Sequences, FiniteSets, SequencesExt

CONSTANTS
    Proc,      \* processes: the pcbs
    Thread,    \* threads: the tcbs
    Shell,     \* the process that runs at the start
    Page,      \* user pages no program brings along
    Image,     \* a page of instructions, from an ELF image
    Touches,   \* the pages the program of a task uses
    Data,      \* what programs write
    None,      \* no task, no entry
    MaxFrame,  \* bound on the frames
    MaxSwap    \* bound on the writes to the card

Task == Proc \cup Thread
KernelStack(t) == <<t>>             \* the page of a kernel stack
UserStack(t) == t                   \* the page of a user stack
Va == Page \cup {Image} \cup {UserStack(t) : t \in Task} \cup {KernelStack(t) : t \in Task}
Frame == 1 .. MaxFrame
PageLimit == 4
PTE == [pfn : Frame, v : BOOLEAN, a : BOOLEAN, d : BOOLEAN]

ASSUME PagingOK ==
    /\ Shell \in Proc /\ Proc \cap Thread = {} /\ None \notin Task
    /\ Page \cap (Task \cup {Image}) = {} /\ Image \notin Task
    /\ \A t \in Task : <<t>> \notin Page \cup {Image} \cup Task
    /\ Touches \in [Task -> SUBSET (Page \cup {Image} \cup Task)]
    /\ \A t \in Task : Touches[t] \cap Task \subseteq {t}
    /\ Data \cap {"load", "fetch"} = {}
    /\ MaxFrame \in Nat /\ MaxFrame >= 4 /\ MaxSwap \in Nat
    /\ None \notin PTE

(* Threads have pages of their own, as the code requires: a page is in the *)
(* list of the task that used it first.                                    *)
ASSUME NoSharing == \A t \in Thread : \A u \in Task \ {t} : Touches[t] \cap Touches[u] \subseteq {Image}

VARIABLES
    alive,         \* tasks that were made and have not gone
    current,       \* current_running[0], None in the idle loop
    space,         \* the process whose page table a task uses
    pt,            \* the entries of page tables
    tables,        \* frames page tables lie in
    plist,         \* the page_t list of a task
    pnum,          \* the number of pages a task is charged with
    freePageList, memCurr,
    mem,           \* what frames hold
    card, swap_block,
    tlb,           \* a translation the hart remembers
    instr,         \* the instruction that trapped, with its faults
    want           \* history: what programs last wrote

frames == <<freePageList, memCurr>>
swap == <<card, swap_block>>
tasks == <<alive, current, space>>
vars == <<tasks, pt, tables, plist, pnum, frames, mem, swap, tlb, instr, want>>

Entry(f, bits) == [pfn |-> f, v |-> TRUE, a |-> bits, d |-> bits]
PageT(va, f, atds) == [va |-> va, pa |-> f, atds |-> atds, block |-> 0]

(* allocPage, n times: from the head of the free list, then fresh frames. *)
Taken(n) == [i \in 1 .. n |-> IF i <= Len(freePageList) THEN freePageList[i]
                               ELSE memCurr + i - Len(freePageList)]
(* Variant: the pages stay in the list.                                    *)
AllocKept(n) ==
    /\ UNCHANGED freePageList
    /\ memCurr' = IF n <= Len(freePageList) THEN memCurr ELSE memCurr + n - Len(freePageList)
    /\ memCurr' <= MaxFrame
Alloc(n) ==
    /\ freePageList' = SubSeq(freePageList, n + 1, Len(freePageList))
    /\ memCurr' = IF n <= Len(freePageList) THEN memCurr ELSE memCurr + n - Len(freePageList)
    /\ memCurr' <= MaxFrame
(* Variant: a page of the free list is not cleared. *)
Uncleared(m, n) == [f \in Frame |->
    IF \E i \in (Len(freePageList) + 1) .. n : f = Taken(n)[i] THEN "0" ELSE m[f]]
Zeroed(m, n) == [f \in Frame |-> IF \E i \in 1 .. n : f = Taken(n)[i] THEN "0" ELSE m[f]]

check_ad(table, va) == table[va] # None /\ table[va].v

(* What do_swap writes out: the first page of the list that is not on the  *)
(* card, but it gives up at a page without a valid entry.                  *)
Victim(vm) ==
    {i \in DOMAIN vm.plist :
        /\ \A j \in 1 .. i : check_ad(vm.pt, vm.plist[j].va)
        /\ vm.plist[i].atds = 0
        /\ \A j \in 1 .. (i - 1) : vm.plist[j].atds = 1}

do_swap(vm) ==
    IF Victim(vm) = {} THEN vm
    ELSE LET i == CHOOSE i \in Victim(vm) : TRUE
             p == vm.plist[i]
         IN [pt |-> [vm.pt EXCEPT ![p.va].v = FALSE],
             plist |-> [vm.plist EXCEPT ![i].atds = 1, ![i].block = vm.swap_block],
             pnum |-> vm.pnum - 1,
             mem |-> vm.mem,
             card |-> [vm.card EXCEPT ![vm.swap_block] = vm.mem[p.pa]],
             swap_block |-> vm.swap_block + 1]

(* What do_unswap brings back: the page va of the list, if it is on the card. *)
OnCard(vm, va) ==
    {i \in DOMAIN vm.plist :
        /\ vm.plist[i].va = va /\ vm.plist[i].atds = 1
        /\ \A j \in 1 .. (i - 1) : vm.plist[j].va # va \/ vm.plist[j].atds = 0}

(* Variant: pnum does not count the page. *)
UnswapUncounted(vm, va) ==
    LET i == CHOOSE i \in OnCard(vm, va) : TRUE
        p == vm.plist[i]
    IN [vm EXCEPT !.pt = [@ EXCEPT ![va].v = TRUE],
                  !.plist = Append(RemoveAt(@, i), [p EXCEPT !.atds = 0, !.block = 0]),
                  !.mem = [@ EXCEPT ![p.pa] = vm.card[p.block]]]

do_unswap(vm, va) ==
    LET i == CHOOSE i \in OnCard(vm, va) : TRUE
        p == vm.plist[i]
    IN [vm EXCEPT !.pt = [@ EXCEPT ![va].v = TRUE],
                  !.plist = Append(RemoveAt(@, i), [p EXCEPT !.atds = 0, !.block = 0]),
                  !.pnum = @ + 1,
                  !.mem = [@ EXCEPT ![p.pa] = vm.card[p.block]]]

Limited(vm) == IF vm.pnum >= PageLimit THEN do_swap(vm) ELSE vm

Translations(t, va) ==
    (IF check_ad(pt[space[t]], va) THEN {pt[space[t]][va]} ELSE {})
    \cup (IF tlb # None /\ tlb.va = va THEN {tlb.entry} ELSE {})
Reading == {"load", "fetch"}
Permits(e, op) == e.a /\ (op \notin Reading => e.d)

(* The task is new to its instruction, or tries it again. *)
Tries(t, va, op) ==
    /\ current = t
    /\ instr[t] # None => instr[t].va = va /\ instr[t].op = op

Execute(t, va, op) ==
    /\ Tries(t, va, op)
    /\ \E e \in Translations(t, va) :
        /\ Permits(e, op)
        /\ mem' = IF op \in Reading THEN mem ELSE [mem EXCEPT ![e.pfn] = op]
        /\ tlb' = [va |-> va, entry |-> e]
    /\ want' = IF op \in Reading THEN want ELSE [want EXCEPT ![space[t]][va] = op]
    /\ instr' = [instr EXCEPT ![t] = None]
    /\ UNCHANGED <<tasks, pt, tables, plist, pnum, frames, swap>>

Traps(t, va, op) ==
    /\ Tries(t, va, op)
    /\ \/ Translations(t, va) = {}
       \/ \E e \in Translations(t, va) : ~Permits(e, op)
    /\ instr' = [instr EXCEPT ![t] =
           [va |-> va, op |-> op, faults |-> IF @ = None THEN 1 ELSE @.faults + 1]]

local_flush_tlb_all == tlb' = None

(* Variant: a store sets the A bit only. *)
set_accessed(e, op) == [e EXCEPT !.a = TRUE]
set_attribute(e, op) == [e EXCEPT !.a = TRUE, !.d = @ \/ op # "load"]

(* The entry is there: the trap was about its A or D bit. *)
SetBits(t, va, op) ==
    /\ Traps(t, va, op)
    /\ check_ad(pt[space[t]], va)
    /\ pt' = [pt EXCEPT ![space[t]][va] = set_attribute(@, op)]
    /\ local_flush_tlb_all
    /\ UNCHANGED <<tasks, tables, plist, pnum, frames, mem, swap, want>>

Vm(t) == [pt |-> pt[space[t]], plist |-> plist[t], pnum |-> pnum[t],
          mem |-> mem, card |-> card, swap_block |-> swap_block]

Becomes(t, vm) ==
    /\ vm.swap_block <= MaxSwap
    /\ card' = vm.card /\ swap_block' = vm.swap_block
    /\ local_flush_tlb_all
    /\ UNCHANGED <<tasks, want>>

(* The page is on the card: it comes back, and may send another one there. *)
SwapIn(t, va, op) ==
    /\ Traps(t, va, op)
    /\ ~check_ad(pt[space[t]], va)
    /\ OnCard(Vm(t), va) # {}
    /\ LET vm == Limited(do_unswap(Vm(t), va))
       IN /\ Becomes(t, vm)
          /\ pt' = [pt EXCEPT ![space[t]] = vm.pt]
          /\ plist' = [plist EXCEPT ![t] = vm.plist]
          /\ pnum' = [pnum EXCEPT ![t] = vm.pnum]
          /\ mem' = vm.mem
    /\ UNCHANGED <<tables, frames>>

(* The first page a process touches beyond its image needs a table, too. *)
TableMissing(t) == \A va \in Page : pt[space[t]][va] = None

(* The page is new: another may go to the card, and it gets a zeroed frame. *)
MapNew(t, va, op) ==
    /\ Traps(t, va, op)
    /\ ~check_ad(pt[space[t]], va)
    /\ OnCard(Vm(t), va) = {}
    /\ LET vm == Limited(Vm(t))
           n == IF TableMissing(t) THEN 2 ELSE 1
           f == Taken(n)[n]
       IN /\ Becomes(t, vm)
          /\ Alloc(n)
          /\ tables' = [tables EXCEPT ![space[t]] =
                 IF n = 2 THEN @ \cup {Taken(n)[1]} ELSE @]
          /\ mem' = [g \in Frame |-> IF n = 2 /\ g = Taken(n)[1] THEN "table"
                                      ELSE Zeroed(vm.mem, n)[g]]
          /\ pt' = [pt EXCEPT ![space[t]] = [vm.pt EXCEPT ![va] = Entry(f, FALSE)]]
          /\ plist' = [plist EXCEPT ![t] = Append(vm.plist, PageT(va, f, 0))]
          /\ pnum' = [pnum EXCEPT ![t] = vm.pnum + 1]

(* The image is there from the start: handle_inst_page_fault sets both     *)
(* bits, and would stop the machine otherwise.                             *)
Access == \E t \in alive : \E va \in Touches[t] :
    IF va = Image THEN Execute(t, va, "fetch") \/ SetBits(t, va, "fetch")
    ELSE \E op \in Data \cup {"load"} :
        Execute(t, va, op) \/ SetBits(t, va, op) \/ SwapIn(t, va, op) \/ MapNew(t, va, op)

Blank == [va \in Va |-> None]
ExecTable(p, f) ==
    [Blank EXCEPT ![KernelStack(p)] = Entry(f[2], FALSE),
                  ![UserStack(p)] = Entry(f[3], FALSE), ![Image] = Entry(f[4], FALSE)]
ExecMem(m, f) == [m EXCEPT ![f[1]] = "table", ![f[2]] = "kstack", ![f[3]] = "args", ![f[4]] = "elf"]
ExecWant(p) == [va \in Va |-> IF va = UserStack(p) THEN "args"
                              ELSE IF va = Image THEN "elf" ELSE "0"]
ExecList(p, f) == <<PageT(KernelStack(p), f[2], 1), PageT(UserStack(p), f[3], 1)>>

(* A new process: table, stacks and image in fresh frames.  Its stacks are *)
(* entered as if they were on the card, so that do_swap leaves them alone. *)
do_exec(p) ==
    /\ current # None /\ p \notin alive /\ space[p] = None
    /\ Alloc(4)
    /\ pt' = [pt EXCEPT ![p] = ExecTable(p, Taken(4))]
    /\ mem' = ExecMem(Zeroed(mem, 4), Taken(4))
    /\ tables' = [tables EXCEPT ![p] = {Taken(4)[1]}]
    /\ want' = [want EXCEPT ![p] = ExecWant(p)]
    /\ plist' = [plist EXCEPT ![p] = ExecList(p, Taken(4))]
    /\ pnum' = [pnum EXCEPT ![p] = 2]
    /\ alive' = alive \cup {p}
    /\ space' = [space EXCEPT ![p] = p]
    /\ UNCHANGED <<current, swap, tlb, instr>>

(* A new thread: stacks in the table of its process; only the kernel stack *)
(* is entered in its list.                                                 *)
do_mthread_create(t) ==
    /\ current # None /\ t \notin alive /\ space[t] = None
    /\ Alloc(2)
    /\ LET s == space[current]
           f == Taken(2)
       IN /\ pt' = [pt EXCEPT ![s][KernelStack(t)] = Entry(f[1], FALSE),
                              ![s][UserStack(t)] = Entry(f[2], FALSE)]
          /\ mem' = [Zeroed(mem, 2) EXCEPT ![f[1]] = "kstack", ![f[2]] = "args"]
          /\ want' = [want EXCEPT ![s][UserStack(t)] = "args"]
          /\ plist' = [plist EXCEPT ![t] = <<PageT(KernelStack(t), f[1], 1)>>]
          /\ space' = [space EXCEPT ![t] = s]
    /\ alive' = alive \cup {t}
    /\ UNCHANGED <<current, tables, pnum, swap, tlb, instr>>

(* do_scheduler loads the table of the next task and empties the TLB. Who  *)
(* is next, and when all are blocked, is the business of Tasks.            *)
Schedule(ready) ==
    /\ IF ready = {} THEN current' = None ELSE current' \in ready
    /\ local_flush_tlb_all

do_scheduler ==
    /\ Schedule(alive)
    /\ UNCHANGED <<alive, space, pt, tables, plist, pnum, frames, mem, swap, instr, want>>

(* do_kill and do_exit free every frame of the list of the task that goes; *)
(* variant: the page table, too.                                           *)
RecycleTables(t) ==
    /\ alive' = alive \ {t}
    /\ freePageList' = freePageList \o [i \in DOMAIN plist[t] |-> plist[t][i].pa]
                                  \o SetToSeq(tables[space[t]])
    /\ plist' = [plist EXCEPT ![t] = <<>>]
    /\ instr' = [instr EXCEPT ![t] = None]
    /\ UNCHANGED <<space, pt, tables, pnum, memCurr, mem, swap, want>>
Recycle(t) ==
    /\ alive' = alive \ {t}
    /\ freePageList' = freePageList \o [i \in DOMAIN plist[t] |-> plist[t][i].pa]
    /\ plist' = [plist EXCEPT ![t] = <<>>]
    /\ instr' = [instr EXCEPT ![t] = None]
    /\ UNCHANGED <<space, pt, tables, pnum, memCurr, mem, swap, want>>

do_kill(t) ==
    /\ current # None /\ t \in alive \ {Shell}
    /\ Recycle(t)
    /\ IF t = current THEN Schedule(alive \ {t}) ELSE UNCHANGED <<current, tlb>>

do_exit ==
    /\ current \notin {None, Shell}
    /\ Recycle(current)
    /\ Schedule(alive \ {current})

(* The shell after init_shell: frames 1 to 4, and no list of pages. *)
Init ==
    /\ alive = {Shell} /\ current = Shell
    /\ space = [t \in Task |-> IF t = Shell THEN Shell ELSE None]
    /\ pt = [p \in Proc |-> IF p = Shell THEN ExecTable(p, <<1, 2, 3, 4>>) ELSE Blank]
    /\ tables = [p \in Proc |-> IF p = Shell THEN {1} ELSE {}]
    /\ plist = [t \in Task |-> <<>>]
    /\ pnum = [t \in Task |-> 0]
    /\ freePageList = <<>> /\ memCurr = 4
    /\ mem = ExecMem([f \in Frame |-> "junk"], <<1, 2, 3, 4>>)
    /\ card = [b \in 0 .. MaxSwap |-> "junk"] /\ swap_block = 0
    /\ tlb = None
    /\ instr = [t \in Task |-> None]
    /\ want = [p \in Proc |-> ExecWant(p)]

Next ==
    \/ Access
    \/ \E p \in Proc : do_exec(p)
    \/ \E t \in Thread : do_mthread_create(t)
    \/ \E t \in Task : do_kill(t)
    \/ do_exit
    \/ do_scheduler

Spec == Init /\ [][Next]_vars

PageTs == [va : Va, pa : Frame, atds : {0, 1}, block : 0 .. MaxSwap]
Contents == Data \cup {"0", "junk", "table", "kstack", "args", "elf"}

(* The variables have their types.                                         *)
TypeOK ==
    /\ alive \subseteq Task /\ current \in alive \cup {None}
    /\ space \in [Task -> Proc \cup {None}]
    /\ pt \in [Proc -> [Va -> PTE \cup {None}]]
    /\ tables \in [Proc -> SUBSET Frame]
    /\ plist \in [Task -> Seq(PageTs)] /\ pnum \in [Task -> Int]
    /\ freePageList \in Seq(Frame) /\ memCurr \in 0 .. MaxFrame
    /\ mem \in [Frame -> Contents]
    /\ card \in [0 .. MaxSwap -> Contents] /\ swap_block \in 0 .. MaxSwap
    /\ tlb \in {None} \cup [va : Va, entry : PTE]
    /\ instr \in [Task -> {None} \cup [va : Va, op : Data \cup Reading, faults : Nat]]
    /\ want \in [Proc -> [Va -> Contents]]

(* What a program may read is what its process wrote last, through zeroing,*)
(* swapping out and in, and the frames that go from one task to another.   *)
ReadsLastWrite ==
    \A t \in alive : \A va \in Touches[t] :
        /\ check_ad(pt[space[t]], va) => mem[pt[space[t]][va].pfn] = want[space[t]][va]
        /\ current = t /\ tlb # None /\ tlb.va = va => mem[tlb.entry.pfn] = want[space[t]][va]

(* The page tables and the kernel stack a task runs on hold what the       *)
(* kernel put there: no program has their frames among its pages.          *)
KernelIntact ==
    \A t \in alive :
        /\ \A f \in tables[space[t]] : mem[f] = "table"
        /\ mem[pt[space[t]][KernelStack(t)].pfn] = "kstack"

PagesOf(t) == {va \in Touches[t] \cup {UserStack(t), KernelStack(t)} :
                  va # Image /\ pt[space[t]][va] # None}
FramesOf(t) == {pt[space[t]][va].pfn : va \in PagesOf(t)}

(* A frame in the free list, which is there once, is no page of a task     *)
(* that lives, and two tasks have no frame in common: what do_kill and     *)
(* do_exit hand back is handed out once, to one.                           *)
OneOwner ==
    /\ \A i, j \in DOMAIN freePageList : freePageList[i] = freePageList[j] => i = j
    /\ \A t \in alive :
        /\ FramesOf(t) \cap {freePageList[i] : i \in DOMAIN freePageList} = {}
        /\ \A u \in alive \ {t} : FramesOf(t) \cap (FramesOf(u) \cup tables[space[u]]) = {}

(* An instruction traps at most twice: for the page and for its bits. The  *)
(* handler never takes the page away that it has just brought.             *)
FewFaults == \A t \in Task : instr[t] # None => instr[t].faults <= 2

(* pnum counts the pages of a task that are in memory, with the two stacks *)
(* of a process, however often pages came and went.                        *)
InMemory(t) == {i \in DOMAIN plist[t] : plist[t][i].atds = 0}
PnumCounts == \A t \in alive \ {Shell} :
    pnum[t] = Cardinality(InMemory(t)) + (IF t \in Proc THEN 2 ELSE 0)
=============================================================================
