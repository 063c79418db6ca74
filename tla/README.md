# A specification of the UCAS-OS RISC-V kernel

The kernel under `src/myos` is a teaching operating system for a RISC-V board:
preemptive round-robin tasks, mutexes, semaphores, barriers and mailboxes,
paged virtual memory with swapping, a small file system on the SD card, and a
network driver. This directory holds TLA+ modules translated from its code, the
TLC configurations that check them, and proofs checked by TLAPS.

## 1. The system

Paths are relative to `src/myos`.

| Component | Code | State | Operations | Made correct by |
|---|---|---|---|---|
| Tasks and scheduler | `kernel/sched/sched.c`, `init/main.c` | `pcb[]`, `tcb[]`, `current_running`, `ready_queue`, `process_num`, `thread_id` | `do_scheduler`, `do_exec`, `do_mthread_create`, `do_exit`, `do_kill`, `do_waitpid`, yield | one list node per task, status and list agree, nobody is lost or revived, waiters are released, every ready task runs |
| Sleep and timer | `sched.c`, `kernel/irq/irq.c` | `timers`, `timer1.time_finish` | `do_sleep`, `timer_check`, `reset_irq_timer` | sleepers are woken, in a bounded time |
| Mutex, semaphore, barrier | `kernel/locking/lock.c` | `sem_arr[]` (`s`, `status`, `wait_queue`), `pcb.lock[]`, `lock_num` | init, acquire/down, release/up, destroy, barrier init/wait | mutual exclusion, FIFO hand-over, units conserved, a barrier opens for all at once, locks of the dead are released |
| Slot handles | `lock.c` | `sem_arr[].status` | hashing by address, probing, `do_binsem_get` | two live handles never share a slot |
| Mailboxes | `lock.c` | `mbox_arr[]`: 64 bytes, `index`, two wait queues | open, close, send, receive | bytes arrive once and in order, no lost wake-up |
| Lists | `include/os/list.h` | `next`, `prev` | `list_add_tail`, `list_del`, `list_empty` | they are the sequences the others assume |
| Traps and kernel lock | `arch/riscv/kernel/entry.S`, `kernel/sched/smp.c`, `main.c` | the lock word, saved contexts, `sstatus` | entry, `lock_kernel`, handler, `switch_to`, return | one handler at a time, whoever takes the lock releases it |
| Virtual memory | `kernel/mm/mm.c`, `irq.c`, `sched.c` | page tables, `plist`, `pnum`, `freePageList`, `swap_block`, the card, the TLB | page faults, `do_swap`, `do_unswap`, `set_attribute`, the frames of exec, thread creation, kill and exit | a program reads what it wrote last, a frame has one owner, an instruction gets done |
| File system: tree | `kernel/fs/fs.c` | superblock, bitmaps, inodes, directories, `current_inode`, `file_d[]` | mkfs, mkdir, rmdir, cd, touch, ln, rm, open, close | names lead to inodes in use, counts and bitmaps agree with the names, also after a power failure |
| File system: contents | `fs.c` | direct blocks, index blocks, `usize`, `r_ptr`, `w_ptr` | fread, fwrite, lseek, touch, rm | a read returns what was written at that offset, rm gives back all blocks |
| Network calls | `drivers/net.c`, `drivers/emacps/xemacps_main.c` | two descriptor rings, `rx_buffers`, `tx_buffer`, `FramesRx`, `net_poll_mode`, two queues | receive, send, change of the mode; the card | frames arrive and leave in order and with their own lengths, a call comes back |
| Output, devices, boot, libraries, tools | `drivers/`, `libs/`, `tiny_libc/`, `tools/` | - | - | not modelled, section 6 |

**How they interact.** Every system call, exception and interrupt enters at
`exception_handler_entry`, takes the kernel lock and runs with interrupts off
until it returns, or until it calls `do_scheduler`, which switches to another
task that leaves the kernel in its place. So handlers are atomic towards each
other, and the places where they interleave are the calls of `do_scheduler`.
A handler hands a task over to another by moving its one list node: the ready
list, the timer list, the `wait_list` of a task it waits for, the queue of a
slot, a mailbox or the network card. `do_kill` reaches into all of them.

A trap for a missing page is a handler like the others; it moves pages between
frames and the card that the file system is on, at other sectors. Kill and exit
give the frames of a task back, and the next exec or fault gets them. The file
system and the network keep their state between calls in variables that all
tasks share (`current_inode`, `file_d[]`, the descriptor rings); the kernel lock
is held for the whole of a call, so calls never overlap, except that the network
card fills its ring whatever the kernel does, and that the power may fail.

**What is hard.** A kill, which may find its victim anywhere; a task that
blocks, and what has changed when it runs again; the hand-over of a unit or a
lock to a waiter; records that say what a task holds, kept apart from who holds
it; tables that only fill up; the loops that run with the kernel locked, whose
end depends on the state of other tasks; what is kept twice (page lists and page
tables, link counts and names, bitmaps and trees, `usize` and blocks); a device
that goes on while the kernel prepares the next thing for it. `PROJECT.json` lists the hazards line
by line with the properties that watch them.

## 2. The modules

| Module | What it is |
|---|---|
| `Lists` | the lists of `list.h` as sequences, and order-preserving selections from them |
| `Tasks` | scheduler, life cycle, sleep and timer interrupt, mutexes, semaphores and barriers |
| `ListsTheorems` | lemmas on sequences without repetitions: append, concatenation, splitting, selections |
| `TasksProofs` | the inductive invariant of `Tasks` and the theorems |
| `ByteQueue` | what a mailbox promises: a bounded first-in first-out queue of bytes |
| `Mailbox` | the mailboxes of `lock.c`, with their blocking loops; implements `ByteQueue` |
| `MCMailbox` | the symmetry of tasks and names, and, for liveness, programs that only send or only receive |
| `MailboxProofs` | the refinement of `ByteQueue` and the invariant of the waiting tasks |
| `KernelLock` | traps, the kernel lock and the context switch, on several harts |
| `KernelProofs` | the inductive invariant of `KernelLock` and the theorems |
| `MCTasks` | the symmetry of the two mutexes of one instance |
| `Paging` | page faults, swapping, the TLB, and where frames go |
| `MCPaging` | which task uses which pages, and the symmetry of pages |
| `PagingProofs` | the inductive invariant of `Paging` and the theorems |
| `FileSystem` | directories, links, bitmaps and descriptors, with power failures |
| `MCFileSystem` | the paths, the symmetry of names, and what of the card can matter |
| `FileSystemProofs` | the inductive invariant of `FileSystem` and the theorems |
| `FlatFile` | what a file promises: each offset has the byte last written to it |
| `FileIO` | offsets, sectors, blocks and index blocks of files; implements `FlatFile` |
| `MCFileIO` | the symmetry of files |
| `FileIOProofs` | the arithmetic of transfers, the invariant of blocks, and the refinement of `FlatFile` |
| `NetQueues` | the network calls, the descriptor rings and the card |
| `NetProofs` | the invariant of the ring and the theorems on received and sent frames |

A configuration `MC<module>_<run>.cfg` gives the constants of a module values
and names what is checked; it belongs to the module itself or, where an instance
needs definitions of its own, to the `MC` module.

The modules are separate systems, joined where their code is: `Tasks` lets its
actions be whole handlers because `KernelLock` shows that they exclude each
other; `Mailbox` and `NetQueues` leave the ready list to `Tasks`, `KernelLock`
leaves the order of dispatch to it, and `Paging` its life cycle, of which it
keeps what touches pages. `FileSystem` takes a file's first block, `FileIO` all
that is in and behind it.

### Tasks and the code

* **Granularity.** One handler is one action, with its call of `do_scheduler`.
  No handler of this module touches shared state after `do_scheduler` returns:
  `do_sem_down`, `do_barrier_wait`, `do_waitpid`, `do_sleep` and the timer
  interrupt end with it, so a task that blocks does the rest (the return to
  the program) without a further step.
* **Harts.** `main.c:458` leaves the second hart asleep, so `cur` is
  `current_running[0]` alone.
* **Tasks.** Process `p` is `pcb[p - 1]` and has pid `p`: `process_id` and
  `process_num` advance together (`sched.c:436-443`). Task `NumTask + i` is
  `tcb[i]`. `Idle` is `pid0_pcb_0`; its pid 0 keeps it off the ready list.
* **Lists.** `queue` maps each list head to the sequence of the tasks linked
  into it: `ReadyQ`, `TimerQ`, `WaitQ(t)`, and `SemQ(x)` for slot `x`.
* **Time.** `due[t]` counts the timer interrupts until `time_finish` has
  passed. `do_sleep(0)` is woken by the next one.
* **Kill.** `Kill` is the whole of `do_kill` after its lookup. The loop over
  `lock[]` is written as what it amounts to: record `i` names its slot for the
  `Nth(i)` time and serves the `Nth(i)`-th waiter if there is one, and `s`
  becomes 1 if some record finds none. The loops that wait for the status of
  a waiter are the actions' alternative `Hang`.
* **A mode that is not one.** `handle_syscall` passes three arguments on
  (`kernel/syscall/syscall.c:9`), and `do_exec` takes its fourth, the mode,
  from a register nobody set for it: `Modes` has `"junk"` beside the two values
  of `spawn_mode_t`. A junk process that exits keeps its status and is
  recognised by its pid 0.
* **History.** `owner` and `need` are not in the kernel: they record who has
  locked a mutex and not unlocked it, and the count of a barrier.

### What programs do, and the constant `Misuse`

The kernel trusts its callers in five ways that its own programs respect
almost always. `Misuse` says which of these calls the programs of an instance
make. The passing runs exclude them all except `killWaiter` in `life` and
`live`, where there are no slots to wait in and it allows the killing of the dead,
and `tableFull` in `locks`:

* `killWaiter`, killing a task that waits in a slot, or a dead one: its last
  record is of a lock it does not hold, and `do_kill` releases it, under its
  owner (`MutualExclusion` fails), and a barrier stays a task short;
* `unlockOther`, unlocking a mutex that is not the last one locked: `lock_num--`
  drops the record of another lock, which is not released when its owner is
  killed (`KilledHoldNothing` fails);
* `killNoThread`, killing a thread of a process that has none: the walk over
  the zeroed `tcb[0].wait_list` never ends with the kernel locked
  (`KernelResponsive` fails; the theorem `NoHang` excludes this call);
* `shellExit`, `exit` in the shell, whose `wait_list` is never made: the same;
* `tableFull`, `exec` or a new thread when `pcb[]` or `tcb[]` is used up:
  nothing puts a task that has gone back into its table, `sched.c:436` and
  `sched.c:512` do not ask how full it is, and write past its end. What the
  memory behind it is, the model does not say: it ends there, with `hung`
  (`WritesPast`; `KernelResponsive` fails). Without it in `Misuse` the programs
  start no more tasks than the tables have room for.

Two more things the code does are in the model without any such condition, and
limit what is claimed: a task that exits keeps its mutexes (`sched.c:346-348`
is commented out, against `sched.h:128`), so only of the killed is it claimed that
they hold none; and a killed process keeps its pid (`sched.c:317`), so that
`waitpid` still finds it and waits, for ever unless it is killed again.
`ExitedHasNoWaiters` is about those who exited.

A program also uses a slot only between its initialisation and its destruction,
destroys no mutex, unlocks only what it has locked, and re-initialises a barrier
when nobody waits in it.

### Mailbox and the code

* **Granularity.** `do_mbox_send` and `do_mbox_recv` test their condition in a
  loop around `do_scheduler`, so they see whatever other tasks did in between.
  One step of the model goes from the test to `do_scheduler` or to the return.
  `call[t]` says in which call task `t` is.
* **Order of dispatch.** The ready list is left out. Any task that is not
  blocked may be next, which allows all the orders the scheduler can produce and
  more. What happens to ready tasks is the business of `Tasks`.
* **Programs.** They use handles they got from `do_mbox_open` and have not
  closed, and lengths of at least one byte. `CloseShared` says whether they close
  a mailbox that others still have open: the code then clears the buffer and the
  name and gives the next user new list heads, and whoever waited is lost. The
  queue of bytes survives this (`MailboxIsByteQueue` is proved for both values); the
  properties of waiting tasks are claimed without it.
* **Gone.** An exit, or a kill with its `list_del`. The kernel does not
  close the mailboxes of a task that goes; neither does the model.
* `block_count`, a statistic the calls return, is left out.

### KernelLock and the code

* **Granularity.** What a hart does without the lock is a step of its own:
  `SAVE_CONTEXT` up to the loop of `lock_kernel`, the successful
  `lr.w`/`sc.w`, and everything after `unlock_kernel` (`RESTORE_CONTEXT` and
  `sret`). `pc[h]` is where the hart is: `run` (a program or the idle loop),
  `spin`, `handler`, `resumed` and `woken` (a handler that `do_scheduler`
  returned to), `return` (a new task on its way out), `leave`; `main`, `booted`
  and `boot` are in `main`.
* **Contexts.** `tp` stands for all registers: programs use it as they like, the
  kernel needs it to be the current task, and `sscratch` carries that over.
  `last` remembers what a task had in it. Frames count; `kernel_sp` is the
  number of frames the saved stack pointer leaves on the stack. `sp` is 0
  outside the kernel, because the next trap does not use it there, and in
  `main`, which runs on a boot stack: its switch frame is frame 1.
* **Switch.** `switch_to` saves a frame whose `go` is what `ra` points to: the
  rest of a handler (`resumed`), of `main` (`booted`), or `ret_from_exception`
  in the frame that `init_pcb_stack` lays out (`return`).
* **Handlers** create, wake and kill any task and suspend the current one. Which
  of them a call does in which order is the business of `Tasks` and `Mailbox`.
  A handler that was suspended may block again (the loops of the mailboxes) until
  it has woken somebody, and never after that: this is what bounds the chain of
  handlers between a lock and its unlock.
* **Harts.** `main.c:458` has `wakeup_other_hart` commented out, so only hart 0
  leaves `boot` at this commit; the code of the second hart is there and is
  modelled. A kill may find its victim running on the other hart; the victim goes
  on until it enters the kernel, and nothing is claimed of it. `do_kill` also
  gives back its frames, the kernel stack among them (`sched.c:324-330`), which is
  left out here (`Paging` has it): with a second hart awake they would go while in use,
  with the one hart of this commit a victim is never on a hart.
* **Faults of handlers** are in `FaultSpec` only. The kernel runs with
  interrupts off, so a page fault is the one trap a handler can cause.

### Paging and the code

* **Granularity.** An instruction that touches a page is a step: it executes, or
  it traps and the handler does one of three things (`SetBits`, `SwapIn`,
  `MapNew`: the cases 1 to 3 of the load and store handlers in `irq.c`), after which it is tried again.
  `exec`, `mthread_create`, `kill`, `exit` and the switch of tasks are the other
  steps, each with the page tables, lists and frames it changes.
* **Tables.** `pt[p]` is the page table of process `p`, threads use the one of
  their process (`space`). One frame stands for the tables that exec makes, one
  more (`TableMissing`) for those a program needs beyond its image.
* **Two lists of one thing.** `plist[t]` is the page list of a task, with the
  flag `atds` and the sector of each page; `pt` has the V bit. `do_swap` is
  written as it works: it takes the first page of the list that is not on the card,
  and gives up at a page without a valid entry. Stacks are entered as if
  they were on the card, so that they are not taken. A page that is swapped out
  keeps its frame: the kernel never gives it to anybody else before the task goes.
* **TLB.** One remembered translation, dropped where the code flushes. Faults
  and switches flush all, so what could be stale is an entry used by the running
  task between two handlers.
* **Assumptions.** A thread has pages of its own (`NoSharing`): a
  page its process uses first through a thread is in the list of the thread,
  which frees it when it goes. The shell touches no page beyond its image: its
  `plist` is never initialised. `swap_block` and `memCurr` are bounded
  (`MaxSwap`, `MaxFrame`); in the kernel nothing stops them.

### FileSystem and the code

* **Granularity.** A call is a list of writes to the card, in the order of the
  code, and one step, since the kernel is locked. If the power fails in it
  (`PowerFails`), only the first `k` writes are there, `main` runs `do_mkfs` if the
  superblock is not, and memory starts afresh.
* **State.** Of an inode, `mode`, `nlinks`, the first direct block, and the
  number of entries, `usize / 32`. A lookup reads the inode from the card each
  time, so there is no copy to be stale but `current_inode` and the descriptors,
  which are inode numbers here. An entry's mode, inode and name are what the code
  tests.
* **Files have no entries.** `lookup` does not test the mode of what it searches
  (`fs.c:102-105` is commented out), and takes the first `usize` bytes of a file
  for entries. Files are empty here, so a path through one leads nowhere. With
  contents it may be led anywhere; the hazards have it, no property does.
* **Names.** `find_dir` walks name by name, from the root or the current
  directory, and leaves `current_inode` where it stopped; the calls that
  set it back only when they succeed are `NoSuchFile`.
* **What runs out.** Nothing in `fs.c` asks whether an inode, a descriptor or a
  place in the block of a directory is left. What it would then write is
  not modelled: the calls have no step in such a state.
* **Readers.** `do_ls`, `do_ls_l`, `do_statfs` and `do_cat` write nothing to the
  card; what they do to `current_inode` is what `do_fopen` does.
* **`Misuse`** lists calls that `fs.c` carries out unchecked, and that programs
  of the run do not make: a path that leads nowhere (`missingPath`: the current
  directory has moved), `rmdir` of a directory with entries (`rmdirFull`: looks its
  files up in the father), of a file, `.` or `..` (`rmdirFile`), `rm` of a
  directory (`rmDir`), `ln` to a name that is there or of a directory (`lnTaken`,
  `lnDir`), `rm` of the last name of an open file (`rmOpen`), opening a directory
  (`openDir`), `mkfs` with files open (`mkfsOpen`). Each of the nine, allowed alone,
  violates a property of `tree`. The same holds for `CrashIn`: with `mkfs`,
  `rmdir`, `ln` or `rm` in it, a property fails; with `mkdir` and `touch` none
  does, because they mark before they use and name last.

### FileIO and the code

* **State.** Sectors of `SS` bytes, `SPB` of them in a block, `DPTR` direct
  blocks, index blocks of `LEV` entries; 512, 8, 10 and 1024 in `fs.h`. Bytes
  are what wrote them: the `k`-th of the `w`-th call.
* **Transfers** are cut into `Pieces` as in `do_fread` and `do_fwrite`: a head up to
  the end of its sector if the offset is inside one, then whole sectors, the last
  one in part, and none beyond the second index block. `BlockOf` is the choice
  among direct and index blocks, `WithSector` what `do_fwrite` allocates on the
  way. `do_fread` changes `r_ptr` only; what it copies is `Read`, which `ReadsBack`
  is about. It is `Copied(at, n)` bytes and not always `n`: a head under an index
  block is copied to the end of its sector even when the call asks for less
  (`fs.c:650`; the direct case, `fs.c:629`, copies `size`). The bytes are the
  right ones, but they go behind the caller's buffer: the run `readOverrun`.
* **Closed descriptors** (`inode` 0, the root directory) can be read and written
  in `fs.c`, which does not ask; these calls are left out.
* **`Misuse`**: writing up to the last byte or over it (`tooLong`: `rm` then frees
  nothing behind the second index block), removing a file whose last write ended before an
  earlier one (`rmShrunk`: `usize` is too small), or one with a gap where the first
  index block would be (`rmSparse`: `rm` reads the superblock as an index), or an open
  one (`rmOpen`), a full card (`full`: block 0 is written). `tooLong`, `rmShrunk` and
  `full` violate a property of `io`; with `rmOpen` a descriptor leads
  to no file, and what the superblock says as an index is not modelled.

### NetQueues and the code

* **Granularity.** `EmacPsRecv` writes one descriptor in a step (`ArmsDescriptor`) and
  then sees to the receiver (`StartsReceiver`); a test of a waiting loop is one step,
  and so is the copying of a chunk. Between any two of them the card
  moves: `FrameArrives` fills the descriptor it is at, or drops the frame,
  `FrameGoes` transmits.
* **`MaxDuring`** bounds the frames that arrive while `EmacPsRecv` writes the ring.
  Nothing in the code does: it is how fast the network is against some sixty-four
  stores. With one, everything below holds; with two `WithinBuffers` fails: the
  card can pass a descriptor just rewritten and take the next, which still has the
  address 0 of a shorter call before.
* **The card**, as the driver uses it: it goes from descriptor to descriptor, back
  to the first after the one with the wrap bit, takes the base of the ring only
  when the receiver is switched on, stops at a used descriptor and drops frames
  until it is given back. `xemacps_main.c:609` means to switch the receiver off before
  the descriptors are rewritten, but compares bit 4 of the register with `TRUE`,
  so it stays on; the model has it on from the first call for good.
* **Frames** are numbered in the order they arrive, from the last call of
  `do_net_recv` on; 0 is the frame an earlier call left in a buffer.
* **The two modes.** With `net_poll_mode` 0 a call spins; `net.c:18` starts with it,
  and `boot_first_core`, which would set 1 (`main.c:410`), is not called at this
  commit. With 1, which programs ask for with `do_net_irq_mode` (`test/recv.c:41`,
  `test/send.c:37`), it queues its caller, whom nothing wakes: `irq_table` has no
  entry for the card, and `recv_check` and `send_check` are commented out of the
  timer interrupt (`irq.c:151`). Such a call also leaves the ring armed
  and the complete bit to come; `unattended` remembers that there was one.

## 3. Runs

| Run | Instance | Checks |
|---|---|---|
| `life` | shell, two more processes, one thread; no slots; sleep of 0 or 1 interrupts; all modes; `killWaiter` | `LinkedOnce`, `StatusMatchesQueue`, `KernelResponsive`, `NoneLost`, `ExitedHasNoWaiters`, `NoResurrection` |
| `locks` | shell, two processes, no sleep beyond the next interrupt; two mutexes, a semaphore of 1 or 3 units, a barrier of 1 or 3 tasks; `tableFull` | `TypeOK`, `MutualExclusion`, `KilledHoldNothing`, `NoOvertaking`, `BarrierTogether` |
| `live` | shell, two processes, sleep | `ReadyTasksRun`, `SleepersWake` |
| `mail` | three tasks, two mailboxes of two bytes, two names, lengths 1 and 2 | `NoLostWakeup`, `MutualBlock`, `Rendezvous` |
| `mailLive` | two senders, one receiver, lengths 1 and 2 in three bytes, two kinds of bytes | `ReceiverServed`, `IsByteQueue` (refinement) |
| `harts` | two harts, two programs, two values of `tp` | `Exclusion`, `OnOneHart`, `ContextPreserved`, `StackEmptied`, `LockFreed` |
| `paging` | shell, a process with four pages and its stack, one with a page of the same number and its image, a thread; two writes to the card, thirteen frames | `ReadsLastWrite`, `KernelIntact`, `OneOwner`, `FewFaults`, `PnumCounts` |
| `tree` | four inodes and four blocks, two names, two descriptors, paths of up to two names and `..`; power failures in `mkdir` and `touch` | `TreeSound`, `LinkCounts`, `BlocksApart`, `NothingLeaked`, `ReferencesValid` |
| `io` | two files, one descriptor, sectors of three bytes, blocks of two sectors, one direct block, index blocks of two entries; writes and reads of 1 and 7 bytes, seeks by 10 | `IsFlatFile` (refinement), `ReadsBack`, `NothingLeaked` |
| `net` | two tasks, chunks of two frames, calls for one and three frames, two lost frames, one frame while the ring is written | `RecvInOrder`, `WithinBuffers`, `SentInOrder`, `CallsReturn` |

Runs that end in a counterexample, each a disagreement between the code and
what a comment of the repository says, or one of its programs relies on:

| Run | Shows |
|---|---|
| `kernelFault` | a handler that touches unmapped user memory traps and spins for the lock of its own hart; `entry.S:6` describes how a trap from the kernel goes on |
| `readOverrun` | `do_fread` copies more bytes than were asked for; `test_lfs.c:27` makes this call with the buffer of `test_lfs.c:8` |

**Bounds.** The interesting cases need at most three tasks: a killer, a victim
and a task that waits for the victim or for what it holds; two waiters in
one queue show its order. The thread adds the case that `do_kill` with a tid
reaches another task than the pid names. Two mutexes are needed for a task to
hold one and wait for another. `MaxLock` bounds the records a task has
(`MAX_LOCK`, which the kernel does not check either), `MaxUnits` the units of
a semaphore, `MaxSleep` the interrupts of a sleep. The tables are full at the
end of every long behaviour; `locks` goes on to the exec that writes past them, the
other runs stop short of it.

For the mailboxes two bytes instead of 64 suffice: lengths 1 and 2 give every
order of the length, the room and the contents, and `MutualBlock` is met with
equality. Two tasks of one side are needed for a wake-up that must reach both,
and two names for a mailbox that is freed and opened under another one. `mail`
uses the symmetry of its tasks and of its names, `locks` that of its mutexes:
programs treat them alike, nothing chooses among them, and only safety is
checked there.

For `Paging` a process has more pages than the limit of four leaves it beside
its stacks, so that pages go to the card and come back, twice each way with
`MaxSwap`. Thirteen frames are what the shell and this process take with all its
pages, so the other process and the thread also get frames of one that went, for
pages with the same number. For
`FileSystem` four inodes are the root and three more: a file in a directory of a
directory, two links to one file, a directory removed and its inode and block
taken by the next. In `FileIO` a transfer of seven bytes begins inside or at the
start of a sector, crosses sectors and a block; at 0 it crosses the end of the direct
block; at 10 it needs two blocks of the first index, and its last byte has the place
of its first, so that a block named twice shows; at 17 it goes on into the second
index. Two
writes show what the second does to the first and what a block held before. Three
bytes to a sector are the fewest for a read that begins and ends inside one
without touching its end. Six
blocks suffice for the two. In `NetQueues` a call for three frames needs a chunk
of two and one of one, and the next call finds the card elsewhere in the ring; four
descriptors let the ring be written over one that is full, one that is free and one
without a buffer.

For `KernelLock` two harts can be in every pair of places at once, two programs
are enough for one to be suspended while another runs, and the idle loop of each
hart makes a third and a fourth task. Two frames are what a stack ever holds
without faults (`KernelTyped`), three leave room for a fault.

**Deadlock** is checked except where it may happen. All tasks may be blocked in
mailboxes or gone (`mail`; in `mailLive` such a state already violates
`ReceiverServed`), the one hart of `kernelFault` stops, and so does the kernel
of `locks` when it writes past a table.

**Fairness.** `FairSpec` adds weak fairness of the timer interrupt and nothing
else. It is armed again in every handler that serves it (`irq.c:153`), is
enabled whenever a task or the idle loop runs, and no handler of the model is
endless unless the kernel hangs. Nothing is assumed of the programs.
`ReadyTasksRun` holds although running tasks may yield, exec and wake others
as they like, because the ready list is first in, first out.

`LiveSpec` of `MCMailbox` assumes that each task that can go on does: that is
`ReadyTasksRun`, and programs that do nothing but call, like the two of
`test/mailbox.c`. It does not assume that one side is as fast as the other. With
several senders a sender may for ever be overtaken, and nothing is claimed of
it; one receiver is served.

`Fairness` of `KernelLock` says that a hart inside the kernel executes its
instructions, that a handler ends (`NoHang` is the theorem behind that), and that
one of the harts that spin for a free lock gets it. It does not say which: the
loop of `lr.w` and `sc.w` is not fair. So `LockFreed` is claimed, and that every
trap is served only of one hart.

`FairSpec` of `NetQueues` says that a spinning call goes on, that the card
transmits what it was started for, and that frames arrive: a call for frames
from a silent network spins with the kernel locked, and nothing else can happen.

## 4. Proofs

`TasksProofs` proves, for every number of tasks, threads, slots and locks and
every bound. Whatever the programs do (every set `Misuse`):

* `TypeCorrect` (`TypeOK`: the variables keep their types; `process_num` and
  `thread_id` are at most one past their tables, where the first write past one ends
  the model), `NodeLinkedOnce` (`LinkedOnce`), `StatusCorrect`
  (`StatusMatchesQueue`), `NoTaskLost` (`NoneLost`), `NobodyWaitsForExited`
  (`ExitedHasNoWaiters`: of those who exited; of the killed it is false);
* the action properties `DeadStayDead` (`NoResurrection`) and `ServedInOrder`
  (`NoOvertaking`).

And where the programs do not make the calls that break them:

* `NoHang` (`KernelResponsive`), without `killNoThread`, `shellExit` and
  `tableFull`;
* `OneOwner` (`MutualExclusion`) and `KilledReleased` (`KilledHoldNothing`),
  without `killWaiter` and `unlockOther`;
* `BarriersOpenTogether` (`BarrierTogether`), without `killWaiter`.

Section 2 says why: with one of these calls allowed, the property fails. The run
`locks` has none but `tableFull`, which these theorems allow.

The assumptions are `ConstantsOK` of `Tasks` (the kinds of slots are disjoint
and are not integers, the sizes are natural numbers), and that `Slot` is
finite is not needed.

None of the invariants of the queues is inductive alone. A list append is harmless only
if the node is in no list, which for the current task follows from its status
RUNNING, for a new process from the fact that a pcb that was not handed out is
nowhere, for a woken task from the list it comes from. `IInv` says all of it
together: `QueuesOK` (lists without repetitions, pairwise disjoint, status and
list agree), `RunsOnly` (the current task is the one that is RUNNING),
`Unborn`, `Whereabouts` (a task runs or is in a list exactly if it was created and has not
gone), and the types of the other variables. The kernel moves tasks in few
ways, and each has a lemma that it keeps `QueuesOK`: `Shrink` and `Leave` for
unlinking, `Join` and `JoinReady` for appending, `MakeReady` for moving tasks
from other lists to the ready list, `Scheduled` for `do_scheduler`. One lemma
per handler puts them together, `NextOK` collects the handlers. The hard one
is `KillKeeps`, where the records of a victim make several tasks ready at once:
`Entries` and `GrantedTo` show that no waiter is served twice and that those
who stay behind are not served. `ListsTheorems` proves what the selections of
`Lists` return (`EnumProperties`, `PickProperties`, `PickSplit`).

`DeadStayDead` rests on `Whereabouts` (a dead task is in no list, so no move makes it
ready) and on `Buried`, that no handler takes a death back. `NobodyWaitsForExited` is about the two places that empty the
`wait_list` of a task that goes, and the pid 0 that an exit leaves. `PastTheTable`
is the one lemma on the writes past a table: nothing else changes. `ServedInOrder` compares a step with
the next: every handler makes of a list what appending, unlinking and serving from
the front make of it (`Moved`, `Joined`, `Served`; `ListMoves` is the lemma on
the moves of a kill, `PidMoves` on those of an exit), and each of these keeps the order
of those who stay (`OrderKept`, `ReadyOrder`).

The argument on mutexes, `LocksInv`, ties the three accounts of a lock together:
its `s` and `status` in the slot, the history `owner`, and the records `lock[]`
of the tasks. `Owned` says that a mutex has at most one owner, who has not been killed and
has a record of it, and none while `s` is 1; `Recorded` that each record of a task is of a mutex
it owns, once, except that the last may be of one it waits for; `WaitsForLast`
that a waiter's last record is that one. `killWaiter` makes `do_kill` take such a last record
for one of a mutex owned, and `unlockOther` drops the record of another mutex than
the one it releases. A kill that walks the
records then finds exactly the victim's mutexes, and each goes to its first
waiter, whose record is there already. `Counted` is the invariant of the barriers:
`s` and the tasks that wait make up the count the barrier was made for, and `s` is not 0.

`KernelProofs` proves, for every number of harts and of tasks and any depth of
stack from two frames on: `KernelTyped`, `OneInKernel` (`Exclusion`),
`OneHartPerTask` (`OnOneHart`), `ContextKept` (`ContextPreserved`) and
`NoFrameLeft` (`StackEmptied`), all of `Spec`, where handlers do not fault. The
argument is that what happens without the lock, on the way in and out, touches
only the registers of a hart and the stack of its own task. The invariant
therefore has three parts: no two harts have the same task (`Apart`); what the
registers and the stack are at each place (`HartOK`); and what a suspended task
left behind (`Suspended`, `Resting`), which `switch_to` turns back into `HartOK`
when some hart goes on with it. `OwnStep` is the lemma for the steps on a hart's
own stack, `HandlerKeeps` for handlers that leave the tasks on harts alone,
and `SchedulerKeeps` for the switch. `Queued` is needed for `Apart`: a task on
the ready list is READY, so it is on no hart, also not when it was killed while
the other hart runs it.

`MailboxProofs` proves, for every number of tasks, mailboxes and names, every
capacity and every set of lengths:

* `MailboxIsByteQueue`: `Spec => IsByteQueue`, whether or not mailboxes are
  closed under others. The mapping takes the first `index` cells of the array.
  Each step is one of the queue or a stutter (`StepIsQueueStep`); the
  invariant needed is the types (`Typed`), above all that `index` stays within
  the array.
* `NeverMissed`: `Spec => []NoLostWakeup`, and `BlockOnlyWhenTooLong`:
  `Spec => []MutualBlock`, if nobody closes a mailbox that others have open. The
  test programs meet this, and the lengths of `test/mailbox.c` are far from
  the 66 bytes two lengths must reach together to block each other.
* `MeetByName`: `Spec => []Rendezvous`, under the same condition. `Named` says that a
  handle has the name its mailbox has now, and that no two mailboxes have one name.

The invariant `IInv` of `NeverMissed` and `BlockOnlyWhenTooLong` says where a blocked task is recorded:
`Queues` (the blocked tasks are exactly those in the wait queues, each once),
`Open` (whoever is in a call has the mailbox open, which keeps the entry busy, so
that no list head is replaced while somebody waits) and `Waiting` (the task in a
queue is in the call of that side and of that mailbox, and its condition does not
hold). `Waiting` is why a wake-up of one side is enough: a send only lowers the
room, a receive only lowers the bytes, so neither can make the condition of its
own side true.

`NetProofs` proves, for every number of tasks, every length of the ring, every set
of requests and both modes: `NetTyped` (`Spec => []TypeOK`), `FramesInOrder`
(`RecvInOrder`), `CardWithinBuffers` (`WithinBuffers`) and `FramesSentInOrder`
(`SentInOrder`), the last three while every call waits for the card, as the
properties say. `FramesInOrder` and `CardWithinBuffers` assume `MaxDuring <= 1`: with
more, the second is false. The invariant relates the card's place in the ring to the
kernel's: `Receiving` says that for some `n` and `k` the first `n`
descriptors are armed, the card has filled the first `k` of them with
frames that came one after the other, it stands at `k`, or at 0 when the ring is
full (`Filled`); that the kernel has counted at most `k`; and that what was copied
before is a whole number of chunks of earlier frames (`Copying`). When no call
waits, the ring is full (`Before`), and the card is back at the first descriptor. This
is why it does little harm that the receiver stays on while `EmacPsRecv` rewrites
them: the first becomes free, one frame can go there, and the card then stands
at the second, rewritten or not. That is `InRing` while the ring is written, where `n` is
what was asked for and only the first `armed` descriptors are known (`Filled`); `ArmsReceiving`,
`StartsReceiving` and `ArrivesReceiving` are the steps that disturb it. `Sending` says where a frame can be between
`do_net_send` and the wire.

`PagingProofs` proves, for every number of processes, threads, pages, frames and
sectors: `PagingTyped` (`Spec => []TypeOK`), `ReadsWhatItWrote`
(`ReadsLastWrite`), `KernelKept` (`KernelIntact`) and `FramesOwnedOnce`
(`OneOwner`). They assume `PagingOK` (the kinds of pages are disjoint, a program
does not name the stacks of others, there are frames for the shell) and
`NoSharing`. The invariant `IInv` ties together what the code keeps apart.
`Apart` says that each frame is free, kept by a process for its tables and its
image, or the page of exactly one task; `Pages` that a page list names pages of
its task with the frames of the table (`ListOK`), and that what was last written
to a page is in its frame if the entry is valid and in the sector of its list
element if not (`Reads`). So a page without a valid entry that is not on the card
was never written (`NewPage`), and a zeroed frame is right for it. `TlbOK` says
that the TLB never has more than the table. `Spaces` and `Mapped` say which table
a task uses and what is always mapped there; a thread to come finds none of
its pages in it. The three kinds of faults have one argument: `VmOK` is what the
handlers may do to the memory of a task, `SwapKeeps` and `UnswapKeeps` show that
swapping out and in does no more, and `FaultKeeps` that the invariant then holds
for everybody. `AllocOK` says what `allocPage` returns and `Grown` that
handing frames out keeps them apart; `CreateKeeps` is the common part of exec and
thread creation, `RecycleKeeps` of kill and exit.

On top of it, `PagesCounted` (`PnumCounts`) counts: `Counted` says that `pnum` is
the number of elements of `plist` that are not on the card, and of the stacks, which are marked
as if they were. The moves of an element to the end of the list leave the
number alone (`LoadedMoved`), a swap takes one out of it, an unswap adds one, and
`LimitedCounts` puts the two together, `do_swap` giving up included.
`TwoFaultsAtMost` (`FewFaults`) says why two traps suffice for an instruction: the
first leaves a valid entry, whichever of the three cases it is, the second an
entry with the bits for the access, and nobody else runs between them
(`Trapped`). The page that `SwapIn` sends to the card instead is another one:
it comes from the front of the list, and the new one is at its end
(`LastStays`).

`FileSystemProofs` proves, for every number of inodes, blocks, descriptors and
names and every set of paths: `TreeStaysSound` (`TreeSound`), `LinksCounted`
(`LinkCounts`), `BlocksStayApart` (`BlocksApart`), `NothingIsLeaked`
(`NothingLeaked`) and `ReferencesStayValid` (`ReferencesValid`). They assume
`FileSystemOK` of `FileSystem` and `Prudent`, which says:

* programs make none of the calls of `Misuse`, each of which alone violates a
  property of the run `tree` (section 2);
* the power fails only outside calls, in `mkdir` and in `touch`. In the others
  a property fails, which the hazards record;
* there are as many blocks as inodes, so that whoever gets an inode gets a block:
  the card has 512 inodes and some 131000 blocks, and with fewer blocks
  `do_touch` would name block 0;
* `Roomy`, that links are fewer than 65536, since `nlinks` has 16 bits: a block has
  128 entries, two of them `.` and `..`, so 512 directories make 64512 links at
  the most.

`TreeSound` is not inductive: that each name leads to an inode in use says
nothing of an inode that no path leads to, and `Reached`, what the root reaches, is
computed anew in each state. `IInv` therefore says of a set `T` of inodes, and of
the links `K` in its directories, that they hang together (`Hang`): links stay in
`T`, agree with the kind of what they lead to, and come one to a directory, from the
one its `..` leads to; each inode but the root has one; and any part of `T` that has
the root and is closed under `K` is all of `T`. The last clause makes `T` unique and equal to
`Reached` (`TreeIsReached`, by `ReachedLeast`, that as many rounds as there are
inodes beside the root are enough), and unlike a depth it survives additions
and removals with a short argument (`HangAdd`, `HangDrop`). `Shape` says that the inodes
of `T` are marked, with marked blocks of their own, and directories have `.`, `..`
and then names without repetition; `Fits` that these are in one block; `Counts` ties
`nlinks` to `K`.

The calls are shown to be one of three changes: a new inode with its name
(`NewAdded`), a further name of a file (`NameAdded`), a name that goes, and
the inode with its last one (`NameDropped`). For `do_mkdir` and `do_touch` the proof goes write by
write (`Stages`, `DirMade`, `FileMade`): until the inode of the father is written nothing changes that
`T` sees (`Unseen`), so every prefix is a sound card. `LastWritten` and `NoFiles` do the
same for the removals, where `NoFiles` shows that the loop of `do_rmdir` over the files of
an empty directory finds none. `PathsStay` says that a path, however far it
leads, ends in `T`. `Used`, that the bitmaps mark `T` and no more, holds while no
power failed.

The folds of the model (`Reached`, `find_dir`, the writes of a call) are
opened once each, as a sequence of steps (`RoundByRound`, `NameByName`,
`WriteByWrite`), by a least counterexample, since the prover has no induction
over data.

`FileIOProofs` proves, for sectors, blocks, index blocks and cards of every size
and every set of lengths and offsets:

* `EveryReadReadsBack` (`ReadsBack`), whatever the programs do. It is
  arithmetic: `PiecesCover` shows that the pieces of a transfer lie each in one
  sector, that each begins where the one before it ends, and that together they
  have the bytes to be copied, or those there is room for; `CopiedLength` that these are
  the bytes asked for, or more of them up to the end of the sector that the read began
  in. So the theorem says that what a caller gets is right, not that it fits his buffer; `PiecePlaces` that the place
  of a byte in its piece is its offset in the block. `FlattenSeq` and the fold of
  the write are opened once (`PartByPart`, `PutByPut`);
* `FilesAreFlat` (`IsFlatFile`, the refinement of `FlatFile`) and `NoBlockLost`
  (`NothingLeaked`), when programs make none of the calls of `Misuse` (`Careful`).
  Three of them violate a property of `io`, and of the other two the model
  does not say what they lead to (section 2).

They assume `FileIOOK`, and `NoFileOK`: `NoFile` is neither an inode nor what a
file holds. The invariant is `FilesKept`. Its first part, `Sound`, is about slots, the
places in an inode and its index blocks where a block is named: no two slots of
all the files name one block (`Apart`), and the bitmap marks what is named and
no more (`Marked`). So what `alloc_data_block` returns is in no slot, and each of the
ways to allocate (`DirectGrows`, `LevelGrows`, `EntryGrows`) gives it to one that was free;
that the new index block is cleared is what makes its slots free. The
second part, `Told`, ties `usize` to the pointers, which `do_rm` relies on: where a
file was written it has a block, and an index block is there because of a write
behind its first offset. So a file whose `usize` is the end of all its writes
tells `do_rm` of every index block (`FreedAll`). A write is followed piece by piece
(`StoreOne`): so far the bytes of the pieces are stored, every other byte of
every file is as it was (`Good`), or the card is full and stays so (`Stuck`), which the
guard of `do_fwrite` excludes.

Only model-checked, because liveness is out of the prover's reach:
`ReadyTasksRun`, `SleepersWake`, `ReceiverServed`, `LockFreed` and `CallsReturn`.
Every safety property of a passing run is a theorem. No theorem is about the
two runs that end in a counterexample. `NoFrameLeft`
counts frames, not bytes: that a handler's own variables fit on the page of its stack
is not claimed, and `clear_buff` (`fs.c:756`) alone has 4 KB.

## 5. Plan

Done, in this order: `Tasks`, `Mailbox` and `KernelLock` with their proofs, then
`Paging`, `FileSystem`, `FileIO` and `NetQueues`, and the proofs of these. What is
left: `DList`, that the pointers of `list.h` implement the sequences of `Lists`, and
its proof.

The runs are kept to one for each question, and a property to what another one
does not say already. Counterexamples are kept where the code overruns memory
or stops a hart. Others that matter less have no run, and the hazards keep them: that
an exit keeps mutexes, that a killed process can be waited for, that no pcb is used
again although `sched.c:228` describes how, that a process gets more pages than the
four of `irq.c:272` because `do_swap` gives up at one that is on the card (`irq.c:97`),
that a killed waiter opens the mutex it waited for.

## 6. Not modelled

* `do_spawn`, a leftover from before virtual memory; it starts a task without a
  page table. The listings of tasks.
* Which slot a handle gets (`lock.c:117`): the address of a variable modulo 150
  into a table of 100. What collides depends on addresses that the compiler
  chooses; `Tasks` starts from slots that are apart.
* Page tables of the boot, screen, interrupt controller, time base, C library and
  tools: sequential, run once, or formatting.
* The vendored driver of the network card (`drivers/emacps` but for the four
  functions of `xemacps_main.c`) and `kernel/user_programs.c`, the programs as
  byte arrays, generated. These two are 41 of the 49 thousand lines of the
  implementation; the modules map a third of the rest.
