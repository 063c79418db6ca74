----------------------------- MODULE KernelLock -----------------------------
(***************************************************************************)
(* Traps, the kernel lock and the context switch (entry.S, smp.c, the end  *)
(* of main, and do_scheduler), for any number of harts.  At this commit    *)
(* wakeup_other_hart is commented out, so only hart 0 leaves "boot".       *)
(*                                                                         *)
(* Of a context the register tp stands for all: it is the one that user    *)
(* programs, the idle loop and the kernel use differently.  A kernel stack *)
(* is counted in frames; sp is 0 outside the kernel and in main.  What     *)
(* handlers do in between is module Tasks; here they create, wake, kill    *)
(* and suspend tasks in any order.                                         *)
(***************************************************************************)
EXTENDS Lists

CONSTANTS
  NumHart, NumProc,
  Val,            \* what programs put into tp
  Depth           \* frames in a kernel stack

Hart == 0 .. NumHart - 1
Null == 0
Proc == 1 .. NumProc
Idle(h) == NumProc + 1 + h             \* pid0_pcb_0, pid0_pcb_1
Task == Proc \cup {Idle(h) : h \in Hart}

ASSUME KernelConstants ==
  /\ NumHart \in Nat \ {0} /\ NumProc \in Nat \ {0}
  /\ Val \subseteq Nat
  /\ Depth \in Nat /\ Depth >= 2

VARIABLES
  lock,                  \* kernel_lock.status
  pc, tp, sp, sscratch,  \* of each hart
  current,               \* current_running
  stack, kernel_sp,      \* of each task: its kernel stack, the saved pointer
  status, ready,
  last                   \* history: the tp a task had when it last ran

hartVars == <<pc, tp, sp, sscratch>>
vars == <<lock, hartVars, current, stack, kernel_sp, status, ready, last>>

\* A frame of a kernel stack: a trap's, or a switch's with the place to go on at.
Frame == [go : {"none", "trap", "return", "resumed", "booted"}, tp : {Null} \cup Val \cup Task,
          sp : 0 .. Depth]
TrapFrame(v, s) == [go |-> "trap", tp |-> v, sp |-> s]
SwitchFrame(g) == [go |-> g, tp |-> Null, sp |-> 0]

\* Task t's stack after f is written to place i; beyond the page it is lost.
Push(t, i, f) == [stack EXCEPT ![t] = [j \in 1 .. Depth |-> IF j = i THEN f ELSE @[j]]]

-----------------------------------------------------------------------------
\* The saved tp comes from sscratch, where the trap swapped it to; variant: from tp.
KernelTp(h, t) == t
TrappedTp(h, t) == tp[h]

\* SAVE_CONTEXT: with 0 in sscratch the trap came from the kernel, on its stack.
SAVE_CONTEXT(h) ==
  LET fromKernel == sscratch[h] = Null
      t == IF fromKernel THEN tp[h] ELSE sscratch[h]
      s == IF fromKernel THEN sp[h] ELSE kernel_sp[t]
  IN  /\ kernel_sp' = [kernel_sp EXCEPT ![t] = s]
      /\ stack' = Push(t, s + 1, TrapFrame(TrappedTp(h, t), sp[h]))
      /\ sp' = [sp EXCEPT ![h] = s + 1]
      /\ tp' = [tp EXCEPT ![h] = t]

\* exception_handler_entry, up to the loop of lock_kernel.
exception_handler_entry(h) ==
  /\ SAVE_CONTEXT(h)
  /\ sscratch' = [sscratch EXCEPT ![h] = Null]
  /\ pc' = [pc EXCEPT ![h] = "spin"]
  /\ UNCHANGED <<lock, current, status, ready, last>>

Trap(h) == pc[h] = "run" /\ exception_handler_entry(h)

\* A load or store of a handler faults: user memory that is not mapped yet.
KernelFault(h) ==
  /\ pc[h] \in {"handler", "resumed"} /\ sp[h] + 1 < Depth
  /\ exception_handler_entry(h)

\* lr.w/sc.w: test and set in one; variant: the lock is tested only.
TestOnly == ~ lock /\ UNCHANGED lock
CompareAndSwap == ~ lock /\ lock' = TRUE

lock_kernel(h) ==
  /\ pc[h] = "spin" /\ CompareAndSwap
  /\ pc' = [pc EXCEPT ![h] = "handler"]
  /\ UNCHANGED <<tp, sp, sscratch, current, stack, kernel_sp, status, ready, last>>

\* The start of another hart than 0, in main.
boot(h) ==
  /\ pc[h] = "boot" /\ CompareAndSwap
  /\ current' = [current EXCEPT ![h] = Idle(h)]
  /\ pc' = [pc EXCEPT ![h] = "main"]
  /\ UNCHANGED <<tp, sp, sscratch, stack, kernel_sp, status, ready, last>>

-----------------------------------------------------------------------------
(* Handlers. *)

\* Variant: a task that waits is put into ready_queue like any other.
RequeuedAll(t, st) == IF t \in Proc THEN Append(ready, t) ELSE ready
Requeued(t, st) == IF t \in Proc /\ st \notin {"BLOCKED", "EXITED"} THEN Append(ready, t) ELSE ready

\* The rest of the handler runs when the task is dispatched again.
GoOn(h) == IF pc[h] = "main" THEN "booted" ELSE "resumed"

\* do_scheduler with switch_to; st is the status its caller gave the current task.
do_scheduler(h, st) ==
  LET p == current[h]
      q == Requeued(p, st)
      n == IF q # <<>> THEN Head(q) ELSE Idle(h)
      s == [status EXCEPT ![p] = IF st = "RUNNING" THEN "READY" ELSE st]
  IN  /\ status' = [s EXCEPT ![n] = "RUNNING"]
      /\ ready' = IF q # <<>> THEN Tail(q) ELSE q
      /\ current' = [current EXCEPT ![h] = n]
      /\ stack' = Push(p, sp[h] + 1, SwitchFrame(GoOn(h)))
      /\ kernel_sp' = [kernel_sp EXCEPT ![p] = sp[h] + 1]
      /\ sp' = [sp EXCEPT ![h] = kernel_sp'[n] - 1]
      /\ pc' = [pc EXCEPT ![h] = stack'[n][kernel_sp'[n]].go]
      /\ tp' = [tp EXCEPT ![h] = n]
      /\ UNCHANGED <<lock, sscratch, last>>

\* A timer interrupt, a yield or a call that blocks leaves the hart to another task;
\* a call that has blocked may have to block again.  main starts with an interrupt.
Suspend(h) ==
  \/ /\ pc[h] \in {"main", "handler"}
     /\ do_scheduler(h, IF status[current[h]] = "EXITED" THEN "EXITED" ELSE "RUNNING")
  \/ /\ pc[h] = "handler" /\ current[h] \in Proc
     /\ \E st \in {"BLOCKED", "EXITED"} : do_scheduler(h, st)
  \/ /\ pc[h] = "resumed" /\ current[h] \in Proc
     /\ do_scheduler(h, "BLOCKED")

\* The rest of what the other steps of a handler leave alone.
HandlerStep == UNCHANGED <<lock, tp, sp, sscratch, current, last>>

\* A handler that was suspended does not suspend itself again after it has woken
\* others; variant: it may.
StillResumed(h) == pc[h]
HasWoken(h) == IF pc[h] = "handler" THEN pc[h] ELSE "woken"

\* A task that waited for what the handler has done.
Wake(h, t) ==
  /\ pc[h] \in {"handler", "resumed", "woken"} /\ status[t] = "BLOCKED"
  /\ pc' = [pc EXCEPT ![h] = HasWoken(h)]
  /\ status' = [status EXCEPT ![t] = "READY"]
  /\ ready' = Append(ready, t)
  /\ UNCHANGED <<stack, kernel_sp>> /\ HandlerStep

\* exec and mthread_create: init_pcb_stack lays out both frames.
Create(h, t) ==
  /\ pc[h] = "handler" /\ status[t] = "UNUSED"
  /\ stack' = [stack EXCEPT ![t][1] = TrapFrame(t, 0), ![t][2] = SwitchFrame("return")]
  /\ kernel_sp' = [kernel_sp EXCEPT ![t] = 2]
  /\ status' = [status EXCEPT ![t] = "READY"]
  /\ ready' = Append(ready, t)
  /\ UNCHANGED pc /\ HandlerStep

\* do_kill of another task, which may run on another hart.  It also frees the
\* pages of its victim (sched.c:324), stacks among them, which frames are not
\* part of this module: under a victim that runs on another hart they would go
\* to somebody else while in use.  With the one hart this commit wakes, no
\* victim runs; what becomes of the frames then is in Paging.
Kill(h, t) ==
  /\ pc[h] = "handler" /\ t # current[h] /\ status[t] # "UNUSED"
  /\ status' = [status EXCEPT ![t] = "EXITED"]
  /\ ready' = IF t \in Range(ready) THEN Without(ready, t) ELSE ready
  /\ UNCHANGED <<pc, stack, kernel_sp>> /\ HandlerStep

-----------------------------------------------------------------------------
(* The way out. *)

\* ret_from_exception, up to and with unlock_kernel.
ret_from_exception(h) ==
  /\ pc[h] \in {"handler", "resumed", "woken", "return"}
  /\ sscratch' = [sscratch EXCEPT ![h] = tp[h]]
  /\ lock' = FALSE
  /\ pc' = [pc EXCEPT ![h] = "leave"]
  /\ UNCHANGED <<tp, sp, current, stack, kernel_sp, status, ready, last>>

\* Variant: the stack pointer of the next trap is not stored.
KeptSp(h) == kernel_sp[tp[h]]
FreedSp(h) == sp[h] - 1

\* RESTORE_CONTEXT and sret, after the lock is released.
RESTORE_CONTEXT(h) ==
  LET f == stack[tp[h]][sp[h]]
  IN  /\ pc[h] = "leave"
      /\ kernel_sp' = [kernel_sp EXCEPT ![tp[h]] = FreedSp(h)]
      /\ tp' = [tp EXCEPT ![h] = f.tp]
      /\ sp' = [sp EXCEPT ![h] = f.sp]
      /\ pc' = [pc EXCEPT ![h] = "run"]
      /\ UNCHANGED <<lock, sscratch, current, stack, status, ready, last>>

\* main goes on to its idle loop.
main(h) ==
  /\ pc[h] = "booted" /\ lock' = FALSE
  /\ pc' = [pc EXCEPT ![h] = "run"]
  /\ UNCHANGED <<tp, sp, sscratch, current, stack, kernel_sp, status, ready, last>>

\* A program uses tp as it likes.
Program(h) ==
  /\ pc[h] = "run" /\ current[h] \in Proc
  /\ \E v \in Val : tp' = [tp EXCEPT ![h] = v] /\ last' = [last EXCEPT ![current[h]] = v]
  /\ UNCHANGED <<lock, pc, sp, sscratch, current, stack, kernel_sp, status, ready>>

Shell == 1
Init ==
  /\ lock = TRUE
  /\ pc = [h \in Hart |-> IF h = 0 THEN "main" ELSE "boot"]
  /\ tp = [h \in Hart |-> Idle(h)] /\ sp = [h \in Hart |-> 0]
  /\ sscratch = [h \in Hart |-> Null]
  /\ current = [h \in Hart |-> IF h = 0 THEN Idle(0) ELSE Null]
  /\ stack = [t \in Task |-> [i \in 1 .. Depth |->
                IF t # Shell \/ i > 2 THEN SwitchFrame("none")
                ELSE IF i = 1 THEN TrapFrame(Shell, 0) ELSE SwitchFrame("return")]]
  /\ kernel_sp = [t \in Task |-> IF t = Shell THEN 2 ELSE 0]
  /\ status = [t \in Task |-> IF t = Shell THEN "READY" ELSE IF t \in Proc THEN "UNUSED" ELSE "RUNNING"]
  /\ ready = <<Shell>>
  /\ last = [t \in Task |-> t]

Handler(h) == Suspend(h) \/ \E t \in Proc : Wake(h, t) \/ Create(h, t) \/ Kill(h, t)
Leave(h) == ret_from_exception(h) \/ main(h)
Next == \E h \in Hart : \/ Trap(h) \/ lock_kernel(h) \/ boot(h)
                        \/ Handler(h) \/ Leave(h) \/ RESTORE_CONTEXT(h) \/ Program(h)

Spec == Init /\ [][Next]_vars

\* A hart in the kernel executes instructions; the lock is granted to whoever
\* comes first, and nothing is assumed of who that is.
Fairness == \A h \in Hart : /\ WF_vars(Handler(h) \/ Leave(h))
                            /\ WF_vars(RESTORE_CONTEXT(h))
                            /\ WF_vars(lock_kernel(h))
FairSpec == Spec /\ Fairness

\* The same with handlers that fault.
FaultSpec == Init /\ [][Next \/ \E h \in Hart : KernelFault(h)]_vars /\ Fairness
-----------------------------------------------------------------------------
(* Properties. *)

TypeOK ==
  /\ lock \in BOOLEAN
  /\ pc \in [Hart -> {"boot", "main", "booted", "run", "spin", "handler", "resumed", "woken",
                      "return", "leave"}]
  /\ tp \in [Hart -> Val \cup Task] /\ sp \in [Hart -> 0 .. Depth]
  /\ sscratch \in [Hart -> {Null} \cup Task]
  /\ current \in [Hart -> {Null} \cup Task]
  /\ stack \in [Task -> [1 .. Depth -> Frame]] /\ kernel_sp \in [Task -> 0 .. Depth]
  /\ status \in [Task -> {"UNUSED", "READY", "RUNNING", "BLOCKED", "EXITED"}]
  /\ ready \in Seq(Proc)
  /\ last \in [Task -> Val \cup Task]

\* One hart at a time is inside the kernel, from its lock_kernel to the unlock_kernel
\* of the task it has switched to; and the lock is held just as long.
InKernel(h) == pc[h] \in {"main", "booted", "handler", "resumed", "woken", "return"}
Exclusion ==
  /\ \A h, k \in Hart : InKernel(h) /\ InKernel(k) => h = k
  /\ lock <=> \E h \in Hart : InKernel(h)

\* A task runs on one hart, and is not ready to run on another one.
OnOneHart ==
  /\ \A h, k \in Hart : current[h] = current[k] /\ current[h] # Null => h = k
  /\ \A h \in Hart : current[h] \notin Range(ready)
  /\ IsInjective(ready)

\* A task goes on with the registers it had, however often it was interrupted and
\* whatever ran in between, on either hart.
ContextPreserved ==
  \A h \in Hart : pc[h] = "run" => tp[h] = last[current[h]]

\* No frame is left behind: when a program runs its kernel stack is empty, and
\* the next trap will use the stack of the task that runs.
StackEmptied ==
  \A h \in Hart : pc[h] = "run" =>
     /\ current[h] \in Proc => sscratch[h] = current[h] /\ kernel_sp[current[h]] = 0
     /\ sscratch[h] # Null => kernel_sp[sscratch[h]] = 0

\* Whoever has the lock gives it back, through any chain of suspended handlers.
LockFreed == lock ~> ~ lock

\* entry.S:6: `If we came from the kernel, sscratch will contain 0, and we should
\* continue on the current TP': a trap from the kernel goes on like any other.
TrapsServed == \A h \in Hart : pc[h] = "spin" ~> pc[h] # "spin"
=============================================================================
