---------------------------- MODULE KernelProofs ----------------------------
(***************************************************************************)
(* Exclusion, one hart per task, and the contexts and stacks of KernelLock,*)
(* for any number of harts and processes, as long as handlers do not fault.*)
(*                                                                         *)
(* The lock protects what the way into and out of the kernel does without  *)
(* it only because every hart works on the stack of its own task.  IInv    *)
(* therefore says what each hart's registers and its task's stack are at   *)
(* each place of that way (HartOK), that no two harts have the same task   *)
(* (Apart), and what a task's stack is while no hart has it (Suspended).   *)
(***************************************************************************)
EXTENDS KernelLock, ListsTheorems

\* The stack of a task inside a handler, and of one that do_scheduler has left.
Interrupted(t) == stack[t][1] = TrapFrame(last[t], 0)
InHandler(t) == /\ kernel_sp[t] = 2 /\ Interrupted(t)
                /\ stack[t][2].go \in {"resumed", "return"}
InMain(t) == kernel_sp[t] = 1 /\ t \notin Proc /\ stack[t][1].go = "booted"
Suspended(t) == InHandler(t) \/ InMain(t)

Starting == {"boot", "main", "booted"}
Locked == {"handler", "resumed", "woken", "return"}
HartOK(h) ==
  /\ IF pc[h] = "boot" THEN current[h] = Null ELSE current[h] \in Proc \cup {Idle(h)}
  /\ pc[h] \in Starting => tp[h] = Idle(h) /\ sp[h] = 0 /\ sscratch[h] = Null
  /\ pc[h] \in {"main", "booted"} => current[h] = Idle(h)
  /\ pc[h] \in Locked \cup {"spin", "leave"} =>
       tp[h] = current[h] /\ sp[h] = 1 /\ Interrupted(current[h])
  /\ pc[h] \in Locked \cup {"spin"} => sscratch[h] = Null
  /\ pc[h] = "leave" => sscratch[h] = current[h]
  /\ pc[h] = "run" => /\ tp[h] = last[current[h]] /\ sp[h] = 0
                      /\ IF sscratch[h] = Null THEN current[h] = Idle(h)
                         ELSE sscratch[h] = current[h] /\ kernel_sp[current[h]] = 0

\* No two harts have the same task.
Apart == \A h, k \in Hart : current[h] = current[k] /\ current[h] # Null => h = k

\* The ready list and the statuses.
Queued ==
  /\ ready \in NoDup(Proc)
  /\ \A t \in Proc : t \in Range(ready) <=> status[t] = "READY"
  /\ \A h \in Hart : current[h] \in Proc => status[current[h]] \in {"RUNNING", "EXITED"}

\* The tasks that wait for a hart, and what they last had in tp.
Resting ==
  /\ \A t \in Proc : IF status[t] = "UNUSED" THEN last[t] = t
                     ELSE (\A h \in Hart : current[h] # t) => Suspended(t)
  /\ \A h \in Hart : pc[h] # "boot" /\ current[h] # Idle(h) => Suspended(Idle(h))
  /\ \A h \in Hart : last[Idle(h)] = Idle(h)

IInv == /\ TypeOK /\ Exclusion /\ Apart /\ Queued /\ Resting
        /\ \A h \in Hart : HartOK(h)

-----------------------------------------------------------------------------
(* Lemmas. *)

\* The idle loops are tasks of their own, one for each hart.
LEMMA Idles ==
  /\ \A h \in Hart : Idle(h) \in Task /\ Idle(h) \notin Proc /\ Idle(h) # Null
  /\ \A h, k \in Hart : Idle(h) = Idle(k) => h = k
  /\ Proc \subseteq Task /\ Null \notin Task
BY KernelConstants DEF Hart, Proc, Task, Idle, Null

\* HartOK of a hart speaks of its registers and of the stack of its task only.
LEMMA HartKept ==
  ASSUME NEW k \in Hart, HartOK(k),
         pc'[k] = pc[k], tp'[k] = tp[k], sp'[k] = sp[k], sscratch'[k] = sscratch[k],
         current'[k] = current[k],
         current[k] # Null => /\ stack'[current[k]] = stack[current[k]]
                              /\ kernel_sp'[current[k]] = kernel_sp[current[k]]
                              /\ last'[current[k]] = last[current[k]]
  PROVE  HartOK(k)'
<1>1. CASE pc[k] = "boot"  BY <1>1 DEF HartOK, Locked, Starting
<1>2. CASE pc[k] # "boot"
  <2>1. current[k] # Null  BY <1>2, Idles DEF HartOK, Task, Null
  <2>2. Interrupted(current[k]) => Interrupted(current[k])'  BY <2>1 DEF Interrupted, TrapFrame
  <2>. QED  BY <1>2, <2>1, <2>2 DEF HartOK, Locked, Starting, Interrupted
<1>. QED  BY <1>1, <1>2

\* So does Suspended of a task, and only of its stack.
LEMMA SuspendedKept ==
  ASSUME NEW t, Suspended(t),
         stack'[t] = stack[t], kernel_sp'[t] = kernel_sp[t], last'[t] = last[t]
  PROVE  Suspended(t)'
BY DEF Suspended, InHandler, InMain, Interrupted, TrapFrame

\* A task that a hart has is one of the tasks, and no idle loop of another hart.
LEMMA Currents ==
  ASSUME TypeOK, \A h \in Hart : HartOK(h)
  PROVE  /\ \A h \in Hart : pc[h] # "boot" => /\ current[h] \in Task /\ current[h] # Null
                                              /\ current[h] \in Proc \cup {Idle(h)}
         /\ \A h \in Hart : pc[h] = "boot" => current[h] = Null
         /\ \A h, k \in Hart : current[k] = Idle(h) => h = k
<1>1. \A h \in Hart : pc[h] # "boot" => current[h] \in Proc \cup {Idle(h)}  BY DEF HartOK
<1>2. \A h \in Hart : pc[h] = "boot" => current[h] = Null  BY DEF HartOK
<1>. QED  BY <1>1, <1>2, Idles

LEMMA Singleton ==
  ASSUME NEW S, NEW e \in S
  PROVE  <<e>> \in NoDup(S) /\ Range(<<e>>) = {e}
<1>1. <<e>> \in Seq(S) /\ DOMAIN <<e>> = {1} /\ <<e>>[1] = e  OBVIOUS
<1>. QED  BY <1>1 DEF NoDup, IsInjective, Range

\* The invariant of the initial states.
LEMMA InitOK == Init => IInv
<1>. SUFFICES ASSUME Init PROVE IInv  OBVIOUS
<1>0. 0 \in Hart /\ Shell \in Proc /\ Shell \in Task /\ Depth \in Nat /\ Depth >= 2
  BY KernelConstants, Idles DEF Hart, Proc, Shell
<1>1. TypeOK
  <2>1. /\ TrapFrame(Shell, 0) \in Frame
        /\ \A g \in {"none", "trap", "return", "resumed", "booted"} : SwitchFrame(g) \in Frame
    BY <1>0 DEF TrapFrame, SwitchFrame, Frame
  <2>2. stack \in [Task -> [1 .. Depth -> Frame]]  BY <2>1 DEF Init
  <2>3. kernel_sp \in [Task -> 0 .. Depth] /\ sp \in [Hart -> 0 .. Depth]  BY <1>0 DEF Init
  <2>4. ready \in Seq(Proc)  BY <1>0 DEF Init
  <2>5. tp \in [Hart -> Val \cup Task] /\ last \in [Task -> Val \cup Task]
    BY Idles DEF Init
  <2>6. current \in [Hart -> {Null} \cup Task] /\ sscratch \in [Hart -> {Null} \cup Task]
    BY Idles DEF Init
  <2>7. status \in [Task -> {"UNUSED", "READY", "RUNNING", "BLOCKED", "EXITED"}]
    BY DEF Init
  <2>8. /\ lock \in BOOLEAN
        /\ pc \in [Hart -> {"boot", "main", "booted", "run", "spin", "handler", "resumed",
                            "woken", "return", "leave"}]
    BY DEF Init
  <2>. QED  BY <2>2, <2>3, <2>4, <2>5, <2>6, <2>7, <2>8 DEF TypeOK
<1>2. Exclusion
  <2>1. \A h \in Hart : InKernel(h) <=> h = 0  BY DEF Init, InKernel
  <2>. QED  BY <1>0, <2>1 DEF Exclusion, Init
<1>3. Apart  BY DEF Apart, Init
<1>4. Queued
  <2>1. ready = <<Shell>>  BY DEF Init
  <2>2. ready \in NoDup(Proc) /\ Range(ready) = {Shell}
    BY <1>0, <2>1, Singleton
  <2>3. \A t \in Proc : t \in Range(ready) <=> status[t] = "READY"
    BY <2>2, Idles DEF Init
  <2>4. \A h \in Hart : current[h] \notin Proc  BY Idles DEF Init
  <2>. QED  BY <2>2, <2>3, <2>4 DEF Queued
<1>5. Resting
  <2>1. ASSUME NEW t \in Proc
        PROVE  IF status[t] = "UNUSED" THEN last[t] = t ELSE Suspended(t)
    <3>1. CASE t = Shell
      <4>1. /\ kernel_sp[Shell] = 2 /\ stack[Shell][1] = TrapFrame(Shell, 0)
            /\ stack[Shell][2] = SwitchFrame("return") /\ last[Shell] = Shell
        BY <1>0 DEF Init
      <4>2. stack[Shell][2].go = "return"  BY <4>1 DEF SwitchFrame
      <4>3. status[Shell] = "READY"  BY <1>0 DEF Init
      <4>. QED  BY <3>1, <4>1, <4>2, <4>3 DEF Suspended, InHandler, Interrupted
    <3>2. CASE t # Shell  BY <3>2, Idles DEF Init
    <3>. QED  BY <3>1, <3>2
  <2>2. \A h \in Hart : /\ pc[h] # "boot" => current[h] = Idle(h)
                        /\ last[Idle(h)] = Idle(h)
    BY Idles DEF Init
  <2>. QED  BY <2>1, <2>2 DEF Resting
<1>6. \A h \in Hart : HartOK(h)
  BY DEF Init, HartOK, Starting, Locked
<1>. QED  BY <1>1, <1>2, <1>3, <1>4, <1>5, <1>6 DEF IInv

-----------------------------------------------------------------------------
(* Steps of a hart that concern its registers and the stack of its task.   *)

\* Such a step keeps the invariant if it keeps the types, the lock and HartOK of
\* its own hart.
LEMMA OwnStep ==
  ASSUME IInv, NEW h \in Hart, pc[h] # "boot", pc'[h] # "boot",
         UNCHANGED <<current, status, ready>>,
         \A k \in Hart : k # h => /\ pc'[k] = pc[k] /\ tp'[k] = tp[k] /\ sp'[k] = sp[k]
                                  /\ sscratch'[k] = sscratch[k],
         \A t \in Task : t # current[h] => /\ stack'[t] = stack[t] /\ last'[t] = last[t]
                                           /\ kernel_sp'[t] = kernel_sp[t],
         TypeOK', Exclusion', HartOK(h)', last'[Idle(h)] = Idle(h)
  PROVE  IInv'
<1>1. /\ current[h] \in Task /\ current[h] # Null /\ current[h] \in Proc \cup {Idle(h)}
      /\ \A k \in Hart : pc[k] # "boot" => current[k] \in Task
      /\ \A k \in Hart : pc[k] = "boot" => current[k] = Null
      /\ \A k \in Hart : current[h] = Idle(k) => k = h
  BY Currents DEF IInv
<1>2. Apart'  BY DEF IInv, Apart
<1>3. Queued'  BY DEF IInv, Queued
<1>4. ASSUME NEW k \in Hart, k # h
      PROVE  HartOK(k)'
  <2>1. current[k] # Null => current[k] \in Task /\ current[k] # current[h]
    BY <1>1, <1>4 DEF IInv, Apart
  <2>. QED  BY <1>4, <2>1, HartKept DEF IInv
<1>5. ASSUME NEW t \in Task, t # current[h], Suspended(t)
      PROVE  Suspended(t)'
  BY <1>5, SuspendedKept
<1>6. Resting'
  <2>1. ASSUME NEW t \in Proc
        PROVE  IF status[t] = "UNUSED" THEN last'[t] = t
               ELSE (\A k \in Hart : current[k] # t) => Suspended(t)'
    <3>0. t \in Task  BY Idles
    <3>1. CASE status[t] = "UNUSED"
      <4>1. t # current[h] /\ last[t] = t  BY <3>1 DEF IInv, Queued, Resting
      <4>. QED  BY <3>0, <3>1, <4>1
    <3>2. CASE status[t] # "UNUSED"
      <4>1. (\A k \in Hart : current[k] # t) => Suspended(t)
        BY <3>2 DEF IInv, Resting
      <4>. QED  BY <3>0, <3>2, <4>1, <1>5
    <3>. QED  BY <3>1, <3>2
  <2>2. ASSUME NEW k \in Hart, pc'[k] # "boot", current[k] # Idle(k)
        PROVE  Suspended(Idle(k))'
    <3>1. pc[k] # "boot"  BY <2>2
    <3>2. Suspended(Idle(k))  BY <2>2, <3>1 DEF IInv, Resting
    <3>3. Idle(k) # current[h]  BY <1>1, <2>2
    <3>. QED  BY <1>5, <3>2, <3>3, Idles
  <2>3. ASSUME NEW k \in Hart
        PROVE  last'[Idle(k)] = Idle(k)
    <3>1. last[Idle(k)] = Idle(k)  BY DEF IInv, Resting
    <3>2. CASE k = h  BY <3>2
    <3>3. CASE k # h  BY <1>1, <3>1, <3>3, Idles
    <3>. QED  BY <3>2, <3>3
  <2>4. current' = current /\ status' = status  OBVIOUS
  <2>. QED  BY <2>1, <2>2, <2>3, <2>4 DEF Resting
<1>. QED  BY <1>2, <1>3, <1>4, <1>6 DEF IInv

\* A program uses tp.
LEMMA ProgramKeeps ==
  ASSUME IInv, NEW h \in Hart, Program(h)
  PROVE  IInv'
<1>1. /\ pc[h] = "run" /\ current[h] \in Proc /\ current[h] # Idle(h)
      /\ UNCHANGED <<lock, pc, sp, sscratch, current, stack, kernel_sp, status, ready>>
  BY Idles DEF Program
<1>2. PICK v \in Val : /\ tp' = [tp EXCEPT ![h] = v]
                       /\ last' = [last EXCEPT ![current[h]] = v]
  BY DEF Program
<1>3. current[h] \in Task  BY <1>1, Idles
<1>4. tp \in [Hart -> Val \cup Task] /\ last \in [Task -> Val \cup Task]
  BY DEF IInv, TypeOK
<1>5. TypeOK'
  <2>1. tp' \in [Hart -> Val \cup Task] /\ last' \in [Task -> Val \cup Task]
    BY <1>2, <1>4
  <2>. QED  BY <1>1, <2>1 DEF IInv, TypeOK
<1>6. Exclusion'  BY <1>1 DEF IInv, Exclusion, InKernel
<1>7. HartOK(h)'
  <2>1. HartOK(h)  BY DEF IInv
  <2>2. tp'[h] = v /\ last'[current[h]] = v  BY <1>2, <1>3, <1>4
  <2>. QED  BY <1>1, <2>1, <2>2, Idles DEF HartOK, Starting, Locked
<1>8. last'[Idle(h)] = Idle(h)
  BY <1>1, <1>2, <1>4, Idles DEF IInv, Resting
<1>. QED  BY <1>1, <1>2, <1>4, <1>5, <1>6, <1>7, <1>8, OwnStep

\* What Push does to the stacks.
LEMMA Pushed ==
  ASSUME stack \in [Task -> [1 .. Depth -> Frame]], NEW t \in Task, NEW i, NEW f \in Frame
  PROVE  /\ Push(t, i, f) \in [Task -> [1 .. Depth -> Frame]]
         /\ \A u \in Task : u # t => Push(t, i, f)[u] = stack[u]
         /\ \A j \in 1 .. Depth : Push(t, i, f)[t][j] = IF j = i THEN f ELSE stack[t][j]
BY DEF Push

\* A trap: the context goes to the bottom of the stack of the task that runs.
LEMMA TrapKeeps ==
  ASSUME IInv, NEW h \in Hart, Trap(h)
  PROVE  IInv'
<1>. DEFINE c == current[h]
            f == TrapFrame(last[c], 0)
<1>0. Depth \in Nat /\ Depth >= 2 /\ 1 \in 1 .. Depth /\ 0 \in 0 .. Depth /\ 1 \in 0 .. Depth
  BY KernelConstants
<1>1. /\ pc[h] = "run" /\ SAVE_CONTEXT(h)
      /\ sscratch' = [sscratch EXCEPT ![h] = Null] /\ pc' = [pc EXCEPT ![h] = "spin"]
      /\ UNCHANGED <<lock, current, status, ready, last>>
  BY DEF Trap, exception_handler_entry
<1>2. c \in Task /\ c # Null  BY <1>1, Currents DEF IInv
<1>3. /\ tp[h] = last[c] /\ sp[h] = 0
      /\ IF sscratch[h] = Null THEN c = Idle(h) ELSE sscratch[h] = c /\ kernel_sp[c] = 0
      /\ last[Idle(h)] = Idle(h)
  BY <1>1 DEF IInv, HartOK, Resting
<1>4. /\ kernel_sp' = [kernel_sp EXCEPT ![c] = 0] /\ stack' = Push(c, 1, f)
      /\ sp' = [sp EXCEPT ![h] = 1] /\ tp' = [tp EXCEPT ![h] = c]
  <2>1. CASE sscratch[h] = Null
    <3>1. tp[h] = c /\ f = TrapFrame(tp[h], sp[h])  BY <1>3, <2>1
    <3>. QED  BY <1>1, <1>3, <2>1, <3>1 DEF SAVE_CONTEXT, TrappedTp
  <2>2. CASE sscratch[h] # Null
    <3>1. sscratch[h] = c /\ kernel_sp[c] = 0 /\ f = TrapFrame(tp[h], sp[h])  BY <1>3, <2>2
    <3>2. /\ kernel_sp' = [kernel_sp EXCEPT ![c] = kernel_sp[c]]
          /\ stack' = Push(c, kernel_sp[c] + 1, TrapFrame(tp[h], sp[h]))
          /\ sp' = [sp EXCEPT ![h] = kernel_sp[c] + 1] /\ tp' = [tp EXCEPT ![h] = c]
      BY <1>1, <2>2, <3>1 DEF SAVE_CONTEXT, TrappedTp
    <3>3. kernel_sp[c] + 1 = 1  BY <3>1
    <3>. QED  BY <3>1, <3>2, <3>3
  <2>. QED  BY <2>1, <2>2
<1>5. /\ stack \in [Task -> [1 .. Depth -> Frame]] /\ last \in [Task -> Val \cup Task]
      /\ kernel_sp \in [Task -> 0 .. Depth]
      /\ sp \in [Hart -> 0 .. Depth] /\ tp \in [Hart -> Val \cup Task]
      /\ sscratch \in [Hart -> {Null} \cup Task]
      /\ pc \in [Hart -> {"boot", "main", "booted", "run", "spin", "handler", "resumed",
                          "woken", "return", "leave"}]
  BY DEF IInv, TypeOK
<1>6. f \in Frame  BY <1>0, <1>2, <1>5 DEF TrapFrame, Frame
<1>. HIDE DEF f
<1>7. /\ stack' \in [Task -> [1 .. Depth -> Frame]] /\ stack'[c][1] = f
      /\ \A t \in Task : t # c => stack'[t] = stack[t]
  BY <1>0, <1>2, <1>4, <1>5, <1>6, Pushed
<1>8. TypeOK'
  <2>1. kernel_sp' \in [Task -> 0 .. Depth] /\ sp' \in [Hart -> 0 .. Depth]
    BY <1>0, <1>4, <1>5
  <2>2. tp' \in [Hart -> Val \cup Task] /\ sscratch' \in [Hart -> {Null} \cup Task]
    BY <1>1, <1>2, <1>4, <1>5
  <2>3. pc' \in [Hart -> {"boot", "main", "booted", "run", "spin", "handler", "resumed",
                          "woken", "return", "leave"}]
    BY <1>1, <1>5
  <2>. QED  BY <1>1, <1>7, <2>1, <2>2, <2>3 DEF IInv, TypeOK
<1>9. Exclusion'
  <2>1. \A k \in Hart : InKernel(k)' <=> InKernel(k)  BY <1>1, <1>5 DEF InKernel
  <2>. QED  BY <1>1, <2>1 DEF IInv, Exclusion
<1>10. HartOK(h)'
  <2>1. pc'[h] = "spin" /\ tp'[h] = c /\ sp'[h] = 1 /\ sscratch'[h] = Null /\ current' = current
    BY <1>1, <1>4, <1>5
  <2>2. Interrupted(c)'  BY <1>1, <1>7 DEF Interrupted, f, TrapFrame
  <2>3. c \in Proc \cup {Idle(h)}  BY <1>1, Currents DEF IInv
  <2>. QED  BY <2>1, <2>2, <2>3 DEF HartOK, Starting, Locked
<1>. QED  BY <1>1, <1>3, <1>4, <1>5, <1>7, <1>8, <1>9, <1>10, OwnStep

\* The way out: the saved context comes back and the stack is empty.
LEMMA RestoreKeeps ==
  ASSUME IInv, NEW h \in Hart, RESTORE_CONTEXT(h)
  PROVE  IInv'
<1>. DEFINE c == current[h]
<1>0. Depth \in Nat /\ Depth >= 2 /\ 1 \in 1 .. Depth /\ 0 \in 0 .. Depth
  BY KernelConstants
<1>1. /\ pc[h] = "leave" /\ pc' = [pc EXCEPT ![h] = "run"]
      /\ kernel_sp' = [kernel_sp EXCEPT ![tp[h]] = sp[h] - 1]
      /\ tp' = [tp EXCEPT ![h] = stack[tp[h]][sp[h]].tp]
      /\ sp' = [sp EXCEPT ![h] = stack[tp[h]][sp[h]].sp]
      /\ UNCHANGED <<lock, sscratch, current, stack, status, ready, last>>
  BY DEF RESTORE_CONTEXT, FreedSp
<1>2. c \in Task /\ c # Null /\ c \in Proc \cup {Idle(h)}  BY <1>1, Currents DEF IInv
<1>3. tp[h] = c /\ sp[h] = 1 /\ Interrupted(c) /\ sscratch[h] = c
  BY <1>1 DEF IInv, HartOK, Locked
<1>4. /\ kernel_sp' = [kernel_sp EXCEPT ![c] = 0]
      /\ tp' = [tp EXCEPT ![h] = last[c]] /\ sp' = [sp EXCEPT ![h] = 0]
  <2>1. stack[tp[h]][sp[h]] = TrapFrame(last[c], 0) /\ sp[h] - 1 = 0  BY <1>3 DEF Interrupted
  <2>2. stack[tp[h]][sp[h]].tp = last[c] /\ stack[tp[h]][sp[h]].sp = 0
    BY <2>1 DEF TrapFrame
  <2>. QED  BY <1>1, <1>3, <2>1, <2>2
<1>5. /\ last \in [Task -> Val \cup Task] /\ kernel_sp \in [Task -> 0 .. Depth]
      /\ sp \in [Hart -> 0 .. Depth] /\ tp \in [Hart -> Val \cup Task]
      /\ pc \in [Hart -> {"boot", "main", "booted", "run", "spin", "handler", "resumed",
                          "woken", "return", "leave"}]
  BY DEF IInv, TypeOK
<1>6. TypeOK'
  <2>1. kernel_sp' \in [Task -> 0 .. Depth] /\ sp' \in [Hart -> 0 .. Depth]
    BY <1>0, <1>4, <1>5
  <2>2. tp' \in [Hart -> Val \cup Task]  BY <1>2, <1>4, <1>5
  <2>3. pc' \in [Hart -> {"boot", "main", "booted", "run", "spin", "handler", "resumed",
                          "woken", "return", "leave"}]
    BY <1>1, <1>5
  <2>. QED  BY <1>1, <2>1, <2>2, <2>3 DEF IInv, TypeOK
<1>7. Exclusion'
  <2>1. \A k \in Hart : InKernel(k)' <=> InKernel(k)  BY <1>1, <1>5 DEF InKernel
  <2>. QED  BY <1>1, <2>1 DEF IInv, Exclusion
<1>8. HartOK(h)'
  <2>1. /\ pc'[h] = "run" /\ tp'[h] = last[c] /\ sp'[h] = 0 /\ sscratch'[h] = c
        /\ kernel_sp'[c] = 0 /\ current' = current /\ last' = last
    BY <1>1, <1>2, <1>3, <1>4, <1>5
  <2>. QED  BY <1>2, <2>1 DEF HartOK, Starting, Locked
<1>9. last'[Idle(h)] = Idle(h)  BY <1>1 DEF IInv, Resting
<1>. QED  BY <1>1, <1>4, <1>5, <1>6, <1>7, <1>8, <1>9, OwnStep

-----------------------------------------------------------------------------
(* Taking and releasing the lock.                                          *)

\* Who enters the kernel when the lock is free is alone in it, and when the hart
\* that is in the kernel leaves it, none is.
LEMMA EnterAndLeave ==
  ASSUME Exclusion, NEW h \in Hart,
         \A k \in Hart : k # h => (InKernel(k)' <=> InKernel(k)),
         \/ ~ lock /\ lock' = TRUE /\ InKernel(h)'
         \/ InKernel(h) /\ lock' = FALSE /\ ~ InKernel(h)'
  PROVE  Exclusion'
<1>1. CASE ~ lock /\ lock' = TRUE /\ InKernel(h)'
  <2>1. \A k \in Hart : InKernel(k)' <=> k = h  BY <1>1 DEF Exclusion
  <2>. QED  BY <1>1, <2>1 DEF Exclusion
<1>2. CASE InKernel(h) /\ lock' = FALSE /\ ~ InKernel(h)'
  <2>1. \A k \in Hart : ~ InKernel(k)'  BY <1>2 DEF Exclusion
  <2>. QED  BY <1>2, <2>1 DEF Exclusion
<1>. QED  BY <1>1, <1>2

\* lock_kernel.
LEMMA LockKeeps ==
  ASSUME IInv, NEW h \in Hart, lock_kernel(h)
  PROVE  IInv'
<1>1. /\ pc[h] = "spin" /\ ~ lock /\ lock' = TRUE /\ pc' = [pc EXCEPT ![h] = "handler"]
      /\ UNCHANGED <<tp, sp, sscratch, current, stack, kernel_sp, status, ready, last>>
  BY DEF lock_kernel, CompareAndSwap
<1>2. pc \in [Hart -> {"boot", "main", "booted", "run", "spin", "handler", "resumed",
                       "woken", "return", "leave"}]
  BY DEF IInv, TypeOK
<1>3. TypeOK'  BY <1>1, <1>2 DEF IInv, TypeOK
<1>4. Exclusion'
  <2>1. \A k \in Hart : k # h => (InKernel(k)' <=> InKernel(k))  BY <1>1, <1>2 DEF InKernel
  <2>2. InKernel(h)'  BY <1>1, <1>2 DEF InKernel
  <2>. QED  BY <1>1, <2>1, <2>2, EnterAndLeave DEF IInv
<1>5. HartOK(h)'
  BY <1>1, <1>2 DEF IInv, HartOK, Starting, Locked, Interrupted
<1>6. last'[Idle(h)] = Idle(h)  BY <1>1 DEF IInv, Resting
<1>. QED  BY <1>1, <1>2, <1>3, <1>4, <1>5, <1>6, OwnStep

\* ret_from_exception up to unlock_kernel.
LEMMA ReturnKeeps ==
  ASSUME IInv, NEW h \in Hart, ret_from_exception(h)
  PROVE  IInv'
<1>1. /\ pc[h] \in Locked /\ lock' = FALSE /\ pc' = [pc EXCEPT ![h] = "leave"]
      /\ sscratch' = [sscratch EXCEPT ![h] = tp[h]]
      /\ UNCHANGED <<tp, sp, current, stack, kernel_sp, status, ready, last>>
  BY DEF ret_from_exception, Locked
<1>2. /\ pc \in [Hart -> {"boot", "main", "booted", "run", "spin", "handler", "resumed",
                          "woken", "return", "leave"}]
      /\ sscratch \in [Hart -> {Null} \cup Task]
  BY DEF IInv, TypeOK
<1>3. tp[h] = current[h] /\ current[h] \in Task
  BY <1>1, Currents DEF IInv, HartOK, Locked
<1>4. TypeOK'
  <2>1. sscratch' \in [Hart -> {Null} \cup Task]  BY <1>1, <1>2, <1>3
  <2>. QED  BY <1>1, <1>2, <2>1 DEF IInv, TypeOK
<1>5. Exclusion'
  <2>1. \A k \in Hart : k # h => (InKernel(k)' <=> InKernel(k))  BY <1>1, <1>2 DEF InKernel
  <2>2. InKernel(h) /\ ~ InKernel(h)'  BY <1>1, <1>2 DEF InKernel, Locked
  <2>. QED  BY <1>1, <2>1, <2>2, EnterAndLeave DEF IInv
<1>6. HartOK(h)'
  BY <1>1, <1>2, <1>3 DEF IInv, HartOK, Starting, Locked, Interrupted
<1>7. last'[Idle(h)] = Idle(h)  BY <1>1 DEF IInv, Resting
<1>. QED  BY <1>1, <1>2, <1>4, <1>5, <1>6, <1>7, OwnStep DEF Locked

\* main goes on to its idle loop.
LEMMA MainKeeps ==
  ASSUME IInv, NEW h \in Hart, main(h)
  PROVE  IInv'
<1>1. /\ pc[h] = "booted" /\ lock' = FALSE /\ pc' = [pc EXCEPT ![h] = "run"]
      /\ UNCHANGED <<tp, sp, sscratch, current, stack, kernel_sp, status, ready, last>>
  BY DEF main
<1>2. pc \in [Hart -> {"boot", "main", "booted", "run", "spin", "handler", "resumed",
                       "woken", "return", "leave"}]
  BY DEF IInv, TypeOK
<1>3. TypeOK'  BY <1>1, <1>2 DEF IInv, TypeOK
<1>4. Exclusion'
  <2>1. \A k \in Hart : k # h => (InKernel(k)' <=> InKernel(k))  BY <1>1, <1>2 DEF InKernel
  <2>2. InKernel(h) /\ ~ InKernel(h)'  BY <1>1, <1>2 DEF InKernel
  <2>. QED  BY <1>1, <2>1, <2>2, EnterAndLeave DEF IInv
<1>5. last'[Idle(h)] = Idle(h)  BY <1>1 DEF IInv, Resting
<1>6. HartOK(h)'
  <2>1. /\ tp[h] = Idle(h) /\ sp[h] = 0 /\ sscratch[h] = Null /\ current[h] = Idle(h)
    BY <1>1 DEF IInv, HartOK, Starting
  <2>2. /\ pc'[h] = "run" /\ tp'[h] = last'[current'[h]] /\ sp'[h] = 0 /\ sscratch'[h] = Null
        /\ current'[h] = Idle(h)
    BY <1>1, <1>2, <1>5, <2>1
  <2>. QED  BY <2>2 DEF HartOK, Starting, Locked
<1>. QED  BY <1>1, <1>2, <1>3, <1>4, <1>5, <1>6, OwnStep

\* Another hart than 0 starts.
LEMMA BootKeeps ==
  ASSUME IInv, NEW h \in Hart, boot(h)
  PROVE  IInv'
<1>1. /\ pc[h] = "boot" /\ ~ lock /\ lock' = TRUE /\ pc' = [pc EXCEPT ![h] = "main"]
      /\ current' = [current EXCEPT ![h] = Idle(h)]
      /\ UNCHANGED <<tp, sp, sscratch, stack, kernel_sp, status, ready, last>>
  BY DEF boot, CompareAndSwap
<1>2. /\ pc \in [Hart -> {"boot", "main", "booted", "run", "spin", "handler", "resumed",
                          "woken", "return", "leave"}]
      /\ current \in [Hart -> {Null} \cup Task]
  BY DEF IInv, TypeOK
<1>3. /\ \A k \in Hart : current[k] # Idle(h)
      /\ current[h] = Null
  BY <1>1, Currents, Idles DEF IInv
<1>4. /\ \A k \in Hart : k # h => pc'[k] = pc[k] /\ current'[k] = current[k]
      /\ pc'[h] = "main" /\ current'[h] = Idle(h)
  BY <1>1, <1>2
<1>5. TypeOK'
  <2>1. current' \in [Hart -> {Null} \cup Task]  BY <1>1, <1>2, Idles
  <2>. QED  BY <1>1, <1>2, <2>1 DEF IInv, TypeOK
<1>6. Exclusion'
  <2>1. \A k \in Hart : k # h => (InKernel(k)' <=> InKernel(k))  BY <1>4 DEF InKernel
  <2>2. InKernel(h)'  BY <1>4 DEF InKernel
  <2>. QED  BY <1>1, <2>1, <2>2, EnterAndLeave DEF IInv
<1>7. Apart'  BY <1>3, <1>4 DEF IInv, Apart
<1>8. Queued'
  BY <1>1, <1>4, Idles DEF IInv, Queued
<1>9. ASSUME NEW t, Suspended(t)
      PROVE  Suspended(t)'
  BY <1>1, <1>9, SuspendedKept
<1>10. Resting'
  <2>1. ASSUME NEW t \in Proc
        PROVE  IF status[t] = "UNUSED" THEN last[t] = t
               ELSE (\A k \in Hart : current'[k] # t) => Suspended(t)'
    <3>1. (\A k \in Hart : current'[k] # t) => \A k \in Hart : current[k] # t
      BY <1>3, <1>4, Idles DEF Task, Null
    <3>2. IF status[t] = "UNUSED" THEN last[t] = t
          ELSE (\A k \in Hart : current[k] # t) => Suspended(t)
      BY DEF IInv, Resting
    <3>. QED  BY <1>9, <3>1, <3>2
  <2>2. ASSUME NEW k \in Hart, pc'[k] # "boot", current'[k] # Idle(k)
        PROVE  Suspended(Idle(k))'
    BY <1>4, <1>9, <2>2 DEF IInv, Resting
  <2>3. \A k \in Hart : last[Idle(k)] = Idle(k)  BY DEF IInv, Resting
  <2>. QED  BY <1>1, <2>1, <2>2, <2>3 DEF Resting
<1>11. ASSUME NEW k \in Hart
       PROVE  HartOK(k)'
  <2>1. CASE k = h
    BY <1>1, <1>4, <2>1 DEF IInv, HartOK, Starting, Locked
  <2>2. CASE k # h
    BY <1>1, <1>4, <2>2, HartKept DEF IInv
  <2>. QED  BY <2>1, <2>2
<1>. QED  BY <1>5, <1>6, <1>7, <1>8, <1>10, <1>11 DEF IInv

-----------------------------------------------------------------------------
(* What handlers do.                                                       *)

\* A step of a handler that leaves the tasks on the harts alone.
LEMMA HandlerKeeps ==
  ASSUME IInv, NEW h \in Hart, pc[h] \in Locked, pc'[h] \in Locked, HandlerStep,
         \A k \in Hart : k # h => pc'[k] = pc[k],
         \A k \in Hart : current[k] # Null => /\ stack'[current[k]] = stack[current[k]]
                                              /\ kernel_sp'[current[k]] = kernel_sp[current[k]],
         TypeOK', Queued', Resting'
  PROVE  IInv'
<1>1. UNCHANGED <<lock, tp, sp, sscratch, current, last>>  BY DEF HandlerStep
<1>2. Exclusion'
  <2>1. \A k \in Hart : InKernel(k)' <=> InKernel(k)  BY DEF InKernel, Locked
  <2>. QED  BY <1>1, <2>1 DEF IInv, Exclusion
<1>3. Apart'  BY <1>1 DEF IInv, Apart
<1>4. ASSUME NEW k \in Hart
      PROVE  HartOK(k)'
  <2>1. CASE k # h  BY <1>1, <2>1, HartKept DEF IInv
  <2>2. CASE k = h
    <3>1. /\ HartOK(h) /\ current[h] \in Proc \cup {Idle(h)} /\ current[h] # Null
      BY Currents DEF IInv, Locked
    <3>2. Interrupted(current[h])'
      BY <1>1, <3>1 DEF HartOK, Locked, Interrupted, TrapFrame
    <3>. QED  BY <1>1, <2>2, <3>1, <3>2 DEF HartOK, Locked, Starting
  <2>. QED  BY <2>1, <2>2
<1>. QED  BY <1>2, <1>3, <1>4 DEF IInv

\* A status that changes, of a task that exists before and after, leaves the tasks
\* that rest alone.
LEMMA RestingKept ==
  ASSUME Resting, UNCHANGED <<current, stack, kernel_sp, last>>,
         NEW t \in Proc, status[t] # "UNUSED", status'[t] # "UNUSED",
         \A u \in Proc : u # t => status'[u] = status[u],
         \A k \in Hart : pc'[k] # "boot" => pc[k] # "boot"
  PROVE  Resting'
<1>1. ASSUME NEW u, Suspended(u)
      PROVE  Suspended(u)'
  BY <1>1, SuspendedKept
<1>. QED  BY <1>1 DEF Resting

\* A task that waits is woken.
LEMMA WakeKeeps ==
  ASSUME IInv, NEW h \in Hart, NEW t \in Proc, Wake(h, t)
  PROVE  IInv'
<1>1. /\ pc[h] \in Locked /\ status[t] = "BLOCKED" /\ pc' = [pc EXCEPT ![h] = HasWoken(h)]
      /\ status' = [status EXCEPT ![t] = "READY"] /\ ready' = Append(ready, t)
      /\ UNCHANGED <<stack, kernel_sp>> /\ HandlerStep
      /\ UNCHANGED <<lock, tp, sp, sscratch, current, last>>
  BY DEF Wake, Locked, HandlerStep
<1>2. /\ pc \in [Hart -> {"boot", "main", "booted", "run", "spin", "handler", "resumed",
                          "woken", "return", "leave"}]
      /\ status \in [Task -> {"UNUSED", "READY", "RUNNING", "BLOCKED", "EXITED"}]
      /\ ready \in NoDup(Proc) /\ t \in Task
  BY Idles DEF IInv, TypeOK, Queued
<1>3. pc'[h] \in Locked /\ \A k \in Hart : k # h => pc'[k] = pc[k]
  BY <1>1, <1>2 DEF Locked, HasWoken
<1>4. t \notin Range(ready)  BY <1>1 DEF IInv, Queued
<1>5. ready' \in NoDup(Proc) /\ Range(ready') = Range(ready) \cup {t}
  BY <1>1, <1>2, <1>4, AppendNew
<1>6. \A u \in Task : status'[u] = IF u = t THEN "READY" ELSE status[u]  BY <1>1, <1>2
<1>7. Queued'
  <2>1. \A u \in Proc : u \in Range(ready') <=> status'[u] = "READY"
    BY <1>5, <1>6, Idles DEF IInv, Queued
  <2>2. ASSUME NEW k \in Hart, current[k] \in Proc
        PROVE  status'[current[k]] \in {"RUNNING", "EXITED"}
    BY <1>1, <1>6, <2>2, Idles DEF IInv, Queued
  <2>. QED  BY <1>1, <1>5, <2>1, <2>2 DEF Queued
<1>8. Resting'
  BY <1>1, <1>3, <1>6, Idles, RestingKept DEF IInv, Locked
<1>9. TypeOK'
  <2>1. ready' \in Seq(Proc)  BY <1>5 DEF NoDup
  <2>2. status' \in [Task -> {"UNUSED", "READY", "RUNNING", "BLOCKED", "EXITED"}]
    BY <1>1, <1>2
  <2>3. pc' \in [Hart -> {"boot", "main", "booted", "run", "spin", "handler", "resumed",
                          "woken", "return", "leave"}]
    BY <1>1, <1>2 DEF HasWoken
  <2>. QED  BY <1>1, <2>1, <2>2, <2>3 DEF IInv, TypeOK
<1>. QED  BY <1>1, <1>3, <1>7, <1>8, <1>9, HandlerKeeps

\* do_kill of a task.
LEMMA KillKeeps ==
  ASSUME IInv, NEW h \in Hart, NEW t \in Proc, Kill(h, t)
  PROVE  IInv'
<1>1. /\ pc[h] = "handler" /\ t # current[h] /\ status[t] # "UNUSED"
      /\ status' = [status EXCEPT ![t] = "EXITED"]
      /\ ready' = IF t \in Range(ready) THEN Without(ready, t) ELSE ready
      /\ UNCHANGED <<pc, stack, kernel_sp>> /\ HandlerStep
      /\ UNCHANGED <<lock, tp, sp, sscratch, current, last>>
  BY DEF Kill, HandlerStep
<1>2. /\ status \in [Task -> {"UNUSED", "READY", "RUNNING", "BLOCKED", "EXITED"}]
      /\ ready \in NoDup(Proc) /\ t \in Task
  BY Idles DEF IInv, TypeOK, Queued
<1>3. ready' \in NoDup(Proc) /\ Range(ready') = Range(ready) \ {t}
  <2>1. CASE t \in Range(ready)  BY <1>1, <1>2, <2>1, WithoutOne
  <2>2. CASE t \notin Range(ready)  BY <1>1, <1>2, <2>2
  <2>. QED  BY <2>1, <2>2
<1>4. \A u \in Task : status'[u] = IF u = t THEN "EXITED" ELSE status[u]  BY <1>1, <1>2
<1>5. Queued'
  <2>1. \A u \in Proc : u \in Range(ready') <=> status'[u] = "READY"
    BY <1>3, <1>4, Idles DEF IInv, Queued
  <2>2. ASSUME NEW k \in Hart, current[k] \in Proc
        PROVE  status'[current[k]] \in {"RUNNING", "EXITED"}
    BY <1>1, <1>4, <2>2, Idles DEF IInv, Queued
  <2>. QED  BY <1>1, <1>3, <2>1, <2>2 DEF Queued
<1>6. Resting'
  BY <1>1, <1>4, Idles, RestingKept DEF IInv
<1>7. TypeOK'
  <2>1. ready' \in Seq(Proc)  BY <1>3 DEF NoDup
  <2>2. status' \in [Task -> {"UNUSED", "READY", "RUNNING", "BLOCKED", "EXITED"}]
    BY <1>1, <1>2
  <2>. QED  BY <1>1, <2>1, <2>2 DEF IInv, TypeOK
<1>. QED  BY <1>1, <1>5, <1>6, <1>7, HandlerKeeps DEF Locked

\* exec and mthread_create: the new task is laid out as one that was interrupted.
LEMMA CreateKeeps ==
  ASSUME IInv, NEW h \in Hart, NEW t \in Proc, Create(h, t)
  PROVE  IInv'
<1>0. /\ Depth \in Nat /\ Depth >= 2 /\ 1 \in 1 .. Depth /\ 2 \in 1 .. Depth
      /\ 2 \in 0 .. Depth /\ 0 \in 0 .. Depth
  BY KernelConstants
<1>1. /\ pc[h] = "handler" /\ status[t] = "UNUSED"
      /\ stack' = [stack EXCEPT ![t][1] = TrapFrame(t, 0), ![t][2] = SwitchFrame("return")]
      /\ kernel_sp' = [kernel_sp EXCEPT ![t] = 2]
      /\ status' = [status EXCEPT ![t] = "READY"] /\ ready' = Append(ready, t)
      /\ UNCHANGED pc /\ HandlerStep
      /\ UNCHANGED <<lock, tp, sp, sscratch, current, last>>
  BY DEF Create, HandlerStep
<1>2. /\ status \in [Task -> {"UNUSED", "READY", "RUNNING", "BLOCKED", "EXITED"}]
      /\ stack \in [Task -> [1 .. Depth -> Frame]] /\ kernel_sp \in [Task -> 0 .. Depth]
      /\ ready \in NoDup(Proc) /\ t \in Task
  BY Idles DEF IInv, TypeOK, Queued
<1>3. /\ t \notin Range(ready) /\ last[t] = t
      /\ \A k \in Hart : current[k] # t
  BY <1>1 DEF IInv, Queued, Resting
<1>4. ready' \in NoDup(Proc) /\ Range(ready') = Range(ready) \cup {t}
  BY <1>1, <1>2, <1>3, AppendNew
<1>5. \A u \in Task : /\ status'[u] = IF u = t THEN "READY" ELSE status[u]
                      /\ u # t => stack'[u] = stack[u] /\ kernel_sp'[u] = kernel_sp[u]
  BY <1>1, <1>2
<1>6. /\ stack' \in [Task -> [1 .. Depth -> Frame]] /\ kernel_sp'[t] = 2
      /\ stack'[t][1] = TrapFrame(t, 0) /\ stack'[t][2] = SwitchFrame("return")
  <2>1. TrapFrame(t, 0) \in Frame /\ SwitchFrame("return") \in Frame
    BY <1>0, <1>2 DEF TrapFrame, SwitchFrame, Frame
  <2>2. PICK f1 \in Frame : f1 = TrapFrame(t, 0)  BY <2>1
  <2>3. PICK f2 \in Frame : f2 = SwitchFrame("return")  BY <2>1
  <2>4. stack' = [stack EXCEPT ![t][1] = f1, ![t][2] = f2]  BY <1>1, <2>2, <2>3
  <2>5. stack'[t] = [stack[t] EXCEPT ![1] = f1, ![2] = f2]  BY <1>2, <2>4
  <2>6. stack[t] \in [1 .. Depth -> Frame]  BY <1>2
  <2>7. /\ stack'[t] \in [1 .. Depth -> Frame] /\ stack'[t][1] = f1 /\ stack'[t][2] = f2
    BY <1>0, <2>5, <2>6
  <2>8. stack' \in [Task -> [1 .. Depth -> Frame]]
    <3>1. stack' = [u \in Task |-> IF u = t THEN stack'[t] ELSE stack[u]]
      BY <1>2, <2>4
    <3>. QED  BY <1>2, <2>7, <3>1
  <2>9. kernel_sp'[t] = 2  BY <1>1, <1>2
  <2>. QED  BY <2>2, <2>3, <2>7, <2>8, <2>9
<1>7. Queued'
  <2>1. \A u \in Proc : u \in Range(ready') <=> status'[u] = "READY"
    BY <1>4, <1>5, Idles DEF IInv, Queued
  <2>2. ASSUME NEW k \in Hart, current[k] \in Proc
        PROVE  status'[current[k]] \in {"RUNNING", "EXITED"}
    BY <1>3, <1>5, <2>2, Idles DEF IInv, Queued
  <2>. QED  BY <1>1, <1>4, <2>1, <2>2 DEF Queued
<1>8. Suspended(t)'
  <2>1. Interrupted(t)'  BY <1>1, <1>3, <1>6 DEF Interrupted, TrapFrame
  <2>2. stack'[t][2].go = "return"  BY <1>6 DEF SwitchFrame
  <2>. QED  BY <1>6, <2>1, <2>2 DEF Suspended, InHandler
<1>9. ASSUME NEW u \in Task, u # t, Suspended(u)
      PROVE  Suspended(u)'
  BY <1>1, <1>5, <1>9, SuspendedKept
<1>10. Resting'
  <2>1. ASSUME NEW u \in Proc
        PROVE  IF status'[u] = "UNUSED" THEN last[u] = u
               ELSE (\A k \in Hart : current[k] # u) => Suspended(u)'
    <3>1. CASE u = t  BY <1>2, <1>5, <1>8, <3>1
    <3>2. CASE u # t  BY <1>5, <1>9, <3>2, Idles DEF IInv, Resting
    <3>. QED  BY <3>1, <3>2
  <2>2. ASSUME NEW k \in Hart, pc[k] # "boot", current[k] # Idle(k)
        PROVE  Suspended(Idle(k))'
    <3>1. Idle(k) \in Task /\ Idle(k) # t  BY Idles
    <3>2. Suspended(Idle(k))  BY <2>2 DEF IInv, Resting
    <3>. QED  BY <1>9, <3>1, <3>2
  <2>3. \A k \in Hart : last[Idle(k)] = Idle(k)  BY DEF IInv, Resting
  <2>. QED  BY <1>1, <2>1, <2>2, <2>3 DEF Resting
<1>11. TypeOK'
  <2>1. ready' \in Seq(Proc)  BY <1>4 DEF NoDup
  <2>2. status' \in [Task -> {"UNUSED", "READY", "RUNNING", "BLOCKED", "EXITED"}]
    BY <1>1, <1>2
  <2>3. kernel_sp' \in [Task -> 0 .. Depth]  BY <1>0, <1>1, <1>2
  <2>. QED  BY <1>1, <1>6, <2>1, <2>2, <2>3 DEF IInv, TypeOK
<1>12. \A k \in Hart : current[k] # Null => /\ stack'[current[k]] = stack[current[k]]
                                            /\ kernel_sp'[current[k]] = kernel_sp[current[k]]
  BY <1>3, <1>5, Currents DEF IInv
<1>. QED  BY <1>1, <1>7, <1>10, <1>11, <1>12, HandlerKeeps DEF Locked

\* do_scheduler and switch_to: the hart goes on with the next task where that was
\* suspended, with the lock it has taken on behalf of the last one.
LEMMA SchedulerKeeps ==
  ASSUME IInv, NEW h \in Hart, pc[h] \in {"main", "handler", "resumed"},
         NEW st \in {"RUNNING", "BLOCKED", "EXITED"}, do_scheduler(h, st)
  PROVE  IInv'
<1>p. PICK p : p = current[h]  OBVIOUS
<1>q. PICK q : q = Requeued(p, st)  OBVIOUS
<1>n. PICK n : n = IF q # <<>> THEN Head(q) ELSE Idle(h)  OBVIOUS
<1>. DEFINE s == [status EXCEPT ![p] = IF st = "RUNNING" THEN "READY" ELSE st]
<1>0. /\ Depth \in Nat /\ Depth >= 2 /\ 1 \in 1 .. Depth /\ 2 \in 1 .. Depth
      /\ 2 \in 0 .. Depth /\ 0 \in 0 .. Depth /\ 1 \in 0 .. Depth
  BY KernelConstants
<1>1. /\ status' = [s EXCEPT ![n] = "RUNNING"]
      /\ ready' = IF q # <<>> THEN Tail(q) ELSE q
      /\ current' = [current EXCEPT ![h] = n]
      /\ stack' = Push(p, sp[h] + 1, SwitchFrame(GoOn(h)))
      /\ kernel_sp' = [kernel_sp EXCEPT ![p] = sp[h] + 1]
      /\ sp' = [sp EXCEPT ![h] = kernel_sp'[n] - 1]
      /\ pc' = [pc EXCEPT ![h] = stack'[n][kernel_sp'[n]].go]
      /\ tp' = [tp EXCEPT ![h] = n]
      /\ UNCHANGED <<lock, sscratch, last>>
  BY <1>p, <1>q, <1>n DEF do_scheduler
<1>2. /\ pc \in [Hart -> {"boot", "main", "booted", "run", "spin", "handler", "resumed",
                          "woken", "return", "leave"}]
      /\ tp \in [Hart -> Val \cup Task] /\ sp \in [Hart -> 0 .. Depth]
      /\ current \in [Hart -> {Null} \cup Task]
      /\ stack \in [Task -> [1 .. Depth -> Frame]] /\ kernel_sp \in [Task -> 0 .. Depth]
      /\ status \in [Task -> {"UNUSED", "READY", "RUNNING", "BLOCKED", "EXITED"}]
      /\ ready \in NoDup(Proc)
  BY DEF IInv, TypeOK, Queued
<1>3. /\ p \in Task /\ p # Null /\ p \in Proc \cup {Idle(h)}
      /\ \A k \in Hart : k # h => current[k] # p
  BY <1>p, Currents DEF IInv, Apart
<1>4. /\ \A k \in Hart : current[k] \in Proc => /\ current[k] \notin Range(ready)
                                                /\ status[current[k]] # "READY"
      /\ \A t \in Proc : t \in Range(ready) <=> status[t] = "READY"
  BY DEF IInv, Queued
\* The list with the task that is suspended, and the next task taken from it.
<1>5. /\ q \in NoDup(Proc)
      /\ \A t \in Proc : t \in Range(q) <=> t \in Range(ready) \/ (t = p /\ st = "RUNNING")
  <2>1. CASE p \in Proc /\ st = "RUNNING"
    <3>1. q = Append(ready, p)  BY <1>q, <2>1 DEF Requeued
    <3>2. p \notin Range(ready)  BY <1>p, <1>4, <2>1
    <3>3. q \in NoDup(Proc) /\ Range(q) = Range(ready) \cup {p}
      BY <1>2, <2>1, <3>1, <3>2, AppendNew
    <3>. QED  BY <2>1, <3>3
  <2>2. CASE ~ (p \in Proc /\ st = "RUNNING")
    <3>1. q = ready  BY <1>q, <2>2 DEF Requeued
    <3>. QED  BY <1>2, <2>2, <3>1
  <2>. QED  BY <2>1, <2>2
<1>6. \/ q # <<>> /\ n = Head(q) /\ n \in Proc /\ n \in Range(q)
         /\ ready' \in NoDup(Proc) /\ Range(ready') = Range(q) \ {n}
      \/ q = <<>> /\ n = Idle(h) /\ ready' = q
  <2>1. CASE q # <<>>
    <3>1. Head(q) \in Proc /\ Head(q) \in Range(q) /\ Tail(q) \in NoDup(Proc)
          /\ Range(Tail(q)) = Range(q) \ {Head(q)}
      BY <1>5, <2>1, TakeHead
    <3>. QED  BY <1>1, <1>n, <2>1, <3>1
  <2>2. CASE q = <<>>  BY <1>1, <1>n, <2>2
  <2>. QED  BY <2>1, <2>2
<1>7. /\ n \in Task /\ n # Null /\ n \in Proc \cup {Idle(h)}
      /\ \A k \in Hart : k # h => current[k] # n
  <2>1. CASE n \in Proc /\ n \in Range(q)
    <3>1. n \in Range(ready) \/ n = p  BY <1>5, <2>1
    <3>. QED  BY <1>p, <1>3, <1>4, <2>1, <3>1, Idles
  <2>2. CASE n = Idle(h)
    <3>1. \A k \in Hart : current[k] = Idle(h) => k = h  BY Currents DEF IInv
    <3>. QED  BY <2>2, <3>1, Idles
  <2>. QED  BY <1>6, <2>1, <2>2
<1>8. ready' \in NoDup(Proc) /\ \A t \in Proc : t \in Range(ready') <=> t \in Range(q) /\ t # n
  <2>1. CASE q # <<>>  BY <1>6, <2>1
  <2>2. CASE q = <<>>  BY <1>5, <1>6, <2>2, Idles
  <2>. QED  BY <2>1, <2>2
<1>9. \A t \in Task : status'[t] = IF t = n THEN "RUNNING"
                                   ELSE IF t = p THEN IF st = "RUNNING" THEN "READY" ELSE st
                                   ELSE status[t]
  BY <1>1, <1>2, <1>3, <1>7
<1>10. /\ current'[h] = n /\ tp'[h] = n
       /\ \A k \in Hart : k # h => /\ current'[k] = current[k] /\ pc'[k] = pc[k]
                                   /\ tp'[k] = tp[k] /\ sp'[k] = sp[k]
  BY <1>1, <1>2
<1>11. Queued'
  <2>1. ASSUME NEW t \in Proc
        PROVE  t \in Range(ready') <=> status'[t] = "READY"
    <3>0. t \in Task  BY Idles
    <3>1. CASE t = n  BY <1>8, <1>9, <3>0, <3>1
    <3>2. CASE t # n /\ t = p  BY <1>p, <1>3, <1>4, <1>5, <1>8, <1>9, <3>0, <3>2
    <3>3. CASE t # n /\ t # p  BY <1>4, <1>5, <1>8, <1>9, <3>0, <3>3
    <3>. QED  BY <3>1, <3>2, <3>3
  <2>2. ASSUME NEW k \in Hart, current'[k] \in Proc
        PROVE  status'[current'[k]] \in {"RUNNING", "EXITED"}
    <3>1. CASE k = h  BY <1>7, <1>9, <1>10, <3>1
    <3>2. CASE k # h
      <4>1. current[k] \in Proc /\ current[k] # n /\ current[k] # p
        BY <1>3, <1>7, <1>10, <2>2, <3>2
      <4>. QED  BY <1>9, <1>10, <3>2, <4>1, Idles DEF IInv, Queued
    <3>. QED  BY <3>1, <3>2
  <2>. QED  BY <1>8, <2>1, <2>2 DEF Queued
\* The stacks: that of the task that is left, of the next one, and of others.
<1>12. /\ stack' \in [Task -> [1 .. Depth -> Frame]]
       /\ \A t \in Task : t # p => stack'[t] = stack[t]
       /\ \A j \in 1 .. Depth : stack'[p][j] = IF j = sp[h] + 1 THEN SwitchFrame(GoOn(h))
                                               ELSE stack[p][j]
  <2>1. SwitchFrame(GoOn(h)) \in Frame  BY <1>0 DEF SwitchFrame, GoOn, Frame
  <2>. QED  BY <1>1, <1>2, <1>3, <2>1, Pushed
<1>13. \A t \in Task : t # p => kernel_sp'[t] = kernel_sp[t]  BY <1>1, <1>2
<1>14. Suspended(p)' /\ kernel_sp' \in [Task -> 0 .. Depth]
  <2>1. CASE pc[h] = "main"
    <3>1. sp[h] = 0 /\ p = Idle(h)  BY <1>p, <2>1 DEF IInv, HartOK, Starting
    <3>2. sp[h] + 1 = 1  BY <3>1
    <3>3. kernel_sp'[p] = 1 /\ kernel_sp' \in [Task -> 0 .. Depth]
      BY <1>0, <1>1, <1>2, <1>3, <3>2
    <3>4. stack'[p][1].go = "booted"  BY <1>0, <1>12, <2>1, <3>2 DEF SwitchFrame, GoOn
    <3>. QED  BY <3>1, <3>3, <3>4, Idles DEF Suspended, InMain
  <2>2. CASE pc[h] \in {"handler", "resumed"}
    <3>1. sp[h] = 1 /\ Interrupted(p)  BY <1>p, <2>2 DEF IInv, HartOK, Locked
    <3>2. sp[h] + 1 = 2  BY <3>1
    <3>3. kernel_sp'[p] = 2 /\ kernel_sp' \in [Task -> 0 .. Depth]
      BY <1>0, <1>1, <1>2, <1>3, <3>2
    <3>4. stack'[p][2].go = "resumed"  BY <1>0, <1>12, <2>2, <3>2 DEF SwitchFrame, GoOn
    <3>5. stack'[p][1] = stack[p][1]  BY <1>0, <1>12, <3>2
    <3>6. Interrupted(p)'  BY <1>1, <3>1, <3>5 DEF Interrupted, TrapFrame
    <3>. QED  BY <3>3, <3>4, <3>6 DEF Suspended, InHandler
  <2>. QED  BY <2>1, <2>2
<1>15. ASSUME NEW t \in Task, t # p, Suspended(t)
       PROVE  Suspended(t)'
  BY <1>1, <1>12, <1>13, <1>15, SuspendedKept
<1>16. Suspended(n)'
  <2>1. CASE n = p  BY <1>14, <2>1 DEF Suspended, InHandler, InMain, Interrupted, TrapFrame
  <2>2. CASE n # p /\ n \in Proc /\ n \in Range(q)
    <3>1. status[n] = "READY"  BY <1>4, <1>5, <2>2
    <3>2. \A k \in Hart : current[k] # n  BY <1>p, <1>7, <2>2
    <3>3. Suspended(n)  BY <2>2, <3>1, <3>2 DEF IInv, Resting
    <3>. QED  BY <1>7, <1>15, <2>2, <3>3
  <2>3. CASE n # p /\ n = Idle(h)
    <3>1. pc[h] # "boot"  OBVIOUS
    <3>2. Suspended(Idle(h))  BY <1>p, <2>3, <3>1 DEF IInv, Resting
    <3>3. Suspended(n)  BY <2>3, <3>2
    <3>. QED  BY <1>7, <1>15, <2>3, <3>3
  <2>. QED  BY <1>6, <2>1, <2>2, <2>3
\* The hart goes on where the next task was suspended.
<1>17. /\ sscratch'[h] = Null
       /\ HartOK(h)' /\ pc'[h] \in {"booted", "resumed", "return"} /\ sp'[h] \in 0 .. Depth
  <2>0. sscratch'[h] = Null  BY <1>1 DEF IInv, HartOK, Starting, Locked
  <2>1. CASE InHandler(n)'
    <3>1. kernel_sp'[n] = 2 /\ Interrupted(n)' /\ stack'[n][2].go \in {"resumed", "return"}
      BY <2>1 DEF InHandler
    <3>2. kernel_sp'[n] - 1 = 1  BY <3>1
    <3>3. sp'[h] = 1 /\ pc'[h] \in {"resumed", "return"}  BY <1>1, <1>2, <3>1, <3>2
    <3>. QED  BY <1>0, <1>7, <1>10, <2>0, <3>1, <3>3 DEF HartOK, Starting, Locked, Interrupted
  <2>2. CASE InMain(n)'
    <3>1. kernel_sp'[n] = 1 /\ n = Idle(h) /\ stack'[n][1].go = "booted"
      BY <1>7, <2>2 DEF InMain
    <3>2. kernel_sp'[n] - 1 = 0  BY <3>1
    <3>3. sp'[h] = 0 /\ pc'[h] = "booted"  BY <1>1, <1>2, <3>1, <3>2
    <3>. QED  BY <1>0, <1>10, <2>0, <3>1, <3>3 DEF HartOK, Starting, Locked
  <2>. QED  BY <1>16, <2>1, <2>2 DEF Suspended
<1>18. ASSUME NEW k \in Hart
       PROVE  HartOK(k)'
  <2>1. CASE k # h
    <3>1. current[k] # Null => current[k] \in Task /\ current[k] # p
      BY <1>2, <1>3, <2>1 DEF IInv, TypeOK
    <3>. QED  BY <1>1, <1>10, <1>12, <1>13, <2>1, <3>1, HartKept DEF IInv
  <2>. QED  BY <1>17, <2>1
<1>19. Resting'
  <2>1. ASSUME NEW t \in Proc
        PROVE  IF status'[t] = "UNUSED" THEN last[t] = t
               ELSE (\A k \in Hart : current'[k] # t) => Suspended(t)'
    <3>0. t \in Task  BY Idles
    <3>1. CASE t = p  BY <1>p, <1>9, <1>14, <3>0, <3>1 DEF Suspended, InHandler, InMain
    <3>2. CASE t # p
      <4>1. IF status[t] = "UNUSED" THEN last[t] = t
            ELSE (\A k \in Hart : current[k] # t) => Suspended(t)
        BY DEF IInv, Resting
      <4>2. CASE t = n  BY <1>9, <1>10, <3>0, <4>2
      <4>3. CASE t # n
        <5>1. status'[t] = status[t]  BY <1>9, <3>0, <3>2, <4>3
        <5>2. (\A k \in Hart : current'[k] # t) => \A k \in Hart : current[k] # t
          BY <1>p, <1>10, <3>2
        <5>. QED  BY <1>15, <3>0, <3>2, <4>1, <5>1, <5>2
      <4>. QED  BY <4>2, <4>3
    <3>. QED  BY <3>1, <3>2
  <2>2. ASSUME NEW k \in Hart, pc'[k] # "boot", current'[k] # Idle(k)
        PROVE  Suspended(Idle(k))'
    <3>1. CASE Idle(k) = p  BY <1>14, <3>1 DEF Suspended, InHandler, InMain, Interrupted, Idle
    <3>2. CASE Idle(k) # p
      <4>1. pc[k] # "boot" /\ current[k] # Idle(k)  BY <1>p, <1>10, <2>2, <3>2
      <4>2. Suspended(Idle(k))  BY <4>1 DEF IInv, Resting
      <4>3. \A t \in Task : t # p /\ Suspended(t) => Suspended(t)'  BY <1>15
      <4>4. Idle(k) \in Task  BY Idles
      <4>. QED  BY <3>2, <4>2, <4>4, <1>1, <1>12, <1>13, SuspendedKept
    <3>. QED  BY <3>1, <3>2
  <2>3. \A k \in Hart : last[Idle(k)] = Idle(k)  BY DEF IInv, Resting
  <2>. QED  BY <1>1, <2>1, <2>2, <2>3 DEF Resting
<1>20. Apart'
  BY <1>7, <1>10 DEF IInv, Apart
<1>21. Exclusion'
  <2>1. \A k \in Hart : InKernel(k)' <=> InKernel(k)
    BY <1>10, <1>17 DEF InKernel
  <2>. QED  BY <1>1, <2>1 DEF IInv, Exclusion
<1>22. TypeOK'
  <2>1. ready' \in Seq(Proc)  BY <1>8 DEF NoDup
  <2>2. status' \in [Task -> {"UNUSED", "READY", "RUNNING", "BLOCKED", "EXITED"}]
    BY <1>1, <1>2
  <2>3. pc' \in [Hart -> {"boot", "main", "booted", "run", "spin", "handler", "resumed",
                          "woken", "return", "leave"}]
    BY <1>1, <1>2, <1>17
  <2>4. sp' \in [Hart -> 0 .. Depth]  BY <1>1, <1>2, <1>17
  <2>5. tp' \in [Hart -> Val \cup Task] /\ current' \in [Hart -> {Null} \cup Task]
    BY <1>1, <1>2, <1>7
  <2>. QED  BY <1>1, <1>12, <1>14, <2>1, <2>2, <2>3, <2>4, <2>5 DEF IInv, TypeOK
<1>. QED  BY <1>11, <1>18, <1>19, <1>20, <1>21, <1>22 DEF IInv

-----------------------------------------------------------------------------
(* The theorems. *)

\* Every step keeps the invariant.
LEMMA NextKeeps == IInv /\ [Next]_vars => IInv'
<1>. SUFFICES ASSUME IInv, [Next]_vars PROVE IInv'  OBVIOUS
<1>1. CASE UNCHANGED vars
  BY <1>1 DEF vars, hartVars, IInv, TypeOK, Exclusion, InKernel, Apart, Queued, Resting,
     Suspended, InHandler, InMain, Interrupted, HartOK, Starting, Locked, TrapFrame
<1>2. ASSUME NEW h \in Hart, Suspend(h)
      PROVE  IInv'
  <2>1. PICK st \in {"RUNNING", "BLOCKED", "EXITED"} :
          pc[h] \in {"main", "handler", "resumed"} /\ do_scheduler(h, st)
    BY <1>2 DEF Suspend
  <2>. QED  BY <2>1, SchedulerKeeps
<1>3. ASSUME NEW h \in Hart, Handler(h)
      PROVE  IInv'
  BY <1>2, <1>3, WakeKeeps, CreateKeeps, KillKeeps DEF Handler
<1>. QED
  BY <1>1, <1>3, TrapKeeps, LockKeeps, BootKeeps, ReturnKeeps, MainKeeps, RestoreKeeps,
     ProgramKeeps DEF Next, Leave

LEMMA AlwaysIInv == Spec => []IInv
<1>1. Init => IInv  BY InitOK
<1>2. IInv /\ [Next]_vars => IInv'  BY NextKeeps
<1>. QED  BY <1>1, <1>2, PTL DEF Spec

\* The variables keep their types, and no stack outgrows its page.
THEOREM KernelTyped == Spec => []TypeOK
<1>1. IInv => TypeOK  BY DEF IInv
<1>. QED  BY <1>1, AlwaysIInv, PTL

\* One hart at a time runs handlers, and the lock is held just as long, however
\* tasks hand it to each other in do_scheduler.
THEOREM OneInKernel == Spec => []Exclusion
<1>1. IInv => Exclusion  BY DEF IInv
<1>. QED  BY <1>1, AlwaysIInv, PTL

\* No task runs on two harts or is ready while it runs.
THEOREM OneHartPerTask == Spec => []OnOneHart
<1>1. IInv => OnOneHart
  <2>. SUFFICES ASSUME IInv PROVE OnOneHart  OBVIOUS
  <2>1. Apart /\ IsInjective(ready) /\ ready \in Seq(Proc)  BY DEF IInv, Queued, NoDup
  <2>2. ASSUME NEW h \in Hart, current[h] \in Range(ready)
        PROVE  FALSE
    <3>1. Range(ready) \subseteq Proc  BY <2>1, RangeOfSeq
    <3>2. current[h] \in Proc /\ status[current[h]] = "READY"
      BY <2>2, <3>1 DEF IInv, Queued
    <3>. QED  BY <3>2 DEF IInv, Queued
  <2>. QED  BY <2>1, <2>2 DEF OnOneHart, Apart
<1>. QED  BY <1>1, AlwaysIInv, PTL

\* A task goes on with the registers it had.
THEOREM ContextKept == Spec => []ContextPreserved
<1>1. IInv => ContextPreserved  BY DEF IInv, HartOK, ContextPreserved
<1>. QED  BY <1>1, AlwaysIInv, PTL

\* A program that runs has an empty kernel stack.
THEOREM NoFrameLeft == Spec => []StackEmptied
<1>1. IInv => StackEmptied
  <2>. SUFFICES ASSUME IInv, NEW h \in Hart, pc[h] = "run"
                PROVE  /\ current[h] \in Proc => /\ sscratch[h] = current[h]
                                                 /\ kernel_sp[current[h]] = 0
                       /\ sscratch[h] # Null => kernel_sp[sscratch[h]] = 0
    BY DEF StackEmptied
  <2>1. IF sscratch[h] = Null THEN current[h] = Idle(h)
        ELSE sscratch[h] = current[h] /\ kernel_sp[current[h]] = 0
    BY DEF IInv, HartOK
  <2>. QED  BY <2>1, Idles
<1>. QED  BY <1>1, AlwaysIInv, PTL
=============================================================================
