------------------------------- MODULE Tasks -------------------------------
(***************************************************************************)
(* Tasks of the kernel: the scheduler, the life cycle of processes and     *)
(* threads, sleeping, and the semaphore slots behind mutexes, semaphores   *)
(* and barriers (kernel/sched/sched.c, kernel/locking/lock.c and the timer *)
(* interrupt of kernel/irq/irq.c).                                         *)
(*                                                                         *)
(* Every trap runs under the kernel lock with interrupts off, so one       *)
(* handler is one action, its call of do_scheduler included.  Only hart 0  *)
(* runs (main.c:458 leaves the other hart asleep).  A task that blocks     *)
(* resumes, when it is dispatched again, at the end of the system call: no *)
(* handler of this module touches shared state after do_scheduler.         *)
(***************************************************************************)
EXTENDS Lists

CONSTANTS
  NumTask,   \* slots of pcb[], the shell's included (NUM_MAX_TASK)
  NumTcb,    \* slots of tcb[] that are used, tcb[1] onwards
  Mutex,     \* slots of sem_arr that programs use as mutexes (or binary semaphores)
  Sema,      \* slots used as counting semaphores
  Barrier,   \* slots used as barriers
  MaxLock,   \* room of pcb_t.lock (MAX_LOCK)
  MaxSleep,  \* longest sleep, in timer interrupts
  Counts,    \* the values programs give to do_sem_init and do_barrier_init
  MaxUnits,  \* bound of the model: units a semaphore holds
  Modes,     \* the modes do_exec finds in its fourth argument register
  Misuse     \* which of the calls below programs make although they should not

Slot == Mutex \cup Sema \cup Barrier

(***************************************************************************)
(* Calls that the kernel accepts and that a careful program does not make. *)
(***************************************************************************)
Misuses == { "killWaiter",   \* kill a task that waits in a semaphore slot, or a dead one
             "unlockOther",  \* unlock a mutex other than the last one locked
             "killNoThread", \* kill a thread of a process that has created none
             "shellExit",    \* the command `exit' of the shell
             "tableFull" }   \* exec or create a thread when pcb[] or tcb[] is used up

ASSUME ConstantsOK ==
  /\ Slot \cap Int = {}
  /\ NumTask \in Nat \ {0}
  /\ NumTcb \in Nat
  /\ Mutex \cap Sema = {} /\ Mutex \cap Barrier = {} /\ Sema \cap Barrier = {}
  /\ MaxLock \in Nat
  /\ MaxSleep \in Nat /\ MaxUnits \in Nat
  /\ Counts \subseteq Nat \ {0}
  /\ Modes \subseteq {"auto", "zombie", "junk"}
  /\ Misuse \subseteq Misuses

-----------------------------------------------------------------------------
Idle  == 0                             \* pid0_pcb_0, run when nothing is ready
Shell == 1                             \* pcb[0]
Proc   == 1 .. NumTask                 \* process p is pcb[p - 1]; its pid is p
Thread == NumTask + 1 .. NumTask + NumTcb       \* thread NumTask + i is tcb[i]
Task   == 1 .. NumTask + NumTcb

(***************************************************************************)
(* The list heads a task's single `list' node can be linked into:          *)
(* ready_queue, timers, the wait_list of a task, the wait_queue of a slot. *)
(***************************************************************************)
ReadyQ   == 0
TimerQ   == -1
WaitQ(t) == t
SemQ(x)  == x
QName == {ReadyQ, TimerQ} \cup {WaitQ(t) : t \in Task} \cup {SemQ(x) : x \in Slot}

Status == {"BLOCKED", "RUNNING", "READY", "ZOMBIE", "EXITED"}
StoppedEnded == {"ZOMBIE", "EXITED"}           \* variant: a blocked task is put back
Stopped == {"BLOCKED", "ZOMBIE", "EXITED"}     \* not put back by do_scheduler

VARIABLES
  queue,      \* the lists, by head
  cur,        \* current_running[0]
  status, pid, mode, tid_mem,         \* fields of the pcb's
  due,        \* timer1.time_finish, as timer interrupts still to come
  locks,      \* lock[0 .. lock_num - 1]
  process_num, thread_id,             \* next free pcb and tcb
  sem_s, busy,                        \* s and status of the semaphore slots
  hung,       \* a handler spins, faults or has written past a table; the model ends
  owner,      \* history: the tasks that locked a mutex and did not unlock it
  need        \* history: the count a barrier was initialised with

taskVars == <<pid, mode, tid_mem, process_num, thread_id>>
slotVars == <<sem_s, busy, owner, need, locks>>
vars == <<queue, cur, status, taskVars, due, slotVars, hung>>

-----------------------------------------------------------------------------
(* include/os/list.h on sequences. *)

\* Variant: list_add, which inserts at the head.
list_add_head(q, x, t) == [y \in QName |-> IF y = x THEN <<t>> \o q[y] ELSE q[y]]

list_add_tail(q, x, t) == [y \in QName |-> IF y = x THEN Append(q[y], t) ELSE q[y]]

\* list_del unlinks the node wherever it is, and does nothing to a free one.
list_del(q, t) ==
  [x \in QName |-> IF t \in Range(q[x]) THEN Without(q[x], t) ELSE q[x]]

\* The status fields st after those of the tasks in S have been set to v.
SetStatus(st, S, v) == [t \in Task |-> IF t \in S THEN v ELSE st[t]]

-----------------------------------------------------------------------------
(***************************************************************************)
(* do_scheduler, called with the lists q, the status fields st and the     *)
(* pids p that its caller leaves.  The current task goes to the tail of    *)
(* ready_queue unless it stopped; one whose pid is 0 never does.           *)
(***************************************************************************)
\* Variant: only the tasks of pcb[] are put back.
RequeuedProc(q, st, p) ==
  IF cur \in Proc /\ st[cur] \notin Stopped /\ p[cur] # 0
  THEN list_add_tail(q, ReadyQ, cur) ELSE q

Requeued(q, st, p) ==
  IF cur # Idle /\ st[cur] \notin Stopped /\ p[cur] # 0
  THEN list_add_tail(q, ReadyQ, cur) ELSE q

Preempted(st) == SetStatus(st, {t \in {cur} \ {Idle} : st[t] \notin Stopped}, "READY")

do_scheduler(q, st, p) ==
  LET q1 == Requeued(q, st, p)
      s1 == Preempted(st)
  IN  \/ /\ q1[ReadyQ] # <<>>
         /\ cur' = Head(q1[ReadyQ])
         /\ queue' = [x \in QName |-> IF x = ReadyQ THEN Tail(q1[x]) ELSE q1[x]]
         /\ status' = SetStatus(s1, {Head(q1[ReadyQ])}, "RUNNING")
      \/ /\ q1[ReadyQ] = <<>>
         /\ cur' = Idle
         /\ queue' = q1
         /\ status' = s1

\* sys_yield is do_scheduler itself.
Yield == /\ cur # Idle
         /\ do_scheduler(queue, status, pid)
         /\ UNCHANGED <<taskVars, due, slotVars, hung>>

\* do_sleep: d counts the timer interrupts until the deadline has passed.
do_sleep(d) ==
  /\ cur # Idle
  /\ due' = [due EXCEPT ![cur] = d]
  /\ do_scheduler(list_add_tail(list_del(queue, cur), TimerQ, cur),
                  SetStatus(status, {cur}, "BLOCKED"), pid)
  /\ UNCHANGED <<taskVars, slotVars, hung>>

\* timer_check walks `timers' and wakes the sleepers whose time is over.
ElapsedOnly(t) == due[t] - 1           \* variant: below 0 once the time is over
Elapsed(t) == IF due[t] > 0 THEN due[t] - 1 ELSE 0
\* Variant: time_finish is compared with == instead of <=.
ExpiredNow == {i \in DOMAIN queue[TimerQ] : due[queue[TimerQ][i]] = 1}
Expired == {i \in DOMAIN queue[TimerQ] : Elapsed(queue[TimerQ][i]) = 0}

\* The timer interrupt: timer_check, then do_scheduler.
reset_irq_timer ==
  LET sleepers == queue[TimerQ]
      woken    == Pick(sleepers, Expired)
  IN  /\ due' = [t \in Task |-> IF t \in Range(sleepers) THEN Elapsed(t) ELSE due[t]]
      /\ do_scheduler([queue EXCEPT ![TimerQ] = Pick(sleepers, DOMAIN sleepers \ Expired),
                                    ![ReadyQ] = @ \o woken],
                      SetStatus(status, Range(woken), "READY"), pid)
      /\ UNCHANGED <<taskVars, slotVars, hung>>

-----------------------------------------------------------------------------
(* Processes and threads. *)

\* A pcb or tcb that was handed out; its wait_list has been initialised,
\* except the shell's (init_shell leaves it zero, like all of tcb[0]).
Created(t) == \/ t \in Proc /\ t <= process_num
              \/ t \in Thread /\ t < NumTask + thread_id

\* The entry written is one behind the table: over what lies there.
WritesPast == /\ "tableFull" \in Misuse
              /\ hung' = TRUE
              /\ UNCHANGED <<queue, cur, status, pid, mode, tid_mem, due, slotVars>>

do_exec(m) ==
  LET p == process_num + 1
  IN  /\ cur # Idle
      /\ process_num' = p
      /\ UNCHANGED thread_id
      /\ \/ p \notin Proc /\ WritesPast
         \/ /\ p \in Proc
            /\ pid' = [pid EXCEPT ![p] = p]
            /\ mode' = [mode EXCEPT ![p] = m]
            /\ status' = [status EXCEPT ![p] = "READY"]
            /\ queue' = list_add_tail(queue, ReadyQ, p)
            /\ UNCHANGED <<cur, tid_mem, due, slotVars, hung>>

do_mthread_create ==
  LET t == NumTask + thread_id
  IN  /\ cur # Idle
      /\ thread_id' = thread_id + 1
      /\ UNCHANGED process_num
      /\ \/ t \notin Thread /\ WritesPast
         \/ /\ t \in Thread
            /\ tid_mem' = [tid_mem EXCEPT ![cur] = t]
            /\ pid' = [pid EXCEPT ![t] = pid[cur]]
            /\ mode' = [mode EXCEPT ![t] = mode[cur]]
            /\ status' = [status EXCEPT ![t] = "READY"]
            /\ queue' = list_add_tail(queue, ReadyQ, t)
            /\ UNCHANGED <<cur, due, slotVars, hung>>

\* The waiters' loop of do_kill and do_exit makes every task of wait_list
\* ready.  It removes only blocked ones: on any other it never ends.
Spins(q, t) == \E w \in Range(q[WaitQ(t)]) : status[w] # "BLOCKED"

Hang == hung' = TRUE /\ UNCHANGED <<queue, cur, status, taskVars, due, slotVars>>

do_exit ==
  LET waiters == queue[WaitQ(cur)]
      pids    == [pid EXCEPT ![cur] = 0]
      ended   == CASE mode[cur] = "auto" -> "EXITED"
                   [] mode[cur] = "zombie" -> "ZOMBIE"
                   [] OTHER -> status[cur]
  IN  /\ cur # Idle
      /\ cur = Shell => "shellExit" \in Misuse
      /\ \/ (cur = Shell \/ Spins(queue, cur)) /\ Hang
         \/ /\ cur # Shell /\ ~ Spins(queue, cur)
            /\ pid' = pids
            /\ do_scheduler([queue EXCEPT ![WaitQ(cur)] = <<>>, ![ReadyQ] = @ \o waiters],
                            SetStatus(SetStatus(status, Range(waiters), "READY"), {cur}, ended), pids)
            /\ UNCHANGED <<mode, tid_mem, process_num, thread_id, due, slotVars, hung>>

\* do_waitpid and do_kill look a process up by the pid in its pcb; 0 and 1 are
\* refused.  Variant: every slot that was handed out is accepted.
FoundSlot(p) == p # Shell /\ Created(p)
Found(p) == p # Shell /\ pid[p] = p

do_waitpid(p) ==
  /\ cur # Idle
  /\ Found(p)
  /\ do_scheduler(list_add_tail(queue, WaitQ(p), cur),
                  SetStatus(status, {cur}, "BLOCKED"), pid)
  /\ UNCHANGED <<taskVars, due, slotVars, hung>>

(***************************************************************************)
(* do_kill on the task v.  First v leaves its list, then every entry of    *)
(* v's lock[] is released in turn, as do_sem_up would but with s set to 1, *)
(* then v's wait_list is made ready.  Entry i hands the slot to the        *)
(* Nth(i)-th waiter, if there are that many.                               *)
(***************************************************************************)
\* Variants: a blocked, or a ready, victim stays where it is.
UnlinkedReady(v)   == IF status[v] = "READY" THEN list_del(queue, v) ELSE queue
UnlinkedBlocked(v) == IF status[v] = "BLOCKED" THEN list_del(queue, v) ELSE queue
Unlinked(v) == IF status[v] \in {"READY", "BLOCKED"} THEN list_del(queue, v) ELSE queue

\* The entries lock[0 .. lock_num - 1]; variant: all but the last one.
RecordsButLast(v) == SubSeq(locks[v], 1, Len(locks[v]) - 1)
Records(v) == locks[v]

Nth(rec, i)   == Cardinality({j \in 1 .. i : rec[j] = rec[i]})
Uses(rec, x)  == Cardinality({i \in DOMAIN rec : SemQ(rec[i]) = x})
Grants(q, rec) == {i \in DOMAIN rec : Nth(rec, i) <= Len(q[SemQ(rec[i])])}
Granted(q, rec) == [k \in 1 .. Cardinality(Grants(q, rec)) |->
                      LET i == Enum(Grants(q, rec))[k] IN q[SemQ(rec[i])][Nth(rec, i)]]

Kill(v) ==
  LET q       == Unlinked(v)
      rec     == Records(v)
      granted == Granted(q, rec)
      waiters == q[WaitQ(v)]
      st == SetStatus(SetStatus(status, Range(granted) \cup Range(waiters), "READY"),
                      {v}, "EXITED")
      q1 == [x \in QName |-> CASE x = ReadyQ -> q[x] \o granted \o waiters
                               [] x = WaitQ(v) -> <<>>
                               [] OTHER -> SubSeq(q[x], Uses(rec, x) + 1, Len(q[x]))]
  IN  \/ Spins(q, v) /\ Hang
      \/ /\ ~ Spins(q, v)
         /\ sem_s' = [x \in Slot |-> IF Uses(rec, SemQ(x)) > Len(q[SemQ(x)])
                                    THEN 1 ELSE sem_s[x]]
         /\ owner' = [x \in Mutex |->
                        IF x \notin Range(rec) THEN owner[x]
                        ELSE (owner[x] \ {v}) \cup
                             (Range(q[SemQ(x)]) \cap Range(granted))]
         /\ IF v = cur THEN do_scheduler(q1, st, pid)
            ELSE queue' = q1 /\ status' = st /\ UNCHANGED cur
         /\ UNCHANGED <<taskVars, due, locks, busy, need, hung>>

WaitsInSlot(t) == \E x \in Slot : t \in Range(queue[SemQ(x)])
Dead(t) == status[t] \in {"ZOMBIE", "EXITED"} \/ (Created(t) /\ pid[t] = 0)

\* do_kill(pid, tid): with tid # 0 the victim is the thread the process
\* created last; when there is none, it is the zeroed tcb[0], whose wait_list
\* never reads as empty.
do_kill(p, thread) ==
  LET v == IF thread THEN tid_mem[p] ELSE p
  IN  /\ cur # Idle
      /\ Found(p)
      /\ \/ v = 0 /\ "killNoThread" \in Misuse /\ Hang
         \/ /\ v # 0
            /\ (WaitsInSlot(v) \/ Dead(v)) => "killWaiter" \in Misuse
            /\ Kill(v)

-----------------------------------------------------------------------------
(***************************************************************************)
(* Semaphore slots.  do_sem_init takes a slot whose status is not 1, so a  *)
(* program's handle is its slot; the programs use a handle after its init  *)
(* and not after its destroy, and re-initialise a barrier only when nobody *)
(* waits in it.                                                            *)
(***************************************************************************)
do_sem_init(x, n) ==
  /\ cur # Idle
  /\ x \notin Barrier /\ ~ busy[x]
  /\ x \in Mutex => n = 1             \* do_mutex_lock_init, do_binsem_get
  /\ busy' = [busy EXCEPT ![x] = TRUE]
  /\ sem_s' = [sem_s EXCEPT ![x] = n]
  /\ UNCHANGED <<queue, cur, status, taskVars, due, locks, owner, need, hung>>

do_barrier_init(x, n) ==
  /\ cur # Idle
  /\ queue[SemQ(x)] = <<>>
  /\ busy' = [busy EXCEPT ![x] = TRUE]
  /\ sem_s' = [sem_s EXCEPT ![x] = n]
  /\ need' = [need EXCEPT ![x] = n]
  /\ UNCHANGED <<queue, cur, status, taskVars, due, locks, owner, hung>>

\* Block the current task in slot x.
Wait(x) == do_scheduler(list_add_tail(queue, SemQ(x), cur),
                        SetStatus(status, {cur}, "BLOCKED"), pid)

\* Split the waiters of slot x into the tasks made ready and those that stay.
Release(x, woken, rest) ==
  /\ queue' = [queue EXCEPT ![SemQ(x)] = rest, ![ReadyQ] = @ \o woken]
  /\ status' = SetStatus(status, Range(woken), "READY")
  /\ UNCHANGED cur

\* Make the n first waiters of slot x ready; variant: the n last ones.
WakeLast(x, n) ==
  LET q == queue[SemQ(x)]  k == Len(q) - n
  IN  Release(x, SubSeq(q, k + 1, Len(q)), SubSeq(q, 1, k))
Wake(x, n) ==
  LET q == queue[SemQ(x)]
  IN  Release(x, SubSeq(q, 1, n), SubSeq(q, n + 1, Len(q)))

Down(x) == \/ /\ sem_s[x] > 0
              /\ sem_s' = [sem_s EXCEPT ![x] = @ - 1]
              /\ UNCHANGED <<queue, cur, status>>
           \/ /\ sem_s[x] <= 0
              /\ Wait(x)
              /\ UNCHANGED sem_s

\* Variant: s is incremented although the unit goes to a waiter.
UpTwice(x) == /\ Wake(x, IF queue[SemQ(x)] = <<>> THEN 0 ELSE 1)
              /\ sem_s' = [sem_s EXCEPT ![x] = @ + 1]

Up(x) == \/ /\ queue[SemQ(x)] # <<>>
            /\ Wake(x, 1)
            /\ UNCHANGED sem_s
         \/ /\ queue[SemQ(x)] = <<>>
            /\ sem_s' = [sem_s EXCEPT ![x] = @ + 1]
            /\ UNCHANGED <<queue, cur, status>>

do_sem_down(x) ==
  /\ cur # Idle /\ busy[x]
  /\ Down(x)
  /\ UNCHANGED <<taskVars, due, busy, owner, need, locks, hung>>

do_sem_up(x) ==
  /\ cur # Idle /\ busy[x]
  /\ queue[SemQ(x)] = <<>> => sem_s[x] < MaxUnits
  /\ Up(x)
  /\ UNCHANGED <<taskVars, due, busy, owner, need, locks, hung>>

do_sem_destroy(x) ==
  /\ cur # Idle /\ busy[x]
  /\ Wake(x, Len(queue[SemQ(x)]))
  /\ busy' = [busy EXCEPT ![x] = FALSE]
  /\ UNCHANGED <<taskVars, due, sem_s, owner, need, locks, hung>>

\* The record in lock[] is written first, whether or not the lock is free.
do_mutex_lock_acquire(x) ==
  /\ cur # Idle /\ busy[x]
  /\ Len(locks[cur]) < MaxLock
  /\ locks' = [locks EXCEPT ![cur] = Append(@, x)]
  /\ Down(x)
  /\ owner' = IF sem_s[x] > 0 THEN [owner EXCEPT ![x] = @ \cup {cur}] ELSE owner
  /\ UNCHANGED <<taskVars, due, busy, need, hung>>

\* lock_num is decremented: the record that goes is the last one written.
do_mutex_lock_release(x) ==
  /\ cur # Idle /\ busy[x]
  /\ \E i \in DOMAIN locks[cur] : locks[cur][i] = x
  /\ locks[cur][Len(locks[cur])] # x => "unlockOther" \in Misuse
  /\ locks' = [locks EXCEPT ![cur] = SubSeq(@, 1, Len(@) - 1)]
  /\ Up(x)
  /\ owner' = [owner EXCEPT ![x] = (@ \ {cur}) \cup
                                   {queue[SemQ(x)][i] : i \in DOMAIN queue[SemQ(x)] \cap {1}}]
  /\ UNCHANGED <<taskVars, due, busy, need, hung>>

\* The last task to arrive makes the others ready and restores s.  Variant: it
\* is taken for the last one too early.
LastEarly(x) == sem_s[x] <= 2
Last(x) == sem_s[x] <= 1

Restored(x) == sem_s[x] + Len(queue[SemQ(x)])

do_barrier_wait(x) ==
  /\ cur # Idle /\ busy[x]
  /\ \/ /\ ~ Last(x)
        /\ sem_s' = [sem_s EXCEPT ![x] = @ - 1]
        /\ Wait(x)
     \/ /\ Last(x)
        /\ sem_s' = [sem_s EXCEPT ![x] = Restored(x)]
        /\ Wake(x, Len(queue[SemQ(x)]))
  /\ UNCHANGED <<taskVars, due, busy, owner, need, locks, hung>>

-----------------------------------------------------------------------------
\* main: hart 0 idles, the shell is the only task and is ready.
Init ==
  /\ cur = Idle
  /\ queue = [x \in QName |-> IF x = ReadyQ THEN <<Shell>> ELSE <<>>]
  /\ status = [t \in Task |-> IF t = Shell THEN "READY" ELSE "BLOCKED"]
  /\ pid = [t \in Task |-> IF t = Shell THEN 1 ELSE 0]
  /\ mode = [t \in Task |-> "zombie"]
  /\ tid_mem = [t \in Task |-> 0]
  /\ due = [t \in Task |-> 0]
  /\ locks = [t \in Task |-> <<>>]
  /\ process_num = 1 /\ thread_id = 1
  /\ sem_s = [x \in Slot |-> 0]
  /\ busy = [x \in Slot |-> FALSE]
  /\ owner = [x \in Mutex |-> {}]
  /\ need = [x \in Barrier |-> 0]
  /\ hung = FALSE

TaskCall == \/ Yield
            \/ \E d \in 0 .. MaxSleep : do_sleep(d)
            \/ \E m \in Modes : do_exec(m)
            \/ do_mthread_create
            \/ do_exit
            \/ \E p \in Proc : do_waitpid(p)
            \/ \E p \in Proc, thread \in BOOLEAN : do_kill(p, thread)

SlotCall == \/ \E x \in Mutex \cup Sema, n \in Counts : do_sem_init(x, n)
            \/ \E x \in Barrier, n \in Counts : do_barrier_init(x, n)
            \/ \E x \in Sema : do_sem_up(x) \/ do_sem_down(x)
            \/ \E x \in Sema \cup Barrier : do_sem_destroy(x)
            \/ \E x \in Mutex : do_mutex_lock_acquire(x) \/ do_mutex_lock_release(x)
            \/ \E x \in Barrier : do_barrier_wait(x)

Next == ~ hung /\ (reset_irq_timer \/ TaskCall \/ SlotCall)

Spec == Init /\ [][Next]_vars

\* The timer is armed again by every interrupt, and interrupts are enabled
\* whenever a task or the idle loop runs: the next one always comes.
FairSpec == Spec /\ WF_vars(~ hung /\ reset_irq_timer)
-----------------------------------------------------------------------------
(* Properties. *)

TypeOK ==
  /\ queue \in [QName -> Seq(Task)]
  /\ cur \in Task \cup {Idle}
  /\ status \in [Task -> Status]
  /\ pid \in [Task -> 0 .. NumTask]
  /\ mode \in [Task -> {"auto", "zombie", "junk"}]
  /\ tid_mem \in [Task -> {0} \cup Thread]
  /\ due \in [Task -> 0 .. MaxSleep]
  /\ locks \in [Task -> Seq(Mutex)]
  /\ process_num \in 1 .. NumTask + 1 /\ thread_id \in 1 .. NumTcb + 2
  /\ sem_s \in [Slot -> Nat]
  /\ busy \in [Slot -> BOOLEAN]
  /\ owner \in [Mutex -> SUBSET Task]
  /\ need \in [Barrier -> Nat]
  /\ hung \in BOOLEAN

\* A pcb has one `list' node, so it is linked into at most one list, once.
\* Each list_add_tail of the kernel relies on it: adding a node that is still
\* linked would cut the list it is in.
Linked(q) == \A x \in QName : /\ IsInjective(q[x])
                             /\ \A y \in QName \ {x} : Range(q[x]) \cap Range(q[y]) = {}
LinkedOnce == Linked(queue)

\* The status field and the list a task is in agree: do_kill unlinks its victim,
\* and the wait-list loops of do_kill and do_exit end, only because they do.
Matches(q, st) == \A x \in QName : \A t \in Range(q[x]) :
                    st[t] = IF x = ReadyQ THEN "READY" ELSE "BLOCKED"
StatusMatchesQueue == /\ Matches(queue, status)
                      /\ \A t \in Task : status[t] = "RUNNING" <=> t = cur

\* No task is lost: one that is alive runs or is in some list, from where
\* something can still make it run.
NoneLost ==
  \A t \in Task : Created(t) /\ ~ Dead(t) /\ t # cur =>
     \E x \in QName : t \in Range(queue[x])

\* No handler spins for ever or faults while it holds the kernel lock, or writes
\* past pcb[] or tcb[].  The shell relies on it: a kill that finds no target `is not running'
\* (test_shell.c:112), and `exit' is one of its commands (test_shell.c:114).
KernelResponsive == ~ hung

\* do_exit leaves nobody behind in the wait_list of a task that exits, and nobody
\* can join it later, because the pid that do_waitpid would look for is gone.
\* Of killed tasks it is false: they keep their pid, and waitpid finds them.
ExitedHasNoWaiters == \A t \in Task : pid[t] = 0 => queue[WaitQ(t)] = <<>>

\* A task that was killed or has exited never runs again.
NoResurrection ==
  [][\A t \in Task : Dead(t) => Dead(t)' /\ cur' # t]_vars

\* Tasks leave a list in the order in which they joined it: one that overtakes
\* has been killed, or slept for a shorter time.
NoOvertaking ==
  [][\A x \in QName \ {TimerQ} : \A i, j \in DOMAIN queue[x] :
       i < j /\ queue[x][j] \notin Range(queue'[x]) /\ queue[x][i] \in Range(queue'[x])
       => status'[queue[x][j]] = "EXITED"]_vars

\* At most one task is between locking a mutex and unlocking it.
MutualExclusion ==
  \A x \in Mutex : \A t, u \in owner[x] : t = u

\* do_kill releases every lock its victim held.
KilledHoldNothing ==
  \A t \in Task : status[t] = "EXITED" /\ pid[t] # 0 =>
     \A x \in Mutex : t \notin owner[x]

\* A barrier opens for everybody at once, and only when the last of its tasks
\* arrives (or when it is destroyed).
BarrierTogether ==
  [][\A x \in Barrier :
       (\E t \in Range(queue[SemQ(x)]) :
           t \notin Range(queue'[SemQ(x)]) /\ status'[t] = "READY")
       => /\ queue'[SemQ(x)] = <<>>
          /\ busy'[x] => Len(queue[SemQ(x)]) = need[x] - 1]_vars

\* Round robin: a ready task runs (or is killed) whatever the others do.
ReadyTasksRun ==
  \A t \in Task : t \in Range(queue[ReadyQ]) ~> t \notin Range(queue[ReadyQ])

\* A sleeping task is woken (or killed).
SleepersWake ==
  \A t \in Task : t \in Range(queue[TimerQ]) ~> t \notin Range(queue[TimerQ])

=============================================================================
