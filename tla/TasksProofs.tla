---------------------------- MODULE TasksProofs ----------------------------
(***************************************************************************)
(* The queues, the locks and the barriers of module Tasks, for any number  *)
(* of tasks, slots and locks.                                              *)
(*                                                                         *)
(* Whatever the programs do (Misuse included), a task's list node is never *)
(* linked twice, its status tells where it is, nobody is lost or revived,  *)
(* and who stays in a list is served in order.  IInv is inductive: the     *)
(* queues are well formed, exactly the current task is RUNNING, a pcb that *)
(* was not handed out yet is nowhere, and a live task is somewhere.  Every *)
(* handler changes the lists by a few moves; each has a lemma that says it *)
(* keeps QueuesOK, and do_scheduler, the last step of most handlers, has   *)
(* one too.                                                                *)
(*                                                                         *)
(* What do_kill releases it finds in lock[], so the theorems on mutexes    *)
(* exclude the calls that make these records wrong (killWaiter and         *)
(* unlockOther), and the one on barriers the killing of a waiter.          *)
(***************************************************************************)
EXTENDS Tasks, ListsTheorems

QueuesOK(q, st) ==
  /\ q \in [QName -> NoDup(Task)]
  /\ st \in [Task -> Status]
  /\ \A x, y \in QName : x # y => Range(q[x]) \cap Range(q[y]) = {}
  /\ Matches(q, st)

\* The tasks that run or are in some list.
InSome(q, t) == \E x \in QName : t \in Range(q[x])
Present(q, c) == {t \in Task : t = c \/ InSome(q, t)}

\* The current task, and only it, is RUNNING.
RunsOnly(st, c) ==
  /\ c \in Task \cup {Idle}
  /\ \A t \in Task : st[t] = "RUNNING" <=> t = c

OthersTyped ==
  /\ pid \in [Task -> 0 .. NumTask]
  /\ mode \in [Task -> {"auto", "zombie", "junk"}]
  /\ tid_mem \in [Task -> {0} \cup Thread]
  /\ due \in [Task -> 0 .. MaxSleep]
  /\ locks \in [Task -> Seq(Mutex)]
  /\ process_num \in 1 .. NumTask + 1 /\ thread_id \in 1 .. NumTcb + 2
  /\ hung \/ (process_num \in Proc /\ thread_id \in 1 .. NumTcb + 1)
  /\ sem_s \in [Slot -> Nat]
  /\ busy \in [Slot -> BOOLEAN]
  /\ owner \in [Mutex -> SUBSET Task]
  /\ need \in [Barrier -> Nat]
  /\ hung \in BOOLEAN

\* A task that was handed out and is not dead runs or is in some list; any other
\* does not run and is in no list.
Whereabouts ==
  \A t \in Task : /\ t \in Present(queue, cur) <=> Created(t) /\ ~ Dead(t)
                  /\ Dead(t) => Created(t)
                  /\ pid[t] # 0 => Created(t)
                  /\ \A u \in Task : tid_mem[u] = t => Created(t)

Discipline == QueuesOK(queue, status) /\ RunsOnly(status, cur) /\ Whereabouts

\* What no step undoes: the dead stay dead.
Buried == \A t \in Task : Dead(t) => Dead(t)'

IInv == Discipline /\ OthersTyped

-----------------------------------------------------------------------------
(* Names. *)

\* The heads of the lists are all different.
LEMMA Names ==
  /\ ReadyQ \in QName /\ TimerQ \in QName /\ TimerQ # ReadyQ
  /\ \A t \in Task : WaitQ(t) \in QName /\ WaitQ(t) # ReadyQ /\ WaitQ(t) # TimerQ
  /\ \A x \in Slot : /\ SemQ(x) \in QName /\ SemQ(x) # ReadyQ /\ SemQ(x) # TimerQ
                     /\ \A t \in Task : SemQ(x) # WaitQ(t)
  /\ Idle \notin Task /\ Shell \in Proc
<1>1. \A t \in Task : t \in Int /\ t > 0  BY ConstantsOK DEF Task
<1>2. \A x \in Slot : x \notin Int  BY ConstantsOK
<1>3. /\ ReadyQ \in QName /\ TimerQ \in QName
      /\ \A t \in Task : WaitQ(t) \in QName
      /\ \A x \in Slot : SemQ(x) \in QName
  BY DEF QName
<1>4. TimerQ # ReadyQ  BY DEF TimerQ, ReadyQ
<1>5. \A t \in Task : WaitQ(t) # ReadyQ /\ WaitQ(t) # TimerQ
  BY <1>1 DEF WaitQ, ReadyQ, TimerQ
<1>6. \A x \in Slot : /\ SemQ(x) # ReadyQ /\ SemQ(x) # TimerQ
                      /\ \A t \in Task : SemQ(x) # WaitQ(t)
  BY <1>1, <1>2 DEF SemQ, WaitQ, ReadyQ, TimerQ
<1>7. Idle \notin Task /\ Shell \in Proc
  BY <1>1, ConstantsOK DEF Idle, Shell, Proc
<1>. QED  BY <1>3, <1>4, <1>5, <1>6, <1>7

\* The invariant contains the properties the runs check.
LEMMA IInvImplies == IInv => TypeOK /\ LinkedOnce /\ StatusMatchesQueue /\ NoneLost
<1>. SUFFICES ASSUME IInv  PROVE TypeOK /\ LinkedOnce /\ StatusMatchesQueue /\ NoneLost
  OBVIOUS
<1>. USE DEF IInv, Discipline, QueuesOK, RunsOnly
<1>1. queue \in [QName -> Seq(Task)] /\ \A x \in QName : IsInjective(queue[x])
  BY DEF NoDup
<1>2. TypeOK  BY <1>1 DEF OthersTyped, TypeOK
<1>3. LinkedOnce  BY <1>1 DEF LinkedOnce, Linked
<1>4. StatusMatchesQueue  BY DEF StatusMatchesQueue
<1>5. NoneLost  BY DEF NoneLost, Whereabouts, Present, InSome
<1>. QED  BY <1>2, <1>3, <1>4, <1>5

-----------------------------------------------------------------------------
(* Moves. *)

\* Taking tasks out of lists.
LEMMA Shrink ==
  ASSUME NEW q, NEW st, QueuesOK(q, st), NEW q1 \in [QName -> NoDup(Task)],
         \A x \in QName : Range(q1[x]) \subseteq Range(q[x])
  PROVE  /\ QueuesOK(q1, st)
         /\ \A t : InSome(q1, t) => InSome(q, t)
BY DEF QueuesOK, InSome, Matches

\* Changing the status of tasks that are in no list.
LEMMA Unqueued ==
  ASSUME NEW q, NEW st, QueuesOK(q, st), NEW S \in SUBSET Task, NEW v \in Status,
         \A t \in S : ~ InSome(q, t)
  PROVE  QueuesOK(q, SetStatus(st, S, v))
<1>1. SetStatus(st, S, v) \in [Task -> Status]  BY DEF QueuesOK, SetStatus
<1>2. ASSUME NEW x \in QName, NEW t \in Range(q[x])
      PROVE  SetStatus(st, S, v)[t] = st[t]
  <2>1. t \in Task  BY RangeOfSeq DEF QueuesOK, NoDup
  <2>2. t \notin S  BY DEF InSome
  <2>. QED  BY <2>1, <2>2 DEF SetStatus
<1>. QED  BY <1>1, <1>2 DEF QueuesOK, Matches

\* Joining a list, with the status that goes with it.
LEMMA Join ==
  ASSUME NEW q, NEW st, QueuesOK(q, st), NEW x \in QName, NEW t \in Task, ~ InSome(q, t)
  PROVE  /\ QueuesOK(list_add_tail(q, x, t),
                     SetStatus(st, {t}, IF x = ReadyQ THEN "READY" ELSE "BLOCKED"))
         /\ \A u : InSome(list_add_tail(q, x, t), u) <=> u = t \/ InSome(q, u)
<1>. DEFINE q1 == list_add_tail(q, x, t)
            s1 == SetStatus(st, {t}, IF x = ReadyQ THEN "READY" ELSE "BLOCKED")
<1>1. q[x] \in NoDup(Task) /\ t \notin Range(q[x])  BY DEF QueuesOK, InSome
<1>2. /\ Append(q[x], t) \in NoDup(Task)
      /\ Range(Append(q[x], t)) = Range(q[x]) \cup {t}
  BY <1>1, AppendNew
<1>3. /\ q1 \in [QName -> NoDup(Task)]
      /\ Range(q1[x]) = Range(q[x]) \cup {t}
      /\ \A y \in QName \ {x} : q1[y] = q[y]
  BY <1>2 DEF list_add_tail, QueuesOK
<1>4. s1 \in [Task -> Status]  BY DEF QueuesOK, SetStatus, Status
<1>5. \A y \in QName : t \notin Range(q[y])  BY DEF InSome
<1>6. \A y, z \in QName : y # z => Range(q1[y]) \cap Range(q1[z]) = {}
  BY <1>3, <1>5 DEF QueuesOK
<1>7. Matches(q1, s1)
  <2>. SUFFICES ASSUME NEW y \in QName, NEW u \in Range(q1[y])
                PROVE  s1[u] = IF y = ReadyQ THEN "READY" ELSE "BLOCKED"
    BY DEF Matches
  <2>1. u \in Task  BY <1>3, RangeOfSeq DEF NoDup
  <2>2. CASE u = t
    <3>1. y = x  BY <1>3, <1>5, <2>2
    <3>. QED  BY <2>2, <3>1 DEF SetStatus
  <2>3. CASE u # t
    <3>1. u \in Range(q[y])  BY <1>3, <2>3
    <3>2. s1[u] = st[u]  BY <2>1, <2>3 DEF SetStatus
    <3>. QED  BY <3>1, <3>2 DEF QueuesOK, Matches
  <2>. QED  BY <2>2, <2>3
<1>8. \A u : InSome(q1, u) <=> u = t \/ InSome(q, u)  BY <1>3 DEF InSome
<1>. QED  BY <1>3, <1>4, <1>6, <1>7, <1>8 DEF QueuesOK

\* A task that is in no list joins ready_queue.
LEMMA JoinReady ==
  ASSUME NEW q, NEW st, QueuesOK(q, st), NEW t \in Task, ~ InSome(q, t)
  PROVE  /\ QueuesOK(list_add_tail(q, ReadyQ, t), SetStatus(st, {t}, "READY"))
         /\ \A u : InSome(list_add_tail(q, ReadyQ, t), u) <=> u = t \/ InSome(q, u)
<1>1. PICK x \in QName : x = ReadyQ  BY Names
<1>2. (IF x = ReadyQ THEN "READY" ELSE "BLOCKED") = "READY"  BY <1>1
<1>3. /\ QueuesOK(list_add_tail(q, x, t),
                  SetStatus(st, {t}, IF x = ReadyQ THEN "READY" ELSE "BLOCKED"))
      /\ \A u : InSome(list_add_tail(q, x, t), u) <=> u = t \/ InSome(q, u)
  BY Join
<1>. QED  BY <1>1, <1>2, <1>3

\* Moving tasks from other lists to ready_queue.
LEMMA MakeReady ==
  ASSUME NEW q, NEW st, QueuesOK(q, st), NEW q1 \in [QName -> NoDup(Task)],
         NEW W \in SUBSET Task,
         Range(q1[ReadyQ]) = Range(q[ReadyQ]) \cup W,
         \A x \in QName \ {ReadyQ} : Range(q1[x]) = Range(q[x]) \ W,
         \A t \in W : \E x \in QName \ {ReadyQ} : t \in Range(q[x])
  PROVE  /\ QueuesOK(q1, SetStatus(st, W, "READY"))
         /\ \A t : InSome(q1, t) <=> InSome(q, t)
<1>. DEFINE s1 == SetStatus(st, W, "READY")
<1>1. s1 \in [Task -> Status]  BY DEF QueuesOK, SetStatus, Status
<1>2. \A t \in Task : s1[t] = IF t \in W THEN "READY" ELSE st[t]  BY DEF SetStatus
<1>3. ASSUME NEW x \in QName, NEW y \in QName, x # y
      PROVE  Range(q1[x]) \cap Range(q1[y]) = {}
  <2>1. \A z \in QName \ {ReadyQ} : Range(q1[ReadyQ]) \cap Range(q1[z]) = {}
    BY Names DEF QueuesOK
  <2>2. CASE x # ReadyQ /\ y # ReadyQ  BY <1>3, <2>2 DEF QueuesOK
  <2>. QED  BY <1>3, <2>1, <2>2
<1>4. Matches(q1, s1)
  <2>. SUFFICES ASSUME NEW x \in QName, NEW t \in Range(q1[x])
                PROVE  s1[t] = IF x = ReadyQ THEN "READY" ELSE "BLOCKED"
    BY DEF Matches
  <2>1. t \in Task  BY RangeOfSeq DEF NoDup
  <2>2. CASE x = ReadyQ  BY <1>2, <2>1, <2>2, Names DEF QueuesOK, Matches
  <2>3. CASE x # ReadyQ  BY <1>2, <2>1, <2>3 DEF QueuesOK, Matches
  <2>. QED  BY <2>2, <2>3
<1>5. \A t : InSome(q1, t) <=> InSome(q, t)
  <2>1. ReadyQ \in QName  BY Names
  <2>. QED  BY <2>1 DEF InSome
<1>. QED  BY <1>1, <1>3, <1>4, <1>5 DEF QueuesOK

\* list_del takes a task out of every list, whether or not it is in one.
LEMMA Leave ==
  ASSUME NEW q, NEW st, QueuesOK(q, st), NEW t \in Task
  PROVE  /\ QueuesOK(list_del(q, t), st)
         /\ ~ InSome(list_del(q, t), t)
         /\ \A x \in QName : Range(list_del(q, t)[x]) = Range(q[x]) \ {t}
         /\ \A u : InSome(list_del(q, t), u) <=> InSome(q, u) /\ u # t
<1>. DEFINE q1 == list_del(q, t)
<1>1. ASSUME NEW x \in QName
      PROVE  q1[x] \in NoDup(Task) /\ Range(q1[x]) = Range(q[x]) \ {t}
  <2>1. q[x] \in NoDup(Task)  BY DEF QueuesOK
  <2>2. CASE t \in Range(q[x])
    <3>1. q1[x] = Without(q[x], t)  BY <2>2 DEF list_del
    <3>. QED  BY <2>1, <2>2, <3>1, WithoutOne
  <2>3. CASE t \notin Range(q[x])
    <3>1. q1[x] = q[x]  BY <2>3 DEF list_del
    <3>. QED  BY <2>1, <2>3, <3>1
  <2>. QED  BY <2>2, <2>3
<1>2. q1 \in [QName -> NoDup(Task)]  BY <1>1 DEF list_del
<1>. HIDE DEF q1
<1>3. QueuesOK(q1, st)  BY <1>1, <1>2, Shrink
<1>4. \A u : InSome(q1, u) <=> InSome(q, u) /\ u # t  BY <1>1 DEF InSome
<1>. QED  BY <1>1, <1>3, <1>4 DEF q1

\* do_scheduler, entered with well-formed lists q and status fields st: the
\* task it is called by is in no list unless it has stopped, and stays among
\* the tasks that run or are in some list unless it has stopped or has no pid.
LEMMA Scheduled ==
  ASSUME NEW q, NEW st, NEW p, QueuesOK(q, st), cur \in Task \cup {Idle},
         \A t \in Task : st[t] = "RUNNING" => t = cur,
         cur # Idle /\ st[cur] \notin Stopped => ~ InSome(q, cur),
         do_scheduler(q, st, p)
  PROVE  /\ QueuesOK(queue', status')
         /\ RunsOnly(status', cur')
         /\ \A x \in QName \ {ReadyQ} : queue'[x] = q[x]
         /\ \A t \in Task : t \in Present(queue', cur') <=>
               InSome(q, t) \/ (t = cur /\ st[t] \notin Stopped /\ p[t] # 0)
         /\ \A t \in Task : InSome(q, t) \/ (t = cur /\ st[t] \notin Stopped)
                            \/ status'[t] = st[t]
<1>. DEFINE q1 == Requeued(q, st, p)
            s1 == Preempted(st)
            Puts == cur # Idle /\ st[cur] \notin Stopped /\ p[cur] # 0
<1>1. /\ s1 \in [Task -> Status]
      /\ \A t \in Task : s1[t] = IF t = cur /\ st[t] \notin Stopped THEN "READY" ELSE st[t]
  BY Names DEF Preempted, SetStatus, QueuesOK, Status
<1>2. \A t \in Task : s1[t] # "RUNNING"
  BY <1>1 DEF Stopped
<1>3. QueuesOK(q1, s1) /\ \A t : InSome(q1, t) <=> InSome(q, t) \/ (Puts /\ t = cur)
  <2>1. CASE Puts
    <3>1. q1 = list_add_tail(q, ReadyQ, cur)  BY <2>1 DEF Requeued
    <3>2. s1 = SetStatus(st, {cur}, "READY")
      BY <2>1, Names DEF Preempted, SetStatus
    <3>3. cur \in Task /\ ~ InSome(q, cur)  BY <2>1
    <3>. HIDE DEF q1, s1
    <3>. QED  BY <2>1, <3>1, <3>2, <3>3, JoinReady
  <2>2. CASE ~ Puts
    <3>1. q1 = q  BY <2>2 DEF Requeued
    <3>2. CASE cur # Idle /\ st[cur] \notin Stopped
      <4>1. s1 = SetStatus(st, {cur}, "READY")
        BY <3>2, Names DEF Preempted, SetStatus
      <4>2. \A t \in {cur} : ~ InSome(q, t)  BY <3>2
      <4>3. {cur} \in SUBSET Task /\ "READY" \in Status  BY <3>2 DEF Status
      <4>. HIDE DEF q1, s1
      <4>. QED  BY <2>2, <3>1, <4>1, <4>2, <4>3, Unqueued
    <3>3. CASE ~ (cur # Idle /\ st[cur] \notin Stopped)
      <4>1. \A t \in Task : s1[t] = st[t]  BY <1>1, <3>3, Names
      <4>2. s1 = st  BY <1>1, <4>1 DEF QueuesOK
      <4>. QED  BY <2>2, <3>1, <4>2
    <3>. QED  BY <3>2, <3>3
  <2>. QED  BY <2>1, <2>2
<1>4. \A x \in QName \ {ReadyQ} : q1[x] = q[x]
  BY DEF Requeued, list_add_tail
<1>5. \A t \in Task : InSome(q1, t) <=>
         InSome(q, t) \/ (t = cur /\ st[t] \notin Stopped /\ p[t] # 0)
  BY <1>3, Names
<1>6. CASE q1[ReadyQ] # <<>>
  <2>. DEFINE h  == Head(q1[ReadyQ])
              q2 == [x \in QName |-> IF x = ReadyQ THEN Tail(q1[x]) ELSE q1[x]]
              s2 == SetStatus(s1, {h}, "RUNNING")
  <2>1. cur' = h /\ queue' = q2 /\ status' = s2
    BY <1>6 DEF do_scheduler
  <2>. HIDE DEF q1, s1, Puts
  <2>2. q1[ReadyQ] \in NoDup(Task)  BY <1>3, Names DEF QueuesOK
  <2>3. /\ h \in Task /\ h \in Range(q1[ReadyQ])
        /\ Tail(q1[ReadyQ]) \in NoDup(Task)
        /\ Range(Tail(q1[ReadyQ])) = Range(q1[ReadyQ]) \ {h}
    BY <1>6, <2>2, TakeHead
  <2>. HIDE DEF h
  <2>4. /\ q2 \in [QName -> NoDup(Task)]
        /\ Range(q2[ReadyQ]) = Range(q1[ReadyQ]) \ {h}
        /\ \A x \in QName \ {ReadyQ} : q2[x] = q1[x]
    BY <1>3, <2>3, Names DEF QueuesOK
  <2>. HIDE DEF q2
  <2>5. QueuesOK(q2, s1)  BY <1>3, <2>4, Shrink
  <2>6. \A t : InSome(q2, t) <=> InSome(q1, t) /\ t # h
    BY <1>3, <2>3, <2>4, Names DEF InSome, QueuesOK
  <2>7. QueuesOK(q2, s2)
    <3>1. {h} \in SUBSET Task /\ "RUNNING" \in Status  BY <2>3 DEF Status
    <3>. QED  BY <2>5, <2>6, <3>1, Unqueued
  <2>8. \A t \in Task : s2[t] = IF t = h THEN "RUNNING" ELSE s1[t]
    BY DEF SetStatus
  <2>. HIDE DEF s2
  <2>9. InSome(q1, h)  BY <2>3, Names DEF InSome
  <2>10. \A t \in Task : t \in Present(q2, h) <=> InSome(q1, t)
    BY <2>6, <2>9 DEF Present
  <2>11. \A t \in Task : InSome(q, t) \/ (t = cur /\ st[t] \notin Stopped) \/ s2[t] = st[t]
    BY <1>1, <1>5, <2>8, <2>9
  <2>12. RunsOnly(s2, h)  BY <1>2, <2>3, <2>8 DEF RunsOnly
  <2>. QED  BY <1>4, <1>5, <2>1, <2>4, <2>7, <2>10, <2>11, <2>12
<1>7. CASE q1[ReadyQ] = <<>>
  <2>1. cur' = Idle /\ queue' = q1 /\ status' = s1  BY <1>7 DEF do_scheduler
  <2>. HIDE DEF q1, s1, Puts
  <2>2. RunsOnly(s1, Idle)  BY <1>2, Names DEF RunsOnly
  <2>3. \A t \in Task : t \in Present(q1, Idle) <=> InSome(q1, t)  BY Names DEF Present
  <2>4. \A t \in Task : (t = cur /\ st[t] \notin Stopped) \/ s1[t] = st[t]  BY <1>1
  <2>. QED  BY <1>3, <1>4, <1>5, <2>1, <2>2, <2>3, <2>4
<1>. QED  BY <1>6, <1>7

-----------------------------------------------------------------------------
(* do_kill: the waiters its victim's locks go to. *)

\* The entries of rec for one slot are numbered from 1 by Nth, without gaps or
\* repetitions, up to Uses.
LEMMA Entries ==
  ASSUME NEW rec \in Seq(Mutex)
  PROVE  /\ \A i \in DOMAIN rec : /\ Nth(rec, i) \in Nat \ {0}
                                  /\ Nth(rec, i) <= Uses(rec, SemQ(rec[i]))
         /\ \A i, j \in DOMAIN rec : rec[i] = rec[j] /\ Nth(rec, i) = Nth(rec, j) => i = j
         /\ \A x : Uses(rec, x) \in Nat
         /\ \A x : \A k \in 1 .. Uses(rec, SemQ(x)) :
              \E i \in DOMAIN rec : rec[i] = x /\ Nth(rec, i) = k
<1>. Len(rec) \in Nat /\ DOMAIN rec = 1 .. Len(rec)  BY LenProperties
<1>. DEFINE I(x) == {j \in DOMAIN rec : rec[j] = x}
<1>1. \A x : I(x) \in SUBSET (1 .. Len(rec))  OBVIOUS
<1>2. ASSUME NEW x
      PROVE  /\ IsFiniteSet(I(x)) /\ Cardinality(I(x)) \in Nat
             /\ \A i \in I(x) : Rank(I(x), i) \in 1 .. Cardinality(I(x))
             /\ \A i, j \in I(x) : i < j => Rank(I(x), i) < Rank(I(x), j)
             /\ \A k \in 1 .. Cardinality(I(x)) : \E i \in I(x) : Rank(I(x), i) = k
  <2>. HIDE DEF I
  <2>. QED  BY <1>1, RankBijection
<1>3. \A x : Uses(rec, x) = Cardinality(I(x))
  BY DEF Uses, SemQ
<1>4. ASSUME NEW i \in DOMAIN rec  PROVE Nth(rec, i) = Rank(I(rec[i]), i)
  <2>1. {j \in 1 .. i : rec[j] = rec[i]} = {j \in I(rec[i]) : j <= i}
    OBVIOUS
  <2>. QED  BY <2>1 DEF Nth, Rank
<1>5. \A i \in DOMAIN rec : i \in I(rec[i])  OBVIOUS
<1>6. \A i, j \in DOMAIN rec : rec[i] = rec[j] => j \in I(rec[i])  OBVIOUS
<1>9. \A x : \A i \in I(x) : i \in DOMAIN rec /\ rec[i] = x  OBVIOUS
<1>. HIDE DEF I
<1>7. \A i \in DOMAIN rec : /\ Nth(rec, i) \in Nat \ {0}
                            /\ Nth(rec, i) <= Uses(rec, SemQ(rec[i]))
  BY <1>2, <1>3, <1>4, <1>5 DEF SemQ
<1>8. ASSUME NEW i \in DOMAIN rec, NEW j \in DOMAIN rec,
             rec[i] = rec[j], Nth(rec, i) = Nth(rec, j)
      PROVE  i = j
  <2>1. i \in I(rec[i]) /\ j \in I(rec[i])  BY <1>5, <1>6, <1>8
  <2>2. Rank(I(rec[i]), i) = Rank(I(rec[i]), j)  BY <1>4, <1>8
  <2>3. Rank(I(rec[i]), i) \in Int /\ Rank(I(rec[i]), j) \in Int  BY <1>2, <2>1
  <2>4. ~ (i < j) /\ ~ (j < i)  BY <1>2, <2>1, <2>2, <2>3
  <2>. QED  BY <2>4
<1>10. ASSUME NEW x, NEW k \in 1 .. Uses(rec, SemQ(x))
       PROVE  \E i \in DOMAIN rec : rec[i] = x /\ Nth(rec, i) = k
  <2>1. k \in 1 .. Cardinality(I(x))  BY <1>3 DEF SemQ
  <2>2. PICK i \in I(x) : Rank(I(x), i) = k  BY <1>2, <2>1
  <2>. QED  BY <1>4, <1>9, <2>2
<1>. QED  BY <1>2, <1>3, <1>7, <1>8, <1>10

\* Every lock of the victim goes to the next waiter of its slot: no task gets
\* two, and the ones served are the first in their slots.
LEMMA GrantedTo ==
  ASSUME NEW q, NEW st, QueuesOK(q, st), NEW rec \in Seq(Mutex)
  PROVE  /\ Granted(q, rec) \in NoDup(Task)
         /\ \A t : t \in Range(Granted(q, rec)) <=>
              \E x \in Mutex : \E k \in 1 .. Len(q[SemQ(x)]) :
                 k <= Uses(rec, SemQ(x)) /\ t = q[SemQ(x)][k]
<1>. Len(rec) \in Nat /\ DOMAIN rec = 1 .. Len(rec)  BY LenProperties
<1>. DEFINE I == Grants(q, rec)
            e(k) == Enum(I)[k]
<1>1. I \in SUBSET (1 .. Len(rec))  BY DEF Grants
<1>. HIDE DEF I
<1>2. /\ Cardinality(I) \in Nat
      /\ \A k \in 1 .. Cardinality(I) : e(k) \in I /\ Rank(I, e(k)) = k
      /\ \A i \in I : \E k \in 1 .. Cardinality(I) : e(k) = i
  BY <1>1, EnumProperties
<1>. HIDE DEF e
<1>3. ASSUME NEW i \in I
      PROVE  /\ i \in DOMAIN rec /\ rec[i] \in Mutex /\ SemQ(rec[i]) \in QName
             /\ q[SemQ(rec[i])] \in NoDup(Task)
             /\ Len(q[SemQ(rec[i])]) \in Nat
             /\ DOMAIN q[SemQ(rec[i])] = 1 .. Len(q[SemQ(rec[i])])
             /\ Nth(rec, i) \in 1 .. Len(q[SemQ(rec[i])])
             /\ Nth(rec, i) <= Uses(rec, SemQ(rec[i]))
             /\ q[SemQ(rec[i])][Nth(rec, i)] \in Task
  <2>1. i \in DOMAIN rec /\ Nth(rec, i) <= Len(q[SemQ(rec[i])])  BY <1>1 DEF I, Grants
  <2>2. rec[i] \in Mutex /\ rec[i] \in Slot  BY <2>1, ElementOfSeq DEF Slot
  <2>3. q[SemQ(rec[i])] \in NoDup(Task)  BY <2>2, Names DEF QueuesOK
  <2>4. /\ Len(q[SemQ(rec[i])]) \in Nat
        /\ DOMAIN q[SemQ(rec[i])] = 1 .. Len(q[SemQ(rec[i])])
    BY <2>3, LenProperties DEF NoDup
  <2>5. Nth(rec, i) \in 1 .. Len(q[SemQ(rec[i])])  BY <2>1, <2>4, Entries
  <2>6. q[SemQ(rec[i])][Nth(rec, i)] \in Task
    BY <2>3, <2>5, ElementOfSeq DEF NoDup
  <2>. QED  BY <2>1, <2>2, <2>3, <2>4, <2>5, <2>6, Names, Entries
<1>4. /\ DOMAIN Granted(q, rec) = 1 .. Cardinality(I)
      /\ \A k \in 1 .. Cardinality(I) :
            Granted(q, rec)[k] = q[SemQ(rec[e(k)])][Nth(rec, e(k))]
  BY DEF Granted, I, e
<1>5. Granted(q, rec) \in Seq(Task)
  <2>1. \A k \in 1 .. Cardinality(I) : Granted(q, rec)[k] \in Task  BY <1>2, <1>3, <1>4
  <2>2. Granted(q, rec) \in [1 .. Cardinality(I) -> Task]
    BY <1>4, <2>1 DEF Granted, I
  <2>. QED  BY <1>2, <2>2, SeqDef
<1>6. ASSUME NEW k \in 1 .. Cardinality(I), NEW l \in 1 .. Cardinality(I),
             Granted(q, rec)[k] = Granted(q, rec)[l]
      PROVE  k = l
  <2>. DEFINE i == e(k)
              j == e(l)
  <2>1. i \in I /\ j \in I /\ Rank(I, i) = k /\ Rank(I, j) = l  BY <1>2
  <2>2. q[SemQ(rec[i])][Nth(rec, i)] = q[SemQ(rec[j])][Nth(rec, j)]  BY <1>4, <1>6
  <2>. HIDE DEF i, j
  <2>3. SemQ(rec[i]) = SemQ(rec[j])
    <3>1. /\ q[SemQ(rec[i])][Nth(rec, i)] \in Range(q[SemQ(rec[i])])
          /\ q[SemQ(rec[j])][Nth(rec, j)] \in Range(q[SemQ(rec[j])])
      BY <1>3, <2>1 DEF Range
    <3>. QED  BY <1>3, <2>1, <2>2, <3>1 DEF QueuesOK
  <2>4. Nth(rec, i) = Nth(rec, j)
    BY <1>3, <2>1, <2>2, <2>3 DEF NoDup, IsInjective
  <2>5. i = j  BY <1>3, <2>1, <2>3, <2>4, Entries DEF SemQ
  <2>. QED  BY <2>1, <2>5
<1>7. IsInjective(Granted(q, rec))  BY <1>4, <1>6 DEF IsInjective
<1>8. ASSUME NEW t \in Range(Granted(q, rec))
      PROVE  \E x \in Mutex : \E k \in 1 .. Len(q[SemQ(x)]) :
                 k <= Uses(rec, SemQ(x)) /\ t = q[SemQ(x)][k]
  <2>1. PICK k \in 1 .. Cardinality(I) : t = Granted(q, rec)[k]  BY <1>4 DEF Range
  <2>. QED  BY <1>2, <1>3, <1>4, <2>1
<1>9. ASSUME NEW x \in Mutex, NEW n \in 1 .. Len(q[SemQ(x)]), n <= Uses(rec, SemQ(x))
      PROVE  q[SemQ(x)][n] \in Range(Granted(q, rec))
  <2>1. q[SemQ(x)] \in Seq(Task)  BY Names DEF Slot, QueuesOK, NoDup
  <2>2. Len(q[SemQ(x)]) \in Nat  BY <2>1, LenProperties
  <2>3. n \in 1 .. Uses(rec, SemQ(x)) /\ n <= Len(q[SemQ(x)])  BY <1>9, <2>2, Entries
  <2>4. PICK i \in DOMAIN rec : rec[i] = x /\ Nth(rec, i) = n  BY <2>3, Entries
  <2>5. i \in I  BY <2>3, <2>4 DEF I, Grants
  <2>6. PICK k \in 1 .. Cardinality(I) : e(k) = i  BY <1>2, <2>5
  <2>7. Granted(q, rec)[k] = q[SemQ(x)][n]  BY <1>4, <2>4, <2>6
  <2>. QED  BY <1>4, <2>7 DEF Range
<1>. QED  BY <1>5, <1>7, <1>8, <1>9 DEF NoDup

-----------------------------------------------------------------------------
(* What the handlers share. *)

\* The task that makes a system call is RUNNING and in no list.
LEMMA Caller ==
  ASSUME Discipline, cur # Idle
  PROVE  cur \in Task /\ status[cur] = "RUNNING" /\ ~ InSome(queue, cur)
<1>1. cur \in Task /\ status[cur] = "RUNNING"  BY DEF Discipline, RunsOnly
<1>. QED  BY <1>1 DEF Discipline, QueuesOK, InSome, Matches

\* A task in a list, or the running one, has not ended.
LEMMA PresentLive ==
  ASSUME NEW q, NEW st, NEW c, QueuesOK(q, st), RunsOnly(st, c), NEW t \in Present(q, c)
  PROVE  t \in Task /\ st[t] \notin {"ZOMBIE", "EXITED"}
BY DEF Present, InSome, QueuesOK, Matches, RunsOnly

\* The tasks in V leave the lists and are dead, the others stay where they are.
LEMMA Settled ==
  ASSUME Discipline, QueuesOK(queue', status'), RunsOnly(status', cur'),
         UNCHANGED <<tid_mem, process_num, thread_id>>,
         NEW V \in SUBSET Task, \A t \in V : Created(t) /\ Dead(t)',
         \A t \in Task : t \in Present(queue', cur') <=> t \in Present(queue, cur) /\ t \notin V,
         \A t \in Task \ V : pid'[t] = pid[t],
         \A t \in Task \ V : t \in Present(queue, cur) \/ status'[t] = status[t]
  PROVE  Discipline' /\ Buried
<1>1. \A t : Created(t) <=> Created(t)'  BY DEF Created
<1>2. ASSUME NEW t \in Task
      PROVE  /\ t \in Present(queue', cur') <=> Created(t)' /\ ~ Dead(t)'
             /\ Dead(t)' => Created(t)'
             /\ pid'[t] # 0 => Created(t)'
             /\ \A u \in Task : tid_mem'[u] = t => Created(t)'
  <2>1. \A u \in Task : tid_mem'[u] = t => Created(t)'
    BY <1>1 DEF Discipline, Whereabouts
  <2>2. CASE t \in V  BY <1>1, <2>1, <2>2
  <2>3. CASE t \notin V /\ t \in Present(queue, cur)
    <3>1. pid[t] # 0 /\ Created(t)  BY <2>3 DEF Discipline, Whereabouts, Dead
    <3>2. status'[t] \notin {"ZOMBIE", "EXITED"}  BY <2>3, PresentLive
    <3>3. ~ Dead(t)'  BY <2>3, <3>1, <3>2 DEF Dead
    <3>. QED  BY <1>1, <2>1, <2>3, <3>1, <3>3
  <2>4. CASE t \notin V /\ t \notin Present(queue, cur)
    <3>1. pid'[t] = pid[t] /\ status'[t] = status[t]  BY <2>4
    <3>2. Dead(t)' <=> Dead(t)  BY <1>1, <3>1 DEF Dead
    <3>. QED  BY <1>1, <2>1, <2>4, <3>1, <3>2 DEF Discipline, Whereabouts
  <2>. QED  BY <2>2, <2>3, <2>4
<1>3. Whereabouts'  BY <1>2 DEF Whereabouts
<1>4. ASSUME NEW t \in Task, Dead(t)  PROVE Dead(t)'
  <2>1. CASE t \notin V
    <3>1. t \notin Present(queue, cur)  BY <1>4 DEF Discipline, Whereabouts
    <3>2. pid'[t] = pid[t] /\ status'[t] = status[t]  BY <2>1, <3>1
    <3>. QED  BY <1>1, <1>4, <3>2 DEF Dead
  <2>. QED  BY <2>1
<1>. QED  BY <1>3, <1>4 DEF Discipline, Buried

\* A handler that ends in do_scheduler: its caller stays, or it stops for good.
LEMMA ScheduledKeeps ==
  ASSUME Discipline, NEW q, NEW st, NEW p, QueuesOK(q, st),
         \A t \in Task : st[t] = "RUNNING" => t = cur,
         cur # Idle /\ st[cur] \notin Stopped => ~ InSome(q, cur),
         \A t \in Task \ {cur} : InSome(q, t) <=> InSome(queue, t),
         \A t \in Task \ {cur} : InSome(queue, t) \/ st[t] = status[t],
         \A t \in Task \ {cur} : pid'[t] = pid[t],
         \/ cur = Idle
         \/ /\ pid'[cur] = pid[cur] /\ p[cur] = pid[cur]
            /\ InSome(q, cur) \/ st[cur] \notin Stopped
         \/ /\ ~ InSome(q, cur)
            /\ \/ pid'[cur] = 0 /\ p[cur] = 0
               \/ st[cur] \in {"ZOMBIE", "EXITED"},
         do_scheduler(q, st, p), UNCHANGED <<tid_mem, process_num, thread_id>>
  PROVE  Discipline' /\ Buried
<1>1. cur \in Task \cup {Idle}  BY DEF Discipline, RunsOnly
<1>2. /\ QueuesOK(queue', status') /\ RunsOnly(status', cur')
      /\ \A t \in Task : t \in Present(queue', cur') <=>
            InSome(q, t) \/ (t = cur /\ st[t] \notin Stopped /\ p[t] # 0)
      /\ \A t \in Task : InSome(q, t) \/ (t = cur /\ st[t] \notin Stopped)
                         \/ status'[t] = st[t]
  BY <1>1, Scheduled
<1>3. /\ \A t \in Task \ {cur} : t \in Present(queue', cur') <=> t \in Present(queue, cur)
      /\ \A t \in Task \ {cur} : t \in Present(queue, cur) \/ status'[t] = status[t]
  BY <1>2 DEF Present
<1>4. CASE cur = Idle
  <2>1. {} \in SUBSET Task /\ cur \notin Task  BY <1>4, Names
  <2>. QED  BY <1>2, <1>3, <2>1, Settled
<1>5. ASSUME cur \in Task
      PROVE  cur \in Present(queue, cur) /\ Created(cur) /\ pid[cur] # 0
  BY <1>5 DEF Present, Discipline, Whereabouts, Dead
<1>6. CASE cur \in Task /\ ~ InSome(q, cur)
           /\ ((pid'[cur] = 0 /\ p[cur] = 0) \/ st[cur] \in {"ZOMBIE", "EXITED"})
  <2>0. PICK c \in Task : c = cur  BY <1>6
  <2>1. c \notin Present(queue', cur')  BY <1>2, <1>6, <2>0 DEF Stopped
  <2>2. Dead(c)'
    <3>1. Created(c)'  BY <1>5, <1>6, <2>0 DEF Created
    <3>2. CASE pid'[c] = 0  BY <3>1, <3>2 DEF Dead
    <3>3. CASE st[c] \in {"ZOMBIE", "EXITED"}
      <4>1. status'[c] = st[c]  BY <1>2, <1>6, <2>0, <3>3 DEF Stopped
      <4>. QED  BY <3>3, <4>1 DEF Dead
    <3>. QED  BY <1>6, <2>0, <3>2, <3>3
  <2>. DEFINE V == {c}
  <2>3. V \in SUBSET Task /\ \A t \in V : Created(t) /\ Dead(t)'  BY <1>5, <2>0, <2>2
  <2>4. /\ \A t \in Task : t \in Present(queue', cur') <=> t \in Present(queue, cur) /\ t \notin V
        /\ \A t \in Task \ V : pid'[t] = pid[t]
        /\ \A t \in Task \ V : t \in Present(queue, cur) \/ status'[t] = status[t]
    BY <1>3, <2>0, <2>1
  <2>. HIDE DEF V
  <2>. QED  BY <1>2, <2>3, <2>4, Settled
<1>7. CASE cur \in Task /\ pid'[cur] = pid[cur] /\ p[cur] = pid[cur]
           /\ (InSome(q, cur) \/ st[cur] \notin Stopped)
  <2>1. cur \in Present(queue', cur')  BY <1>2, <1>5, <1>7
  <2>. DEFINE V == {}
  <2>2. V \in SUBSET Task /\ \A t \in V : Created(t) /\ Dead(t)'  OBVIOUS
  <2>3. /\ \A t \in Task : t \in Present(queue', cur') <=> t \in Present(queue, cur) /\ t \notin V
        /\ \A t \in Task \ V : pid'[t] = pid[t]
        /\ \A t \in Task \ V : t \in Present(queue, cur) \/ status'[t] = status[t]
    BY <1>3, <1>5, <1>7, <2>1
  <2>. HIDE DEF V
  <2>. QED  BY <1>2, <2>2, <2>3, Settled
<1>. QED  BY <1>1, <1>4, <1>6, <1>7

\* A handler that blocks the current task in a list other than ready_queue.
LEMMA BlockKeeps ==
  ASSUME Discipline, cur # Idle, NEW q, QueuesOK(q, status), ~ InSome(q, cur),
         \A t : InSome(q, t) <=> InSome(queue, t),
         NEW x \in QName, x # ReadyQ,
         do_scheduler(list_add_tail(q, x, cur), SetStatus(status, {cur}, "BLOCKED"), pid),
         UNCHANGED <<pid, tid_mem, process_num, thread_id>>
  PROVE  Discipline' /\ Buried
<1>. DEFINE q1 == list_add_tail(q, x, cur)
            s1 == SetStatus(status, {cur}, "BLOCKED")
<1>1. cur \in Task  BY Caller
<1>2. s1 = SetStatus(status, {cur}, IF x = ReadyQ THEN "READY" ELSE "BLOCKED")
  OBVIOUS
<1>3. QueuesOK(q1, s1) /\ \A t : InSome(q1, t) <=> t = cur \/ InSome(q, t)
  <2>. HIDE DEF q1, s1
  <2>. QED  BY <1>1, <1>2, Join DEF q1
<1>4. /\ \A t \in Task : s1[t] = "RUNNING" => t = cur
      /\ \A t \in Task \ {cur} : s1[t] = status[t]
  BY DEF SetStatus, Discipline, RunsOnly
<1>5. s1[cur] \in Stopped  BY <1>1 DEF SetStatus, Stopped
<1>6. do_scheduler(q1, s1, pid)  OBVIOUS
<1>. HIDE DEF q1, s1
<1>. QED  BY <1>3, <1>4, <1>5, <1>6, ScheduledKeeps

\* A handler that makes tasks ready and goes on: they come out of other lists.
LEMMA ReadyKeeps ==
  ASSUME Discipline, NEW W \in SUBSET Task, queue' \in [QName -> NoDup(Task)],
         Range(queue'[ReadyQ]) = Range(queue[ReadyQ]) \cup W,
         \A x \in QName \ {ReadyQ} : Range(queue'[x]) = Range(queue[x]) \ W,
         \A t \in W : \E x \in QName \ {ReadyQ} : t \in Range(queue[x]),
         status' = SetStatus(status, W, "READY"),
         UNCHANGED <<cur, pid, tid_mem, process_num, thread_id>>
  PROVE  Discipline' /\ Buried
<1>1. QueuesOK(queue', status') /\ \A t : InSome(queue', t) <=> InSome(queue, t)
  BY MakeReady DEF Discipline
<1>2. \A t \in W : InSome(queue, t)  BY DEF InSome
<1>3. RunsOnly(status', cur')
  <2>1. \A t \in W : t # cur
    BY <1>2, Caller, Names
  <2>2. \A t \in Task : status'[t] = "RUNNING" <=> t = cur
    BY <2>1 DEF SetStatus, Discipline, RunsOnly
  <2>. QED  BY <2>2 DEF Discipline, RunsOnly
<1>4. \A t \in Task : t \in Present(queue', cur') <=> t \in Present(queue, cur)
  BY <1>1 DEF Present
<1>5. \A t \in Task : t \in Present(queue, cur) \/ status'[t] = status[t]
  BY <1>2 DEF Present, SetStatus
<1>6. {} \in SUBSET Task  OBVIOUS
<1>. QED  BY <1>1, <1>3, <1>4, <1>5, <1>6, Settled

\* Waking the n first waiters of a slot (lock.c).
LEMMA WakeKeeps ==
  ASSUME Discipline, NEW x \in Slot, NEW n \in 0 .. Len(queue[SemQ(x)]),
         Wake(x, n), UNCHANGED <<pid, tid_mem, process_num, thread_id>>
  PROVE  Discipline' /\ Buried
<1>. DEFINE s == queue[SemQ(x)]
            a == SubSeq(s, 1, n)
            b == SubSeq(s, n + 1, Len(s))
<1>1. SemQ(x) \in QName /\ SemQ(x) # ReadyQ /\ ReadyQ \in QName  BY Names
<1>2. s \in NoDup(Task) /\ queue[ReadyQ] \in NoDup(Task)
      /\ queue \in [QName -> NoDup(Task)]
  BY <1>1 DEF Discipline, QueuesOK
<1>3. /\ a \in NoDup(Task) /\ b \in NoDup(Task)
      /\ Range(a) \cup Range(b) = Range(s) /\ Range(a) \cap Range(b) = {}
  BY <1>2, Split
<1>4. Range(a) \subseteq Task  BY <1>3, RangeOfSeq DEF NoDup
<1>5. /\ queue' = [queue EXCEPT ![SemQ(x)] = b, ![ReadyQ] = @ \o a]
      /\ status' = SetStatus(status, Range(a), "READY") /\ UNCHANGED cur
  BY DEF Wake, Release
<1>. HIDE DEF a, b
<1>6. Range(queue[ReadyQ]) \cap Range(a) = {}
  BY <1>1, <1>3 DEF Discipline, QueuesOK
<1>7. /\ queue[ReadyQ] \o a \in NoDup(Task)
      /\ Range(queue[ReadyQ] \o a) = Range(queue[ReadyQ]) \cup Range(a)
  BY <1>2, <1>3, <1>6, ConcatDisjoint
<1>8. /\ queue' \in [QName -> NoDup(Task)]
      /\ queue'[ReadyQ] = queue[ReadyQ] \o a /\ queue'[SemQ(x)] = b
      /\ \A y \in QName \ {ReadyQ, SemQ(x)} : queue'[y] = queue[y]
  BY <1>1, <1>2, <1>3, <1>5, <1>7
<1>9. \A y \in QName \ {ReadyQ} : Range(queue'[y]) = Range(queue[y]) \ Range(a)
  BY <1>1, <1>3, <1>8 DEF Discipline, QueuesOK
<1>10. \A t \in Range(a) : \E y \in QName \ {ReadyQ} : t \in Range(queue[y])
  BY <1>1, <1>3
<1>. QED  BY <1>4, <1>5, <1>7, <1>8, <1>9, <1>10, ReadyKeeps

-----------------------------------------------------------------------------
(* The initial state, and the steps one by one. *)

\* main leaves the shell ready and everything else untouched.
LEMMA InitOK == Init => IInv
<1>. SUFFICES ASSUME Init  PROVE IInv
  OBVIOUS
<1>1. 1 \in Task /\ Shell \in Task /\ Shell \in Proc /\ NumTcb \in Nat
  BY ConstantsOK DEF Shell, Task, Proc
<1>2. /\ <<Shell>> \in NoDup(Task) /\ <<>> \in NoDup(Task)
      /\ Range(<<Shell>>) = {Shell} /\ Range(<<>>) = {}
  BY <1>1 DEF NoDup, IsInjective, Range
<1>3. /\ queue \in [QName -> NoDup(Task)] /\ queue[ReadyQ] = <<Shell>>
      /\ \A x \in QName \ {ReadyQ} : queue[x] = <<>>
  BY <1>2, Names DEF Init
<1>4. status \in [Task -> Status] /\ status[Shell] = "READY"
      /\ \A t \in Task : status[t] # "RUNNING"
  BY <1>1 DEF Init, Status
<1>5. QueuesOK(queue, status)
  BY <1>2, <1>3, <1>4 DEF QueuesOK, Matches
<1>6. RunsOnly(status, cur)  BY <1>4, Names DEF RunsOnly, Init
<1>7. Whereabouts
  <2>1. \A t \in Task : t \in Present(queue, cur) <=> t = Shell
    BY <1>1, <1>2, <1>3, Names DEF Present, InSome, Init
  <2>2. \A t \in Task : Created(t) <=> t = Shell
    BY <1>1, ConstantsOK DEF Created, Init, Shell, Proc, Thread
  <2>3. \A t \in Task : Dead(t) => Created(t)  BY <1>1 DEF Dead, Init
  <2>4. ~ Dead(Shell)  BY <1>1, <1>4 DEF Dead, Init, Shell
  <2>5. /\ \A t \in Task : pid[t] # 0 => t = Shell
        /\ \A t, u \in Task : tid_mem[u] # t
    BY Names DEF Init, Idle
  <2>. QED  BY <2>1, <2>2, <2>3, <2>4, <2>5 DEF Whereabouts
<1>8. OthersTyped
  <2>1. /\ process_num \in Proc /\ thread_id \in 1 .. NumTcb + 1
        /\ process_num \in 1 .. NumTask + 1 /\ thread_id \in 1 .. NumTcb + 2
    BY <1>1, ConstantsOK DEF Init, Shell, Proc
  <2>2. pid \in [Task -> 0 .. NumTask] /\ due \in [Task -> 0 .. MaxSleep]
    BY ConstantsOK DEF Init
  <2>3. locks \in [Task -> Seq(Mutex)] /\ owner \in [Mutex -> SUBSET Task]
    BY DEF Init
  <2>4. mode \in [Task -> {"auto", "zombie", "junk"}] /\ tid_mem \in [Task -> {0} \cup Thread]
    BY DEF Init
  <2>5. /\ sem_s \in [Slot -> Nat] /\ busy \in [Slot -> BOOLEAN]
        /\ need \in [Barrier -> Nat] /\ hung \in BOOLEAN
    BY DEF Init
  <2>. QED  BY <2>1, <2>2, <2>3, <2>4, <2>5 DEF OthersTyped
<1>. QED  BY <1>5, <1>6, <1>7, <1>8 DEF IInv, Discipline

\* sys_yield.
LEMMA YieldKeeps == ASSUME IInv, Yield  PROVE IInv' /\ Buried
<1>1. Discipline /\ cur # Idle /\ do_scheduler(queue, status, pid)
  BY DEF IInv, Yield
<1>2. ~ InSome(queue, cur)  BY <1>1, Caller
<1>3. \A t \in Task : status[t] = "RUNNING" => t = cur  BY <1>1 DEF Discipline, RunsOnly
<1>4. QueuesOK(queue, status) /\ UNCHANGED <<pid, tid_mem, process_num, thread_id>>
  BY <1>1 DEF Yield, Discipline, taskVars
<1>5. status[cur] \notin Stopped  BY <1>1, Caller DEF Stopped
<1>7. Discipline' /\ Buried  BY <1>1, <1>2, <1>3, <1>4, <1>5, ScheduledKeeps
<1>6. OthersTyped'  BY DEF IInv, OthersTyped, Yield, taskVars, slotVars
<1>. QED  BY <1>6, <1>7 DEF IInv

\* do_sleep.
LEMMA SleepKeeps ==
  ASSUME IInv, NEW d \in 0 .. MaxSleep, do_sleep(d)
  PROVE  IInv' /\ Buried
<1>1. Discipline /\ cur # Idle  BY DEF IInv, do_sleep
<1>2. cur \in Task  BY <1>1, Caller
<1>. DEFINE q == list_del(queue, cur)
<1>3. /\ QueuesOK(q, status) /\ ~ InSome(q, cur)
      /\ \A t : InSome(q, t) <=> InSome(queue, t) /\ t # cur
  BY <1>1, <1>2, Leave DEF Discipline
<1>4. \A t : InSome(q, t) <=> InSome(queue, t)  BY <1>1, <1>3, Caller
<1>5. do_scheduler(list_add_tail(q, TimerQ, cur), SetStatus(status, {cur}, "BLOCKED"), pid)
  BY DEF do_sleep
<1>6. UNCHANGED <<pid, tid_mem, process_num, thread_id>>  BY DEF do_sleep, taskVars
<1>. HIDE DEF q
<1>7. Discipline' /\ Buried  BY <1>1, <1>3, <1>4, <1>5, <1>6, Names, BlockKeeps
<1>8. OthersTyped'  BY <1>2 DEF IInv, OthersTyped, do_sleep, taskVars, slotVars
<1>. QED  BY <1>7, <1>8 DEF IInv

\* What is written behind pcb[] or tcb[] ends the model, before any task of it is
\* touched.
LEMMA PastTheTable ==
  ASSUME IInv, ~ hung, WritesPast,
         \/ /\ process_num' = process_num + 1 /\ process_num + 1 \notin Proc
            /\ UNCHANGED thread_id
         \/ /\ thread_id' = thread_id + 1 /\ NumTask + thread_id \notin Thread
            /\ UNCHANGED process_num
  PROVE  IInv' /\ Buried
<1>1. /\ hung' = TRUE
      /\ UNCHANGED <<queue, cur, status, pid, mode, tid_mem, due, sem_s, busy, owner, need, locks>>
  BY DEF WritesPast, slotVars
<1>2. process_num \in Proc /\ thread_id \in 1 .. NumTcb + 1 /\ NumTask \in Nat /\ NumTcb \in Nat
  BY ConstantsOK DEF IInv, OthersTyped
<1>3. process_num' \in 1 .. NumTask + 1 /\ thread_id' \in 1 .. NumTcb + 2
  BY <1>2 DEF Proc
<1>4. \A t \in Task : Created(t)' <=> Created(t)
  BY <1>2 DEF Created, Proc, Thread
<1>5. OthersTyped'  BY <1>1, <1>3 DEF IInv, OthersTyped
<1>6. \A t \in Task : Dead(t)' <=> Dead(t)  BY <1>1, <1>4 DEF Dead
<1>7. Whereabouts'  BY <1>1, <1>4, <1>6 DEF IInv, Discipline, Whereabouts, Present, InSome
<1>8. Discipline'  BY <1>1, <1>7 DEF IInv, Discipline, QueuesOK, RunsOnly, Matches
<1>. QED  BY <1>5, <1>6, <1>8 DEF IInv, Buried

\* do_exec: the next pcb was never used, so its task is in no list.
LEMMA ExecInTable ==
  ASSUME IInv, NEW m \in Modes, do_exec(m), process_num + 1 \in Proc
  PROVE  IInv' /\ Buried
<1>0. PICK p \in Proc : p = process_num + 1  OBVIOUS
<1>1. /\ Discipline /\ cur # Idle /\ process_num \in Proc
      /\ process_num' = p /\ thread_id' = thread_id /\ cur' = cur
      /\ status' = [status EXCEPT ![p] = "READY"]
      /\ queue' = list_add_tail(queue, ReadyQ, p)
  BY <1>0, ConstantsOK DEF IInv, OthersTyped, do_exec, Proc
<1>2. p \in Task /\ Proc \subseteq Int /\ p \notin Thread /\ p > process_num
  BY <1>0, <1>1, ConstantsOK DEF Proc, Task, Thread
<1>3. p # cur /\ ~ InSome(queue, p)
  <2>1. ~ Created(p)  BY <1>1, <1>2 DEF Created
  <2>. QED  BY <1>2, <2>1 DEF IInv, Discipline, Whereabouts, Present
<1>4. status' = SetStatus(status, {p}, "READY")
  BY <1>1, <1>2 DEF SetStatus, Discipline, QueuesOK
<1>5. /\ QueuesOK(queue', status')
      /\ \A u : InSome(queue', u) <=> u = p \/ InSome(queue, u)
  <2>1. QueuesOK(queue, status)  BY <1>1 DEF Discipline
  <2>2. /\ QueuesOK(list_add_tail(queue, ReadyQ, p), SetStatus(status, {p}, "READY"))
        /\ \A u : InSome(list_add_tail(queue, ReadyQ, p), u) <=> u = p \/ InSome(queue, u)
    BY <1>2, <1>3, <2>1, JoinReady
  <2>. QED  BY <1>1, <1>4, <2>2
<1>6. RunsOnly(status', cur')
  <2>1. \A t \in Task : status'[t] = "RUNNING" <=> status[t] = "RUNNING"
    BY <1>2, <1>3, <1>4, Caller DEF SetStatus, IInv, Discipline, RunsOnly
  <2>. QED  BY <1>1, <2>1 DEF Discipline, RunsOnly
<1>7. Whereabouts'
  <2>1. \A t \in Task : Created(t)' <=> t = p \/ Created(t)
    BY <1>0, <1>1, <1>2 DEF Created
  <2>2. \A t \in Task : t \in Present(queue', cur') <=> t = p \/ t \in Present(queue, cur)
    BY <1>1, <1>2, <1>5 DEF Present
  <2>3. /\ pid' = [pid EXCEPT ![p] = p] /\ p # 0 /\ tid_mem' = tid_mem
        /\ pid \in [Task -> 0 .. NumTask] /\ status \in [Task -> Status]
    BY <1>0, <1>1, <1>2, ConstantsOK DEF do_exec, Proc, IInv, OthersTyped, Discipline, QueuesOK
  <2>4. ~ Dead(p)'  BY <1>1, <1>2, <2>3 DEF Dead
  <2>5. \A t \in Task \ {p} : Dead(t)' <=> Dead(t)  BY <1>1, <2>1, <2>3 DEF Dead
  <2>7. \A t \in Task : /\ t \in Present(queue, cur) <=> Created(t) /\ ~ Dead(t)
                        /\ Dead(t) => Created(t)
                        /\ pid[t] # 0 => Created(t)
                        /\ \A u \in Task : tid_mem[u] = t => Created(t)
    BY <1>1 DEF Discipline, Whereabouts
  <2>8. \A t \in Task : /\ t \in Present(queue', cur') <=> Created(t)' /\ ~ Dead(t)'
                        /\ Dead(t)' => Created(t)'
                        /\ pid'[t] # 0 => Created(t)'
    BY <2>1, <2>2, <2>3, <2>4, <2>5, <2>7
  <2>9. \A t, u \in Task : tid_mem'[u] = t => Created(t)'
    BY <2>1, <2>3, <2>7
  <2>. QED  BY <2>8, <2>9 DEF Whereabouts
<1>11. Buried
  <2>0. pid' = [pid EXCEPT ![p] = p]  BY <1>0 DEF do_exec
  <2>1. \A t \in Task \ {p} : pid'[t] = pid[t] /\ status'[t] = status[t]
    BY <1>1, <2>0 DEF IInv, OthersTyped, Discipline, QueuesOK
  <2>2. ~ Dead(p)  BY <1>1, <1>2 DEF Discipline, Whereabouts, Created
  <2>3. \A t \in Task : Created(t) => Created(t)'
    BY <1>0, <1>1, <1>2 DEF Created
  <2>. QED  BY <2>1, <2>2, <2>3 DEF Buried, Dead
<1>8. OthersTyped'
  <2>1. pid' = [pid EXCEPT ![p] = p] /\ p \in 0 .. NumTask
    BY <1>0, ConstantsOK DEF do_exec, Proc
  <2>2. mode' = [mode EXCEPT ![p] = m] /\ m \in {"auto", "zombie", "junk"}
    BY <1>0, ConstantsOK DEF do_exec
  <2>3. pid' \in [Task -> 0 .. NumTask] /\ mode' \in [Task -> {"auto", "zombie", "junk"}]
    BY <2>1, <2>2 DEF IInv, OthersTyped
  <2>4. /\ process_num' \in Proc /\ process_num' \in 1 .. NumTask + 1
        /\ UNCHANGED <<tid_mem, thread_id, due, sem_s, busy, owner, need, locks, hung>>
    BY <1>0, <1>1, ConstantsOK DEF do_exec, slotVars, Proc
  <2>. QED  BY <2>3, <2>4 DEF IInv, OthersTyped
<1>. QED  BY <1>5, <1>6, <1>7, <1>8, <1>11 DEF IInv, Discipline

LEMMA ExecKeeps ==
  ASSUME IInv, ~ hung, NEW m \in Modes, do_exec(m)
  PROVE  IInv' /\ Buried
<1>1. CASE process_num + 1 \in Proc  BY <1>1, ExecInTable
<1>2. CASE process_num + 1 \notin Proc  BY <1>2, PastTheTable DEF do_exec
<1>. QED  BY <1>1, <1>2

\* do_mthread_create: the same for the next tcb.
LEMMA MthreadInTable ==
  ASSUME IInv, do_mthread_create, NumTask + thread_id \in Thread
  PROVE  IInv' /\ Buried
<1>0. PICK n \in Thread : n = NumTask + thread_id  OBVIOUS
<1>1. /\ Discipline /\ cur # Idle /\ thread_id \in 1 .. NumTcb
      /\ thread_id' = thread_id + 1 /\ process_num' = process_num /\ cur' = cur
      /\ status' = [status EXCEPT ![n] = "READY"]
      /\ queue' = list_add_tail(queue, ReadyQ, n)
  BY <1>0, ConstantsOK DEF IInv, OthersTyped, do_mthread_create, Thread
<1>2. n \in Task /\ n \notin Proc /\ thread_id + 1 \in 1 .. NumTcb + 1
      /\ Thread \subseteq Task /\ Proc \subseteq Task
  BY <1>0, <1>1, ConstantsOK DEF Proc, Task, Thread
<1>3. n # cur /\ ~ InSome(queue, n)
  <2>1. ~ Created(n)  BY <1>0, <1>1, <1>2, ConstantsOK DEF Created
  <2>. QED  BY <1>2, <2>1 DEF IInv, Discipline, Whereabouts, Present
<1>4. \A t \in Task : Created(t)' <=> t = n \/ Created(t)
  BY <1>0, <1>1, <1>2, ConstantsOK DEF Created, Thread, Proc
<1>5. cur \in Task  BY <1>1, Caller
<1>6. OthersTyped'
  <2>1. /\ tid_mem' = [tid_mem EXCEPT ![cur] = n] /\ pid' = [pid EXCEPT ![n] = pid[cur]]
        /\ mode' = [mode EXCEPT ![n] = mode[cur]]
        /\ UNCHANGED <<due, sem_s, busy, owner, need, locks, hung>>
    BY <1>0 DEF do_mthread_create, slotVars
  <2>2. /\ pid' \in [Task -> 0 .. NumTask] /\ mode' \in [Task -> {"auto", "zombie", "junk"}]
        /\ tid_mem' \in [Task -> {0} \cup Thread]
    BY <1>0, <1>2, <1>5, <2>1 DEF IInv, OthersTyped
  <2>3. /\ thread_id' \in 1 .. NumTcb + 1 /\ thread_id' \in 1 .. NumTcb + 2
        /\ process_num' \in 1 .. NumTask + 1 /\ hung' = hung
        /\ hung \/ process_num' \in Proc
    BY <1>1, <1>2, <2>1, ConstantsOK DEF IInv, OthersTyped
  <2>. QED  BY <2>1, <2>2, <2>3 DEF IInv, OthersTyped
<1>7. status' = SetStatus(status, {n}, "READY")
  BY <1>1, <1>2 DEF SetStatus, Discipline, QueuesOK
<1>8. /\ QueuesOK(queue', status')
      /\ \A u : InSome(queue', u) <=> u = n \/ InSome(queue, u)
  <2>1. QueuesOK(queue, status)  BY <1>1 DEF Discipline
  <2>2. /\ QueuesOK(list_add_tail(queue, ReadyQ, n), SetStatus(status, {n}, "READY"))
        /\ \A u : InSome(list_add_tail(queue, ReadyQ, n), u) <=> u = n \/ InSome(queue, u)
    BY <1>2, <1>3, <2>1, JoinReady
  <2>. QED  BY <1>1, <1>7, <2>2
<1>9. RunsOnly(status', cur')
  <2>1. \A t \in Task : status'[t] = "RUNNING" <=> status[t] = "RUNNING"
    BY <1>2, <1>3, <1>7, Caller DEF SetStatus, IInv, Discipline, RunsOnly
  <2>. QED  BY <1>1, <2>1 DEF Discipline, RunsOnly
<1>10. Whereabouts'
  <2>1. \A t \in Task : t \in Present(queue', cur') <=> t = n \/ t \in Present(queue, cur)
    BY <1>1, <1>2, <1>8 DEF Present
  <2>2. /\ pid' = [pid EXCEPT ![n] = pid[cur]] /\ tid_mem' = [tid_mem EXCEPT ![cur] = n]
        /\ pid \in [Task -> 0 .. NumTask] /\ status \in [Task -> Status]
        /\ tid_mem \in [Task -> {0} \cup Thread]
    BY <1>0 DEF do_mthread_create, IInv, OthersTyped, Discipline, QueuesOK
  <2>3. pid[cur] # 0
    BY <1>1, <1>5 DEF Present, Discipline, Whereabouts, Dead
  <2>4. ~ Dead(n)'  BY <1>1, <1>2, <2>2, <2>3 DEF Dead
  <2>5. \A t \in Task \ {n} : Dead(t)' <=> Dead(t)  BY <1>1, <1>4, <2>2 DEF Dead
  <2>7. \A t \in Task : /\ t \in Present(queue, cur) <=> Created(t) /\ ~ Dead(t)
                        /\ Dead(t) => Created(t)
                        /\ pid[t] # 0 => Created(t)
                        /\ \A u \in Task : tid_mem[u] = t => Created(t)
    BY <1>1 DEF Discipline, Whereabouts
  <2>8. \A t \in Task : /\ t \in Present(queue', cur') <=> Created(t)' /\ ~ Dead(t)'
                        /\ Dead(t)' => Created(t)'
                        /\ pid'[t] # 0 => Created(t)'
    BY <1>4, <2>1, <2>2, <2>4, <2>5, <2>7
  <2>9. \A t, u \in Task : tid_mem'[u] = t => Created(t)'
    BY <1>2, <1>4, <2>2, <2>7
  <2>. QED  BY <2>8, <2>9 DEF Whereabouts
<1>11. Buried
  <2>0. pid' = [pid EXCEPT ![n] = pid[cur]]  BY <1>0 DEF do_mthread_create
  <2>1. \A t \in Task \ {n} : pid'[t] = pid[t] /\ status'[t] = status[t]
    BY <1>1, <2>0 DEF IInv, OthersTyped, Discipline, QueuesOK
  <2>2. ~ Created(n)  BY <1>0, <1>1, <1>2, ConstantsOK DEF Created
  <2>3. ~ Dead(n)  BY <1>1, <1>2, <2>2 DEF Discipline, Whereabouts
  <2>. QED  BY <1>4, <2>1, <2>3 DEF Buried, Dead
<1>. QED  BY <1>6, <1>8, <1>9, <1>10, <1>11 DEF IInv, Discipline

LEMMA MthreadCreateKeeps == ASSUME IInv, ~ hung, do_mthread_create  PROVE IInv' /\ Buried
<1>1. CASE NumTask + thread_id \in Thread  BY <1>1, MthreadInTable
<1>2. CASE NumTask + thread_id \notin Thread  BY <1>2, PastTheTable DEF do_mthread_create
<1>. QED  BY <1>1, <1>2

\* The timer interrupt: the sleepers that are woken leave `timers'.
LEMMA TimerKeeps == ASSUME IInv, reset_irq_timer  PROVE IInv' /\ Buried
<1>. DEFINE s == queue[TimerQ]
            I == Expired
            a == Pick(s, I)
            b == Pick(s, DOMAIN s \ I)
            q == [queue EXCEPT ![TimerQ] = b, ![ReadyQ] = @ \o a]
            s1 == SetStatus(status, Range(a), "READY")
<1>0. Discipline /\ QueuesOK(queue, status)  BY DEF IInv, Discipline
<1>1. s \in NoDup(Task) /\ queue[ReadyQ] \in NoDup(Task)
      /\ queue \in [QName -> NoDup(Task)]
  BY <1>0, Names DEF QueuesOK
<1>2. /\ do_scheduler(q, s1, pid) /\ UNCHANGED <<pid, tid_mem, process_num, thread_id>>
      /\ due' = [t \in Task |-> IF t \in Range(s) THEN Elapsed(t) ELSE due[t]]
  BY DEF reset_irq_timer, taskVars
<1>3. I \in SUBSET (DOMAIN s)  BY DEF Expired
<1>. HIDE DEF I
<1>4. /\ a \in NoDup(Task) /\ b \in NoDup(Task)
      /\ Range(a) \cup Range(b) = Range(s) /\ Range(a) \cap Range(b) = {}
  BY <1>1, <1>3, PickSplit
<1>. HIDE DEF a, b
<1>5. Range(queue[ReadyQ]) \cap Range(a) = {}
  BY <1>0, <1>4, Names DEF QueuesOK
<1>6. /\ queue[ReadyQ] \o a \in NoDup(Task)
      /\ Range(queue[ReadyQ] \o a) = Range(queue[ReadyQ]) \cup Range(a)
  BY <1>1, <1>4, <1>5, ConcatDisjoint
<1>7. /\ q \in [QName -> NoDup(Task)]
      /\ q[ReadyQ] = queue[ReadyQ] \o a /\ q[TimerQ] = b
      /\ \A x \in QName \ {ReadyQ, TimerQ} : q[x] = queue[x]
  BY <1>1, <1>4, <1>6, Names
<1>. HIDE DEF q
<1>8. Range(a) \in SUBSET Task  BY <1>4, RangeOfSeq DEF NoDup
<1>9. /\ \A x \in QName \ {ReadyQ} : Range(q[x]) = Range(queue[x]) \ Range(a)
      /\ \A t \in Range(a) : \E x \in QName \ {ReadyQ} : t \in Range(queue[x])
  BY <1>0, <1>4, <1>7, Names DEF QueuesOK
<1>10. QueuesOK(q, s1) /\ \A t : InSome(q, t) <=> InSome(queue, t)
  BY <1>0, <1>6, <1>7, <1>8, <1>9, MakeReady
<1>11. \A t \in Task : s1[t] = "RUNNING" => t = cur
  BY <1>0 DEF SetStatus, Discipline, RunsOnly
<1>12. cur # Idle => ~ InSome(q, cur)  BY <1>0, <1>10, Caller
<1>16. \A t \in Task : InSome(queue, t) \/ s1[t] = status[t]
  BY <1>9 DEF SetStatus, InSome
<1>17. cur # Idle => s1[cur] \notin Stopped
  BY <1>0, <1>10, <1>12, <1>16, Caller DEF Stopped
<1>. HIDE DEF s1
<1>13. Discipline' /\ Buried
  BY <1>0, <1>2, <1>10, <1>11, <1>12, <1>16, <1>17, ScheduledKeeps
<1>14. due' \in [Task -> 0 .. MaxSleep]
  <2>1. \A t \in Task : due[t] \in 0 .. MaxSleep  BY DEF IInv, OthersTyped
  <2>2. \A t \in Task : Elapsed(t) \in 0 .. MaxSleep  BY <2>1, ConstantsOK DEF Elapsed
  <2>. QED  BY <1>2, <2>1, <2>2
<1>15. OthersTyped'
  BY <1>14 DEF IInv, OthersTyped, reset_irq_timer, taskVars, slotVars
<1>. QED  BY <1>13, <1>15 DEF IInv

\* do_exit: the tasks of wait_list become ready, the caller is in no list.
LEMMA ExitKeeps == ASSUME IInv, do_exit  PROVE IInv' /\ Buried
<1>. DEFINE s     == queue[WaitQ(cur)]
            q     == [queue EXCEPT ![WaitQ(cur)] = <<>>, ![ReadyQ] = @ \o s]
            ended == CASE mode[cur] = "auto" -> "EXITED"
                       [] mode[cur] = "zombie" -> "ZOMBIE"
                       [] OTHER -> status[cur]
            s1    == SetStatus(status, Range(s), "READY")
            s2    == SetStatus(s1, {cur}, ended)
            pids  == [pid EXCEPT ![cur] = 0]
<1>0. Discipline /\ QueuesOK(queue, status) /\ cur # Idle
  BY DEF IInv, Discipline, do_exit
<1>1. cur \in Task /\ status[cur] = "RUNNING" /\ ~ InSome(queue, cur)
  BY <1>0, Caller
<1>2. CASE Hang
  BY <1>2 DEF Hang, taskVars, slotVars, IInv, Discipline, QueuesOK, Matches, RunsOnly,
              Whereabouts, Present, InSome, Created, Dead, OthersTyped, Buried
<1>3. CASE ~ Hang
  <2>1. /\ pid' = pids /\ do_scheduler(q, s2, pids)
        /\ UNCHANGED <<mode, tid_mem, process_num, thread_id, due, slotVars, hung>>
    BY <1>3 DEF do_exit
  <2>2. WaitQ(cur) \in QName /\ WaitQ(cur) # ReadyQ /\ ReadyQ \in QName  BY <1>1, Names
  <2>3. s \in NoDup(Task) /\ queue[ReadyQ] \in NoDup(Task)
        /\ queue \in [QName -> NoDup(Task)]
    BY <1>0, <2>2 DEF QueuesOK
  <2>4. Range(queue[ReadyQ]) \cap Range(s) = {}  BY <1>0, <2>2 DEF QueuesOK
  <2>5. /\ queue[ReadyQ] \o s \in NoDup(Task)
        /\ Range(queue[ReadyQ] \o s) = Range(queue[ReadyQ]) \cup Range(s)
    BY <2>3, <2>4, ConcatDisjoint
  <2>6. <<>> \in NoDup(Task) /\ Range(<<>>) = {}  BY DEF NoDup, IsInjective, Range
  <2>7. /\ q \in [QName -> NoDup(Task)]
        /\ q[ReadyQ] = queue[ReadyQ] \o s /\ q[WaitQ(cur)] = <<>>
        /\ \A x \in QName \ {ReadyQ, WaitQ(cur)} : q[x] = queue[x]
    BY <2>2, <2>3, <2>5, <2>6
  <2>8. Range(s) \in SUBSET Task  BY <2>3, RangeOfSeq DEF NoDup
  <2>9. ended \in Status
    BY <1>1 DEF Status
  <2>10. \A t \in Range(s) : \E x \in QName \ {ReadyQ} : t \in Range(queue[x])
    BY <2>2
  <2>. HIDE DEF q, s
  <2>11. \A x \in QName \ {ReadyQ} : Range(q[x]) = Range(queue[x]) \ Range(s)
    <3>1. \A x \in QName \ {ReadyQ, WaitQ(cur)} : Range(queue[x]) \cap Range(s) = {}
      BY <1>0, <2>2 DEF QueuesOK, s
    <3>2. Range(q[WaitQ(cur)]) = Range(queue[WaitQ(cur)]) \ Range(s)
      BY <2>6, <2>7 DEF s
    <3>. QED  BY <2>7, <3>1, <3>2
  <2>. HIDE DEF ended
  <2>12. QueuesOK(q, s1) /\ \A t : InSome(q, t) <=> InSome(queue, t)
    BY <1>0, <2>5, <2>7, <2>8, <2>10, <2>11, MakeReady
  <2>13. {cur} \in SUBSET Task /\ \A t \in {cur} : ~ InSome(q, t)
    BY <1>1, <2>12
  <2>. HIDE DEF s1
  <2>14. QueuesOK(q, s2)  BY <2>9, <2>12, <2>13, Unqueued
  <2>15. \A t \in Task : s2[t] = "RUNNING" => t = cur
    BY <1>0 DEF s1, SetStatus, Discipline, RunsOnly
  <2>19. \A t \in Task \ {cur} : InSome(queue, t) \/ s2[t] = status[t]
    BY <2>10 DEF s1, SetStatus, InSome
  <2>20. pid'[cur] = 0 /\ pids[cur] = 0 /\ \A t \in Task \ {cur} : pid'[t] = pid[t]
    BY <1>1, <2>1 DEF IInv, OthersTyped
  <2>. HIDE DEF s2, pids
  <2>16. Discipline' /\ Buried
    BY <1>0, <2>1, <2>12, <2>13, <2>14, <2>15, <2>19, <2>20, ScheduledKeeps
  <2>17. pid' \in [Task -> 0 .. NumTask]
    <3>1. pid \in [Task -> 0 .. NumTask]  BY DEF IInv, OthersTyped
    <3>2. 0 \in 0 .. NumTask  BY ConstantsOK
    <3>. QED  BY <2>1, <3>1, <3>2 DEF pids
  <2>18. OthersTyped'  BY <2>1, <2>17 DEF IInv, OthersTyped, slotVars
  <2>. QED  BY <2>16, <2>18 DEF IInv
<1>. QED  BY <1>2, <1>3

\* do_waitpid.
LEMMA WaitpidKeeps ==
  ASSUME IInv, NEW p \in Proc, do_waitpid(p)
  PROVE  IInv' /\ Buried
<1>1. Discipline /\ cur # Idle /\ QueuesOK(queue, status)
  BY DEF IInv, Discipline, do_waitpid
<1>2. ~ InSome(queue, cur)  BY <1>1, Caller
<1>3. p \in Task  BY ConstantsOK DEF Proc, Task
<1>4. WaitQ(p) \in QName /\ WaitQ(p) # ReadyQ  BY <1>3, Names
<1>5. /\ do_scheduler(list_add_tail(queue, WaitQ(p), cur),
                     SetStatus(status, {cur}, "BLOCKED"), pid)
      /\ UNCHANGED <<pid, tid_mem, process_num, thread_id>>
  BY DEF do_waitpid, taskVars
<1>6. Discipline' /\ Buried  BY <1>1, <1>2, <1>4, <1>5, BlockKeeps
<1>7. OthersTyped'  BY DEF IInv, OthersTyped, do_waitpid, taskVars, slotVars
<1>. QED  BY <1>6, <1>7 DEF IInv

\* The lists and the status fields that do_kill on v leaves to do_scheduler, or
\* to the victim's killer.
AfterKill(v) ==
  LET q   == Unlinked(v)
      rec == Records(v)
  IN  [x \in QName |-> CASE x = ReadyQ -> q[x] \o Granted(q, rec) \o q[WaitQ(v)]
                         [] x = WaitQ(v) -> <<>>
                         [] OTHER -> SubSeq(q[x], Uses(rec, x) + 1, Len(q[x]))]
Freed(v) == Range(Granted(Unlinked(v), Records(v))) \cup Range(Unlinked(v)[WaitQ(v)])
StatusAfterKill(v) == SetStatus(SetStatus(status, Freed(v), "READY"), {v}, "EXITED")

\* The victim is unlinked.  When it runs it is in no list; otherwise its status
\* tells that list_del has to unlink it.
LEMMA Unlinks ==
  ASSUME QueuesOK(queue, status), NEW v \in Task
  PROVE  /\ QueuesOK(Unlinked(v), status)
         /\ \A t : InSome(Unlinked(v), t) <=> InSome(queue, t) /\ t # v
         /\ \A x \in QName : Range(Unlinked(v)[x]) = Range(queue[x]) \ {v}
<1>1. CASE status[v] \in {"READY", "BLOCKED"}
  <2>1. Unlinked(v) = list_del(queue, v)  BY <1>1 DEF Unlinked
  <2>2. /\ QueuesOK(list_del(queue, v), status)
        /\ \A x \in QName : Range(list_del(queue, v)[x]) = Range(queue[x]) \ {v}
        /\ \A t : InSome(list_del(queue, v), t) <=> InSome(queue, t) /\ t # v
    BY Leave
  <2>. QED  BY <2>1, <2>2
<1>2. CASE status[v] \notin {"READY", "BLOCKED"}
  <2>1. Unlinked(v) = queue  BY <1>2 DEF Unlinked
  <2>2. \A x \in QName : v \notin Range(queue[x])  BY <1>2 DEF QueuesOK, Matches
  <2>. QED  BY <2>1, <2>2 DEF InSome
<1>. QED  BY <1>1, <1>2

\* Whom do_kill makes ready, and what it leaves in the lists.
LEMMA KillMoves ==
  ASSUME QueuesOK(queue, status), NEW v \in Task, locks[v] \in Seq(Mutex)
  PROVE  /\ QueuesOK(AfterKill(v), StatusAfterKill(v))
         /\ \A t : InSome(AfterKill(v), t) <=> InSome(queue, t) /\ t # v
         /\ \A t \in Freed(v) : t \in Task /\ t # v /\ InSome(queue, t)
<1>. DEFINE q   == Unlinked(v)
            rec == Records(v)
            g   == Granted(q, rec)
            w   == q[WaitQ(v)]
            W   == Freed(v)
            q1  == AfterKill(v)
            s1  == SetStatus(status, W, "READY")
<1>1. /\ QueuesOK(q, status) /\ \A t : InSome(q, t) <=> InSome(queue, t) /\ t # v
      /\ \A x \in QName : Range(q[x]) = Range(queue[x]) \ {v}
  BY Unlinks
<1>2. rec \in Seq(Mutex)  BY DEF Records
<1>3. W = Range(g) \cup Range(w)  BY DEF Freed
<1>4. /\ q1 = [x \in QName |-> CASE x = ReadyQ -> q[x] \o g \o w
                                 [] x = WaitQ(v) -> <<>>
                                 [] OTHER -> SubSeq(q[x], Uses(rec, x) + 1, Len(q[x]))]
  BY DEF AfterKill
<1>. HIDE DEF q, rec, W, q1
<1>5. /\ WaitQ(v) \in QName /\ WaitQ(v) # ReadyQ /\ ReadyQ \in QName
      /\ \A x \in Mutex : SemQ(x) \in QName /\ SemQ(x) # ReadyQ /\ SemQ(x) # WaitQ(v)
  BY Names DEF Slot
<1>6. /\ q \in [QName -> NoDup(Task)] /\ w \in NoDup(Task) /\ q[ReadyQ] \in NoDup(Task)
      /\ \A x, y \in QName : x # y => Range(q[x]) \cap Range(q[y]) = {}
  BY <1>1, <1>5 DEF QueuesOK
<1>7. /\ g \in NoDup(Task)
      /\ \A t : t \in Range(g) <=> \E x \in Mutex : \E k \in 1 .. Len(q[SemQ(x)]) :
            k <= Uses(rec, SemQ(x)) /\ t = q[SemQ(x)][k]
  BY <1>1, <1>2, GrantedTo
<1>. HIDE DEF g
<1>8. \A x \in QName : /\ q[x] \in Seq(Task) /\ Len(q[x]) \in Nat /\ DOMAIN q[x] = 1 .. Len(q[x])
                       /\ Uses(rec, x) \in Nat
  BY <1>2, <1>6, LenProperties, Entries DEF NoDup
<1>9. \A t \in Range(g) : \E x \in QName \ {ReadyQ, WaitQ(v)} : t \in Range(q[x])
  <2>. TAKE t \in Range(g)
  <2>1. PICK x \in Mutex : \E k \in 1 .. Len(q[SemQ(x)]) : t = q[SemQ(x)][k]  BY <1>7
  <2>2. SemQ(x) \in QName \ {ReadyQ, WaitQ(v)}  BY <1>5
  <2>3. t \in Range(q[SemQ(x)])  BY <1>8, <2>1, <2>2 DEF Range
  <2>. QED  BY <2>2, <2>3
<1>10. /\ Range(g) \cap Range(w) = {} /\ Range(q[ReadyQ]) \cap Range(g) = {}
       /\ Range(q[ReadyQ]) \cap Range(w) = {}
  BY <1>5, <1>6, <1>9
<1>11. /\ q[ReadyQ] \o g \in NoDup(Task)
       /\ Range(q[ReadyQ] \o g) = Range(q[ReadyQ]) \cup Range(g)
  BY <1>6, <1>7, <1>10, ConcatDisjoint
<1>12. /\ q[ReadyQ] \o g \o w \in NoDup(Task)
       /\ Range(q[ReadyQ] \o g \o w) = Range(q[ReadyQ]) \cup W
  <2>1. Range(q[ReadyQ] \o g) \cap Range(w) = {}  BY <1>10, <1>11
  <2>2. /\ (q[ReadyQ] \o g) \o w \in NoDup(Task)
        /\ Range((q[ReadyQ] \o g) \o w) = Range(q[ReadyQ] \o g) \cup Range(w)
    BY <1>6, <1>11, <2>1, ConcatDisjoint
  <2>. QED  BY <1>3, <1>11, <2>2
<1>13. ASSUME NEW x \in QName \ {ReadyQ, WaitQ(v)}
       PROVE  LET r == SubSeq(q[x], Uses(rec, x) + 1, Len(q[x]))
              IN  r \in NoDup(Task) /\ Range(r) = Range(q[x]) \ W
  <2>. DEFINE m == Uses(rec, x) + 1
              n == Len(q[x])
              r == SubSeq(q[x], m, n)
  <2>1. q[x] \in NoDup(Task) /\ n \in Nat /\ DOMAIN q[x] = 1 .. n /\ Uses(rec, x) \in Nat
    BY <1>6, <1>8
  <2>2. m \in Int /\ n \in Int /\ 1 <= m /\ n <= Len(q[x])  BY <2>1
  <2>3. r \in NoDup(Task) /\ \A e : e \in Range(r) <=> \E i \in m .. n : e = q[x][i]
    <3>. HIDE DEF m, n
    <3>. QED  BY <2>1, <2>2, Piece
  <2>. HIDE DEF r
  <2>4. \A e : e \in Range(q[x]) <=> \E i \in 1 .. n : e = q[x][i]  BY <2>1 DEF Range
  <2>5. \A i, j \in 1 .. n : q[x][i] = q[x][j] => i = j  BY <2>1 DEF NoDup, IsInjective
  <2>6. \A e \in Range(q[x]) : e \notin Range(w)  BY <1>5, <1>6
  <2>7. \A i \in 1 .. n : q[x][i] \in Range(g) <=> i < m
    <3>. SUFFICES ASSUME NEW i \in 1 .. n  PROVE q[x][i] \in Range(g) <=> i < m
      OBVIOUS
    <3>1. ASSUME q[x][i] \in Range(g)  PROVE i < m
      <4>0. PICK y \in Mutex : \E k \in 1 .. Len(q[SemQ(y)]) :
                   k <= Uses(rec, SemQ(y)) /\ q[x][i] = q[SemQ(y)][k]
        BY <1>7, <3>1
      <4>1. PICK k \in 1 .. Len(q[SemQ(y)]) :
                   k <= Uses(rec, SemQ(y)) /\ q[x][i] = q[SemQ(y)][k]
        BY <4>0
      <4>2. q[x][i] \in Range(q[SemQ(y)])  BY <1>5, <1>8, <4>1 DEF Range
      <4>3. SemQ(y) = x  BY <1>5, <1>6, <2>4, <4>2
      <4>4. k = i  BY <2>5, <4>1, <4>3
      <4>. QED  BY <2>1, <4>1, <4>3, <4>4
    <3>2. ASSUME i < m  PROVE q[x][i] \in Range(g)
      <4>1. i <= Uses(rec, x)  BY <2>1, <3>2
      <4>2. PICK j \in DOMAIN rec : SemQ(rec[j]) = x
        <5>1. Uses(rec, x) # 0  BY <2>1, <4>1
        <5>2. Uses(rec, x) # Cardinality({})  BY <5>1, FS_EmptySet
        <5>. QED  BY <5>2 DEF Uses
      <4>3. rec[j] \in Mutex  BY <1>2, ElementOfSeq, LenProperties
      <4>. QED  BY <1>7, <4>1, <4>2, <4>3
    <3>. QED  BY <3>1, <3>2
  <2>8. \A i \in 1 .. n : i \in m .. n <=> ~ (i < m)  BY <2>1
  <2>9. \A i \in m .. n : i \in 1 .. n  BY <2>1
  <2>. HIDE DEF m, n
  <2>10. \A e : e \in Range(r) <=> e \in Range(q[x]) /\ e \notin Range(g)
    BY <2>3, <2>4, <2>7, <2>8, <2>9
  <2>11. Range(r) = Range(q[x]) \ W  BY <1>3, <2>6, <2>10
  <2>. QED  BY <2>3, <2>11 DEF r, m, n
<1>14. <<>> \in NoDup(Task) /\ Range(<<>>) = {}  BY DEF NoDup, IsInjective, Range
<1>15. /\ q1 \in [QName -> NoDup(Task)]
       /\ Range(q1[ReadyQ]) = Range(q[ReadyQ]) \cup W
       /\ \A x \in QName \ {ReadyQ} : Range(q1[x]) = Range(q[x]) \ W
  <2>1. q1[ReadyQ] = q[ReadyQ] \o g \o w  BY <1>4, <1>5
  <2>2. q1[WaitQ(v)] = <<>>  BY <1>4, <1>5
  <2>3. \A x \in QName \ {ReadyQ, WaitQ(v)} :
           q1[x] = SubSeq(q[x], Uses(rec, x) + 1, Len(q[x]))
    BY <1>4
  <2>4. \A x \in QName \ {ReadyQ, WaitQ(v)} :
           q1[x] \in NoDup(Task) /\ Range(q1[x]) = Range(q[x]) \ W
    BY <1>13, <2>3
  <2>5. Range(q[WaitQ(v)]) \ W = {}  BY <1>3
  <2>6. DOMAIN q1 = QName /\ q1 = [x \in QName |-> q1[x]]  BY <1>4
  <2>7. \A x \in QName : q1[x] \in NoDup(Task)  BY <1>12, <1>14, <2>1, <2>2, <2>4
  <2>. QED  BY <1>12, <1>14, <2>1, <2>2, <2>4, <2>5, <2>6, <2>7
<1>16. \A t \in W : \E x \in QName \ {ReadyQ} : t \in Range(q[x])
  BY <1>3, <1>5, <1>9
<1>17. W \in SUBSET Task  BY <1>3, <1>6, <1>7, RangeOfSeq DEF NoDup
<1>. HIDE DEF w
<1>18. QueuesOK(q1, s1) /\ \A t : InSome(q1, t) <=> InSome(q, t)
  BY <1>1, <1>15, <1>16, <1>17, MakeReady
<1>19. QueuesOK(q1, SetStatus(s1, {v}, "EXITED"))
  <2>1. {v} \in SUBSET Task /\ "EXITED" \in Status  BY DEF Status
  <2>2. \A t \in {v} : ~ InSome(q1, t)  BY <1>1, <1>18
  <2>. HIDE DEF s1
  <2>. QED  BY <1>18, <2>1, <2>2, Unqueued
<1>20. \A t \in W : t \in Task /\ t # v /\ InSome(queue, t)
  BY <1>1, <1>16, <1>17 DEF InSome
<1>. QED  BY <1>1, <1>18, <1>19, <1>20 DEF q1, W, StatusAfterKill

\* do_kill on a task v that exists.
LEMMA KillKeeps ==
  ASSUME IInv, cur # Idle, NEW v \in Task, Created(v), Kill(v)
  PROVE  IInv' /\ Buried
<1>. DEFINE q   == Unlinked(v)
            rec == Records(v)
            q1  == AfterKill(v)
            s2  == StatusAfterKill(v)
<1>0. Discipline /\ QueuesOK(queue, status) /\ cur \in Task /\ ~ InSome(queue, cur)
  BY Caller DEF IInv, Discipline
<1>1. CASE Hang
  BY <1>1 DEF Hang, taskVars, slotVars, IInv, Discipline, QueuesOK, Matches, RunsOnly,
              Whereabouts, Present, InSome, Created, Dead, OthersTyped, Buried
<1>2. CASE ~ Hang
  <2>1. /\ IF v = cur THEN do_scheduler(q1, s2, pid)
           ELSE queue' = q1 /\ status' = s2 /\ UNCHANGED cur
        /\ sem_s' = [x \in Slot |-> IF Uses(rec, SemQ(x)) > Len(q[SemQ(x)])
                                   THEN 1 ELSE sem_s[x]]
        /\ owner' = [x \in Mutex |->
                       IF x \notin Range(rec) THEN owner[x]
                       ELSE (owner[x] \ {v}) \cup (Range(q[SemQ(x)]) \cap Range(Granted(q, rec)))]
        /\ UNCHANGED <<taskVars, due, locks, busy, need, hung>>
    BY <1>2 DEF Kill, AfterKill, StatusAfterKill, Freed
  <2>2. locks[v] \in Seq(Mutex)  BY DEF IInv, OthersTyped
  <2>3. /\ QueuesOK(q1, s2)
        /\ \A t : InSome(q1, t) <=> InSome(queue, t) /\ t # v
        /\ \A t \in Freed(v) : t \in Task /\ t # v /\ InSome(queue, t)
    BY <1>0, <2>2, KillMoves
  <2>4. \A x \in QName : Range(q[x]) = Range(queue[x]) \ {v}  BY <1>0, Unlinks
  <2>5. \A t \in Task : s2[t] = IF t = v THEN "EXITED"
                                ELSE IF t \in Freed(v) THEN "READY" ELSE status[t]
    BY DEF StatusAfterKill, SetStatus
  <2>. HIDE DEF q, rec, q1, s2
  <2>6. \A t \in Task : s2[t] = "RUNNING" <=> t = cur /\ t # v
    BY <1>0, <2>3, <2>5 DEF Discipline, RunsOnly
  <2>7. \A t \in Task \ {v} : InSome(queue, t) \/ s2[t] = status[t]  BY <2>3, <2>5
  <2>8. UNCHANGED <<pid, tid_mem, process_num, thread_id>>  BY <2>1 DEF taskVars
  <2>9. Discipline' /\ Buried
    <3>1. CASE v = cur
      <4>1. do_scheduler(q1, s2, pid)  BY <2>1, <3>1
      <4>2. ~ InSome(q1, cur) /\ s2[cur] = "EXITED"  BY <2>3, <2>5, <3>1
      <4>3. \A t \in Task : s2[t] = "RUNNING" => t = cur  BY <2>6
      <4>4. /\ \A t \in Task \ {cur} : InSome(q1, t) <=> InSome(queue, t)
            /\ \A t \in Task \ {cur} : InSome(queue, t) \/ s2[t] = status[t]
            /\ \A t \in Task \ {cur} : pid'[t] = pid[t]
        BY <2>3, <2>7, <2>8, <3>1
      <4>5. s2[cur] \in {"ZOMBIE", "EXITED"} /\ s2[cur] \in Stopped  BY <4>2 DEF Stopped
      <4>. QED  BY <1>0, <2>3, <2>8, <4>1, <4>2, <4>3, <4>4, <4>5, ScheduledKeeps
    <3>2. CASE v # cur
      <4>1. queue' = q1 /\ status' = s2 /\ cur' = cur  BY <2>1, <3>2
      <4>2. RunsOnly(s2, cur)  BY <1>0, <2>6, <3>2 DEF RunsOnly
      <4>. DEFINE V == {v}
      <4>3. V \in SUBSET Task /\ \A t \in V : Created(t) /\ Dead(t)'
        BY <2>5, <4>1 DEF Dead
      <4>4. \A t \in Task : t \in Present(queue', cur') <=> t \in Present(queue, cur) /\ t \notin V
        BY <2>3, <3>2, <4>1 DEF Present
      <4>5. \A t \in Task \ V : t \in Present(queue, cur) \/ status'[t] = status[t]
        BY <2>7, <4>1 DEF Present
      <4>6. \A t \in Task \ V : pid'[t] = pid[t]  BY <2>8
      <4>7. QueuesOK(queue', status') /\ RunsOnly(status', cur')  BY <2>3, <4>1, <4>2
      <4>. HIDE DEF V
      <4>. QED  BY <1>0, <2>8, <4>3, <4>4, <4>5, <4>6, <4>7, Settled
    <3>. QED  BY <3>1, <3>2
  <2>10. OthersTyped'
    <3>1. sem_s' \in [Slot -> Nat]  BY <2>1 DEF IInv, OthersTyped
    <3>2. \A x \in Mutex : Range(q[SemQ(x)]) \subseteq Task
      <4>. TAKE x \in Mutex
      <4>1. SemQ(x) \in QName  BY Names DEF Slot
      <4>2. queue[SemQ(x)] \in Seq(Task)  BY <1>0, <4>1 DEF QueuesOK, NoDup
      <4>. QED  BY <2>4, <4>1, <4>2, RangeOfSeq
    <3>3. owner' \in [Mutex -> SUBSET Task]
      BY <2>1, <3>2 DEF IInv, OthersTyped
    <3>. QED  BY <2>1, <3>1, <3>3 DEF IInv, OthersTyped, taskVars
  <2>. QED  BY <2>9, <2>10 DEF IInv
<1>. QED  BY <1>1, <1>2

\* do_kill, its lookup included.
LEMMA DoKillKeeps ==
  ASSUME IInv, NEW p \in Proc, NEW thread \in BOOLEAN, do_kill(p, thread)
  PROVE  IInv' /\ Buried
<1>. DEFINE v == IF thread THEN tid_mem[p] ELSE p
<1>1. CASE v = 0 /\ Hang
  BY <1>1 DEF Hang, taskVars, slotVars, IInv, Discipline, QueuesOK, Matches, RunsOnly,
              Whereabouts, Present, InSome, Created, Dead, OthersTyped, Buried
<1>2. CASE v # 0 /\ Kill(v)
  <2>1. p \in Task /\ Thread \subseteq Task
    BY ConstantsOK DEF Proc, Task, Thread
  <2>2. v \in Task  BY <1>2, <2>1 DEF IInv, OthersTyped
  <2>3. cur # Idle /\ Found(p)  BY DEF do_kill
  <2>5. pid[p] # 0  BY <2>1, <2>3, Names DEF Found, Idle
  <2>4. Created(v)  BY <1>2, <2>1, <2>2, <2>5 DEF IInv, Discipline, Whereabouts
  <2>. QED  BY <1>2, <2>2, <2>3, <2>4, KillKeeps
<1>. QED  BY <1>1, <1>2 DEF do_kill

\* Calls that leave the lists alone.
LEMMA UnchangedKeeps ==
  ASSUME Discipline, UNCHANGED <<queue, cur, status, pid, tid_mem, process_num, thread_id>>
  PROVE  Discipline' /\ Buried
BY DEF Discipline, QueuesOK, Matches, RunsOnly, Whereabouts, Present, InSome, Created, Dead, Buried

\* do_sem_init and do_barrier_init.
LEMMA SlotInitKeeps ==
  ASSUME IInv, NEW x \in Slot, NEW n \in Counts,
         do_sem_init(x, n) \/ (x \in Barrier /\ do_barrier_init(x, n))
  PROVE  IInv' /\ Buried
<1>1. n \in Nat  BY ConstantsOK
<1>2. /\ sem_s' = [sem_s EXCEPT ![x] = n] /\ busy' = [busy EXCEPT ![x] = TRUE]
      /\ UNCHANGED <<queue, cur, status, taskVars, due, locks, owner, hung>>
      /\ UNCHANGED need \/ need' = [need EXCEPT ![x] = n]
  BY DEF do_sem_init, do_barrier_init
<1>3. Discipline' /\ Buried  BY <1>2, UnchangedKeeps DEF IInv, taskVars
<1>4. /\ sem_s' \in [Slot -> Nat] /\ busy' \in [Slot -> BOOLEAN]
      /\ need' \in [Barrier -> Nat]
  BY <1>1, <1>2 DEF IInv, OthersTyped
<1>5. OthersTyped'  BY <1>2, <1>4 DEF IInv, OthersTyped, taskVars
<1>. QED  BY <1>3, <1>5 DEF IInv

\* Blocking in a slot.
LEMMA WaitKeeps ==
  ASSUME Discipline, cur # Idle, NEW x \in Slot, Wait(x),
         UNCHANGED <<pid, tid_mem, process_num, thread_id>>
  PROVE  Discipline' /\ Buried
<1>1. ~ InSome(queue, cur) /\ QueuesOK(queue, status)  BY Caller DEF Discipline
<1>2. SemQ(x) \in QName /\ SemQ(x) # ReadyQ  BY Names
<1>3. do_scheduler(list_add_tail(queue, SemQ(x), cur),
                   SetStatus(status, {cur}, "BLOCKED"), pid)
  BY DEF Wait
<1>. QED  BY <1>1, <1>2, <1>3, BlockKeeps

\* The length of a wait list.
LEMMA Waiters ==
  ASSUME Discipline, NEW x \in Slot
  PROVE  Len(queue[SemQ(x)]) \in Nat /\ (queue[SemQ(x)] # <<>> => Len(queue[SemQ(x)]) > 0)
<1>1. queue[SemQ(x)] \in Seq(Task)  BY Names DEF Discipline, QueuesOK, NoDup
<1>. QED  BY <1>1, EmptySeq, LenProperties

\* Taking a unit, or blocking.
LEMMA DownKeeps ==
  ASSUME IInv, cur # Idle, NEW x \in Slot, Down(x), UNCHANGED <<pid, tid_mem, process_num, thread_id>>
  PROVE  Discipline' /\ Buried /\ sem_s' \in [Slot -> Nat]
<1>1. sem_s \in [Slot -> Nat]  BY DEF IInv, OthersTyped
<1>2. CASE sem_s[x] > 0 /\ sem_s' = [sem_s EXCEPT ![x] = @ - 1]
           /\ UNCHANGED <<queue, cur, status>>
  <2>1. Discipline' /\ Buried  BY <1>2, UnchangedKeeps DEF IInv
  <2>. QED  BY <1>1, <1>2, <2>1
<1>3. CASE Wait(x) /\ UNCHANGED sem_s  BY <1>1, <1>3, WaitKeeps DEF IInv
<1>. QED  BY <1>2, <1>3 DEF Down

\* Giving a unit back, or to a waiter.
LEMMA UpKeeps ==
  ASSUME IInv, NEW x \in Slot, Up(x), UNCHANGED <<pid, tid_mem, process_num, thread_id>>
  PROVE  Discipline' /\ Buried /\ sem_s' \in [Slot -> Nat]
<1>1. sem_s \in [Slot -> Nat] /\ Discipline  BY DEF IInv, OthersTyped
<1>2. CASE queue[SemQ(x)] # <<>> /\ Wake(x, 1) /\ UNCHANGED sem_s
  <2>1. 1 \in 0 .. Len(queue[SemQ(x)])  BY <1>1, <1>2, Waiters
  <2>2. Discipline' /\ Buried  BY <1>1, <1>2, <2>1, WakeKeeps
  <2>. QED  BY <1>1, <1>2, <2>2
<1>3. CASE sem_s' = [sem_s EXCEPT ![x] = @ + 1] /\ UNCHANGED <<queue, cur, status>>
  <2>1. Discipline' /\ Buried  BY <1>1, <1>3, UnchangedKeeps
  <2>. QED  BY <1>1, <1>3, <2>1
<1>. QED  BY <1>2, <1>3 DEF Up

\* The calls on semaphores.
LEMMA SemKeeps ==
  ASSUME IInv, NEW x \in Slot, do_sem_up(x) \/ do_sem_down(x) \/ do_sem_destroy(x)
  PROVE  IInv' /\ Buried
<1>1. Discipline' /\ Buried /\ sem_s' \in [Slot -> Nat]
  <2>1. CASE do_sem_up(x)  BY <2>1, UpKeeps DEF do_sem_up, taskVars
  <2>2. CASE do_sem_down(x)  BY <2>2, DownKeeps DEF do_sem_down, taskVars
  <2>3. CASE do_sem_destroy(x)
    <3>1. Len(queue[SemQ(x)]) \in 0 .. Len(queue[SemQ(x)])  BY Waiters DEF IInv
    <3>2. Discipline' /\ Buried
      BY <2>3, <3>1, WakeKeeps DEF do_sem_destroy, taskVars, IInv
    <3>. QED  BY <2>3, <3>2 DEF do_sem_destroy, IInv, OthersTyped
  <2>. QED  BY <2>1, <2>2, <2>3
<1>2. busy' \in [Slot -> BOOLEAN] /\ UNCHANGED <<taskVars, due, owner, need, locks, hung>>
  BY DEF do_sem_up, do_sem_down, do_sem_destroy, IInv, OthersTyped
<1>3. OthersTyped'  BY <1>1, <1>2 DEF IInv, OthersTyped, taskVars
<1>. QED  BY <1>1, <1>3 DEF IInv

\* The calls on mutexes.
LEMMA MutexKeeps ==
  ASSUME IInv, NEW x \in Mutex, do_mutex_lock_acquire(x) \/ do_mutex_lock_release(x)
  PROVE  IInv' /\ Buried
<1>1. x \in Slot /\ cur # Idle /\ UNCHANGED <<taskVars, due, busy, need, hung>>
  BY DEF Slot, do_mutex_lock_acquire, do_mutex_lock_release
<1>2. cur \in Task /\ locks[cur] \in Seq(Mutex)
  BY <1>1, Caller DEF IInv, OthersTyped
<1>3. Discipline' /\ Buried /\ sem_s' \in [Slot -> Nat]
  <2>1. CASE do_mutex_lock_acquire(x)
    BY <1>1, <2>1, DownKeeps DEF do_mutex_lock_acquire, taskVars
  <2>2. CASE do_mutex_lock_release(x)
    BY <1>1, <2>2, UpKeeps DEF do_mutex_lock_release, taskVars
  <2>. QED  BY <2>1, <2>2
<1>4. locks' \in [Task -> Seq(Mutex)]
  <2>1. CASE do_mutex_lock_acquire(x)
    <3>1. Append(locks[cur], x) \in Seq(Mutex)  BY <1>2, AppendProperties
    <3>. QED  BY <2>1, <3>1 DEF do_mutex_lock_acquire, IInv, OthersTyped
  <2>2. CASE do_mutex_lock_release(x)
    <3>1. SubSeq(locks[cur], 1, Len(locks[cur]) - 1) \in Seq(Mutex)
      <4>1. Len(locks[cur]) \in Nat /\ \A i \in 1 .. Len(locks[cur]) - 1 : locks[cur][i] \in Mutex
        BY <1>2, LenProperties, ElementOfSeq
      <4>2. 1 \in Int /\ Len(locks[cur]) - 1 \in Int  BY <4>1
      <4>. QED  BY <4>1, <4>2, SubSeqProperties
    <3>. QED  BY <2>2, <3>1 DEF do_mutex_lock_release, IInv, OthersTyped
  <2>. QED  BY <2>1, <2>2
<1>5. owner' \in [Mutex -> SUBSET Task]
  <2>1. CASE do_mutex_lock_acquire(x)
    <3>1. owner' = owner \/ owner' = [owner EXCEPT ![x] = @ \cup {cur}]
      BY <2>1 DEF do_mutex_lock_acquire
    <3>2. owner \in [Mutex -> SUBSET Task]  BY DEF IInv, OthersTyped
    <3>3. owner[x] \cup {cur} \in SUBSET Task  BY <1>2, <3>2
    <3>. QED  BY <3>1, <3>2, <3>3
  <2>2. CASE do_mutex_lock_release(x)
    <3>. DEFINE first == {queue[SemQ(x)][i] : i \in DOMAIN queue[SemQ(x)] \cap {1}}
    <3>1. owner' = [owner EXCEPT ![x] = (@ \ {cur}) \cup first]
      BY <2>2 DEF do_mutex_lock_release
    <3>2. queue[SemQ(x)] \in Seq(Task)
      BY <1>1, Names DEF IInv, Discipline, QueuesOK, NoDup
    <3>3. first \subseteq Task  BY <3>2, LenProperties, ElementOfSeq
    <3>. QED  BY <3>1, <3>3 DEF IInv, OthersTyped
  <2>. QED  BY <2>1, <2>2
<1>6. OthersTyped'  BY <1>1, <1>3, <1>4, <1>5 DEF IInv, OthersTyped, taskVars
<1>. QED  BY <1>3, <1>6 DEF IInv

\* do_barrier_wait.
LEMMA BarrierKeeps ==
  ASSUME IInv, NEW x \in Barrier, do_barrier_wait(x)
  PROVE  IInv' /\ Buried
<1>1. /\ x \in Slot /\ cur # Idle
      /\ UNCHANGED <<taskVars, due, busy, owner, need, locks, hung>>
      /\ UNCHANGED <<pid, tid_mem, process_num, thread_id>>
  BY DEF Slot, do_barrier_wait, taskVars
<1>2. sem_s \in [Slot -> Nat] /\ Discipline /\ Len(queue[SemQ(x)]) \in Nat
  BY <1>1, Waiters DEF IInv, OthersTyped
<1>3. Discipline' /\ Buried /\ sem_s' \in [Slot -> Nat]
  <2>1. CASE ~ Last(x) /\ sem_s' = [sem_s EXCEPT ![x] = @ - 1] /\ Wait(x)
    <3>1. Discipline' /\ Buried  BY <1>1, <1>2, <2>1, WaitKeeps
    <3>2. sem_s[x] \in Nat /\ ~ (sem_s[x] <= 1)  BY <1>1, <1>2, <2>1 DEF Last
    <3>3. sem_s[x] - 1 \in Nat  BY <3>2
    <3>. QED  BY <1>2, <2>1, <3>1, <3>3
  <2>2. CASE sem_s' = [sem_s EXCEPT ![x] = Restored(x)] /\ Wake(x, Len(queue[SemQ(x)]))
    <3>1. Len(queue[SemQ(x)]) \in 0 .. Len(queue[SemQ(x)])  BY <1>2
    <3>2. Discipline' /\ Buried  BY <1>1, <1>2, <2>2, <3>1, WakeKeeps
    <3>3. Restored(x) \in Nat  BY <1>1, <1>2 DEF Restored
    <3>. QED  BY <1>2, <2>2, <3>2, <3>3
  <2>. QED  BY <2>1, <2>2 DEF do_barrier_wait
<1>4. OthersTyped'  BY <1>1, <1>3 DEF IInv, OthersTyped, taskVars
<1>. QED  BY <1>3, <1>4 DEF IInv

-----------------------------------------------------------------------------
(* The theorems. *)

\* Every step preserves the invariant.
LEMMA NextOK == IInv /\ [Next]_vars => IInv' /\ Buried
<1>. SUFFICES ASSUME IInv, [Next]_vars  PROVE IInv' /\ Buried
  OBVIOUS
<1>1. CASE reset_irq_timer  BY <1>1, TimerKeeps
<1>2. CASE ~ hung /\ TaskCall
  BY <1>2, YieldKeeps, SleepKeeps, ExecKeeps, MthreadCreateKeeps, ExitKeeps, WaitpidKeeps,
     DoKillKeeps DEF TaskCall
<1>3. CASE SlotCall
  <2>. Mutex \subseteq Slot /\ Sema \subseteq Slot /\ Barrier \subseteq Slot  BY DEF Slot
  <2>1. CASE \E x \in Mutex \cup Sema, n \in Counts : do_sem_init(x, n)
    BY <2>1, SlotInitKeeps
  <2>2. CASE \E x \in Barrier, n \in Counts : do_barrier_init(x, n)
    BY <2>2, SlotInitKeeps
  <2>3. CASE \/ \E x \in Sema : do_sem_up(x) \/ do_sem_down(x)
             \/ \E x \in Sema \cup Barrier : do_sem_destroy(x)
    BY <2>3, SemKeeps
  <2>4. CASE \E x \in Mutex : do_mutex_lock_acquire(x) \/ do_mutex_lock_release(x)
    BY <2>4, MutexKeeps
  <2>5. CASE \E x \in Barrier : do_barrier_wait(x)  BY <2>5, BarrierKeeps
  <2>. QED  BY <1>3, <2>1, <2>2, <2>3, <2>4, <2>5 DEF SlotCall
<1>4. CASE UNCHANGED vars
  BY <1>4, UnchangedKeeps DEF vars, taskVars, slotVars, IInv, OthersTyped
<1>. QED  BY <1>1, <1>2, <1>3, <1>4 DEF Next

\* The fields and lists of every task and slot stay within their ranges, for any
\* number of tasks and slots: s never goes below 0, and a counter of the tables is
\* at most one past its table, where the call that was not refused has written.
THEOREM TypeCorrect == Spec => []TypeOK
<1>1. IInv => TypeOK  BY IInvImplies
<1>. QED  BY <1>1, InitOK, NextOK, PTL DEF Spec

\* No list_add_tail of the kernel ever adds a node that is still linked.
THEOREM NodeLinkedOnce == Spec => []LinkedOnce
<1>1. IInv => LinkedOnce  BY IInvImplies
<1>. QED  BY <1>1, InitOK, NextOK, PTL DEF Spec

\* The status field of a task tells which list it is in: do_kill, which looks at
\* the status to unlink its victim, always unlinks it.
THEOREM StatusCorrect == Spec => []StatusMatchesQueue
<1>1. IInv => StatusMatchesQueue  BY IInvImplies
<1>. QED  BY <1>1, InitOK, NextOK, PTL DEF Spec

\* A task that is alive runs or is in some list, whatever was killed or destroyed
\* around it: do_kill and do_sem_destroy wake everybody they unlink.
THEOREM NoTaskLost == Spec => []NoneLost
<1>1. IInv => NoneLost  BY IInvImplies
<1>. QED  BY <1>1, InitOK, NextOK, PTL DEF Spec

\* A task that was killed or has exited is never dispatched again, and its slot
\* of pcb[] or tcb[] never handed out again.
THEOREM DeadStayDead == Spec => NoResurrection
<1>1. ASSUME IInv, [Next]_vars, NEW t \in Task, Dead(t)  PROVE Dead(t)' /\ cur' # t
  <2>1. IInv' /\ Dead(t)'  BY <1>1, NextOK DEF Buried
  <2>2. t \notin Present(queue', cur')  BY <2>1 DEF IInv, Discipline, Whereabouts
  <2>. QED  BY <2>1, <2>2 DEF Present
<1>2. IInv /\ [Next]_vars => [\A t \in Task : Dead(t) => Dead(t)' /\ cur' # t]_vars
  BY <1>1
<1>. QED  BY <1>2, InitOK, NextOK, PTL DEF Spec, NoResurrection

\* The waiters' loops of do_kill and do_exit always end: provided nobody kills a
\* thread that was never created, the shell does not exit and the tables are not
\* used up, no sequence of calls leaves the kernel spinning with its lock held.
THEOREM NoHang ==
  ASSUME Misuse \cap {"killNoThread", "shellExit", "tableFull"} = {}
  PROVE  Spec => []KernelResponsive
<1>1. ASSUME IInv, NEW v \in Task, NEW q \in [QName -> NoDup(Task)],
             \A x \in QName : Range(q[x]) \subseteq Range(queue[x])
      PROVE  ~ Spins(q, v)
  <2>1. WaitQ(v) \in QName /\ WaitQ(v) # ReadyQ  BY Names
  <2>. QED  BY <1>1, <2>1 DEF Spins, IInv, Discipline, QueuesOK, Matches
<1>2. ASSUME IInv, cur # Idle, NEW v \in Task, Kill(v)  PROVE hung' = hung
  <2>1. QueuesOK(queue, status)  BY <1>2 DEF IInv, Discipline
  <2>2. /\ Unlinked(v) \in [QName -> NoDup(Task)]
        /\ \A x \in QName : Range(Unlinked(v)[x]) \subseteq Range(queue[x])
    BY <2>1, Unlinks DEF QueuesOK
  <2>3. ~ Spins(Unlinked(v), v)  BY <1>1, <1>2, <2>2
  <2>. QED  BY <1>2, <2>3 DEF Kill
<1>3. ASSUME IInv, do_exit  PROVE hung' = hung
  <2>1. cur \in Task /\ queue \in [QName -> NoDup(Task)]
    BY <1>3, Caller DEF IInv, Discipline, QueuesOK, do_exit
  <2>2. ~ Spins(queue, cur)  BY <1>1, <1>3, <2>1
  <2>. QED  BY <1>3, <2>2 DEF do_exit
<1>4. ASSUME IInv, NEW p \in Proc, NEW thread \in BOOLEAN, do_kill(p, thread)
      PROVE  hung' = hung
  <2>. DEFINE v == IF thread THEN tid_mem[p] ELSE p
  <2>1. v # 0 /\ Kill(v) /\ cur # Idle  BY <1>4 DEF do_kill
  <2>2. p \in Task /\ Thread \subseteq Task  BY ConstantsOK DEF Proc, Task, Thread
  <2>3. v \in Task  BY <1>4, <2>1, <2>2 DEF IInv, OthersTyped
  <2>. HIDE DEF v
  <2>. QED  BY <1>2, <1>4, <2>1, <2>3
<1>5. ASSUME IInv, Next  PROVE hung' = hung
  <2>1. CASE reset_irq_timer  BY <2>1 DEF reset_irq_timer
  <2>2. CASE TaskCall
    BY <1>3, <1>4, <1>5, <2>2
       DEF TaskCall, Yield, do_sleep, do_exec, do_mthread_create, do_waitpid, WritesPast
  <2>3. CASE SlotCall
    BY <2>3 DEF SlotCall, do_sem_init, do_barrier_init, do_sem_up, do_sem_down,
                do_sem_destroy, do_mutex_lock_acquire, do_mutex_lock_release, do_barrier_wait
  <2>. QED  BY <1>5, <2>1, <2>2, <2>3 DEF Next
<1>6. Init => KernelResponsive  BY DEF Init, KernelResponsive
<1>7. IInv /\ KernelResponsive /\ [Next]_vars => KernelResponsive'
  BY <1>5 DEF KernelResponsive, vars
<1>. QED  BY <1>6, <1>7, InitOK, NextOK, PTL DEF Spec
-----------------------------------------------------------------------------
(***************************************************************************)
(* The mutexes.  Killing a task that waits for one and unlocking one that  *)
(* was not locked last are excluded here (see the theorems): after them    *)
(* lock[] no longer says what a task holds.  A task's records are then the *)
(* mutexes it holds, each once, and the one it waits for, which comes last.*)
(***************************************************************************)
Blocked(x) == Range(queue[SemQ(x)])
Killed(t) == status[t] = "EXITED" /\ pid[t] # 0

Owned ==
  \A x \in Mutex : /\ sem_s[x] \in {0, 1}
                   /\ owner[x] # {} => sem_s[x] = 0 /\ busy[x]
                   /\ \A t \in owner[x] : /\ owner[x] = {t} /\ ~ Killed(t)
                                          /\ x \in Range(locks[t])

Recorded ==
  \A t \in Task : ~ Killed(t) =>
     \A i \in DOMAIN locks[t] :
        \/ /\ t \in owner[locks[t][i]]
           /\ \A j \in DOMAIN locks[t] : j < i => locks[t][j] # locks[t][i]
        \/ i = Len(locks[t]) /\ t \in Blocked(locks[t][i])

WaitsForLast ==
  \A x \in Mutex : \A t \in Blocked(x) :
     Len(locks[t]) \in DOMAIN locks[t] /\ locks[t][Len(locks[t])] = x

LocksInv == Owned /\ Recorded /\ WaitsForLast

\* Nothing a mutex or its records depend on changes.
MutexSame ==
  /\ UNCHANGED <<locks, owner>>
  /\ \A x \in Mutex : /\ sem_s'[x] = sem_s[x] /\ busy'[x] = busy[x]
                      /\ Blocked(x)' = Blocked(x)
  /\ \A t \in Task : Killed(t)' <=> Killed(t)

\* What holds of records, owners and waiters, by name.
LEMMA MutexTypes ==
  ASSUME IInv
  PROVE  /\ \A t \in Task : /\ locks[t] \in Seq(Mutex) /\ Len(locks[t]) \in Nat
                            /\ DOMAIN locks[t] = 1 .. Len(locks[t])
                            /\ \A i \in DOMAIN locks[t] : locks[t][i] \in Mutex
         /\ \A x \in Mutex : /\ owner[x] \subseteq Task /\ Blocked(x) \subseteq Task
                             /\ \A t \in Blocked(x) : InSome(queue, t) /\ ~ Killed(t)
         /\ \A x, y \in Mutex : x # y => Blocked(x) \cap Blocked(y) = {}
<1>1. ASSUME NEW t \in Task
      PROVE  /\ locks[t] \in Seq(Mutex) /\ Len(locks[t]) \in Nat
             /\ DOMAIN locks[t] = 1 .. Len(locks[t])
             /\ \A i \in DOMAIN locks[t] : locks[t][i] \in Mutex
  <2>1. locks[t] \in Seq(Mutex)  BY DEF IInv, OthersTyped
  <2>. QED  BY <2>1, LenProperties, ElementOfSeq
<1>2. ASSUME NEW x \in Mutex
      PROVE  /\ owner[x] \subseteq Task /\ Blocked(x) \subseteq Task
             /\ \A t \in Blocked(x) : InSome(queue, t) /\ ~ Killed(t)
  <2>1. SemQ(x) \in QName /\ SemQ(x) # ReadyQ  BY Names DEF Slot
  <2>2. Blocked(x) \subseteq Task
    BY <2>1, RangeOfSeq DEF Blocked, IInv, Discipline, QueuesOK, NoDup
  <2>3. \A t \in Blocked(x) : InSome(queue, t) /\ status[t] = "BLOCKED"
    BY <2>1 DEF Blocked, InSome, IInv, Discipline, QueuesOK, Matches
  <2>4. owner[x] \subseteq Task  BY DEF IInv, OthersTyped
  <2>. QED  BY <2>2, <2>3, <2>4 DEF Killed
<1>3. \A x, y \in Mutex : x # y => Blocked(x) \cap Blocked(y) = {}
  BY Names DEF Slot, Blocked, SemQ, IInv, Discipline, QueuesOK
<1>. QED  BY <1>1, <1>2, <1>3

\* A step that changes none of it keeps the invariant.
LEMMA SameKeeps == ASSUME LocksInv, IInv, MutexSame  PROVE LocksInv'
<1>1. Owned'
  <2>1. \A x \in Mutex : owner[x] \subseteq Task  BY MutexTypes
  <2>. QED  BY <2>1 DEF LocksInv, Owned, MutexSame
<1>2. Recorded'
  <2>1. \A t \in Task : \A i \in DOMAIN locks[t] : locks[t][i] \in Mutex  BY MutexTypes
  <2>2. locks' = locks /\ owner' = owner  BY DEF MutexSame
  <2>3. \A t \in Task : \A i \in DOMAIN locks[t] : Blocked(locks[t][i])' = Blocked(locks[t][i])
    <3>1. ASSUME NEW t \in Task, NEW i \in DOMAIN locks[t]
          PROVE  Blocked(locks[t][i])' = Blocked(locks[t][i])
      <4>1. PICK x \in Mutex : x = locks[t][i]  BY <2>1
      <4>2. Blocked(x)' = Blocked(x)  BY DEF MutexSame
      <4>3. Blocked(locks[t][i])' = Blocked(x)'  BY <2>2, <4>1 DEF Blocked
      <4>. QED  BY <4>1, <4>2, <4>3
    <3>. QED  BY <3>1
  <2>. QED  BY <2>2, <2>3 DEF LocksInv, Recorded, MutexSame
<1>3. WaitsForLast'  BY DEF LocksInv, WaitsForLast, MutexSame
<1>. QED  BY <1>1, <1>2, <1>3 DEF LocksInv

\* The task c gives up the mutexes in X, all of which it holds: each goes to one
\* of its waiters, if there is one.  Either c is killed, or it keeps its records
\* of the other mutexes.
LEMMA HandOver ==
  ASSUME IInv, LocksInv, NEW c \in Task, NEW X \in SUBSET Mutex,
         \A x \in Mutex : c \notin Blocked(x),
         \A x \in Mutex \ X : /\ sem_s'[x] = sem_s[x] /\ owner'[x] = owner[x]
                              /\ Blocked(x)' = Blocked(x),
         \A x \in X : /\ owner[x] = {c}
                      /\ \/ /\ Blocked(x)' = {} /\ Blocked(x) = {}
                            /\ owner'[x] = {} /\ sem_s'[x] = 1
                         \/ \E h \in Blocked(x) : /\ Blocked(x)' = Blocked(x) \ {h}
                                                  /\ owner'[x] = {h} /\ sem_s'[x] = sem_s[x],
         \A x \in Mutex : busy'[x] = busy[x],
         \A t \in Task \ {c} : locks'[t] = locks[t] /\ (Killed(t)' <=> Killed(t)),
         \/ Killed(c)'
         \/ \A i \in DOMAIN locks'[c] : /\ i \in DOMAIN locks[c] /\ ~ Killed(c)
                                        /\ locks'[c][i] = locks[c][i]
                                        /\ locks[c][i] \notin X,
         \A x \in Mutex \ X : c \in owner[x] => ~ Killed(c)' /\ x \in Range(locks'[c])
  PROVE  LocksInv'
<1>1. ASSUME NEW x \in X, NEW h \in Blocked(x)
      PROVE  /\ h \in Task /\ h # c /\ ~ Killed(h)
             /\ Len(locks[h]) \in DOMAIN locks[h] /\ locks[h][Len(locks[h])] = x
             /\ \A j \in DOMAIN locks[h] : j < Len(locks[h]) => locks[h][j] # x
             /\ x \in Range(locks[h])
  <2>1. h \in Task /\ h # c /\ ~ Killed(h)  BY MutexTypes
  <2>2. Len(locks[h]) \in DOMAIN locks[h] /\ locks[h][Len(locks[h])] = x
    BY DEF LocksInv, WaitsForLast
  <2>3. h \notin owner[x]  BY <2>1
  <2>4. ASSUME NEW j \in DOMAIN locks[h], j < Len(locks[h])  PROVE locks[h][j] # x
    <3>1. h \in owner[locks[h][j]]  BY <2>1, <2>4, MutexTypes DEF LocksInv, Recorded
    <3>. QED  BY <2>3, <3>1
  <2>. QED  BY <2>1, <2>2, <2>4 DEF Range
<1>2. Owned'
  <2>. SUFFICES ASSUME NEW x \in Mutex
                PROVE  /\ sem_s'[x] \in {0, 1}
                       /\ owner'[x] # {} => sem_s'[x] = 0 /\ busy'[x]
                       /\ \A t \in owner'[x] : /\ owner'[x] = {t} /\ ~ Killed(t)'
                                               /\ x \in Range(locks'[t])
    BY DEF Owned
  <2>0. /\ sem_s[x] \in {0, 1}
        /\ owner[x] # {} => sem_s[x] = 0 /\ busy[x]
        /\ \A t \in owner[x] : /\ owner[x] = {t} /\ ~ Killed(t)
                               /\ x \in Range(locks[t])
        /\ owner[x] \subseteq Task
    BY MutexTypes DEF LocksInv, Owned
  <2>1. CASE x \notin X
    <3>1. sem_s'[x] = sem_s[x] /\ owner'[x] = owner[x] /\ busy'[x] = busy[x]  BY <2>1
    <3>2. \A t \in owner[x] : ~ Killed(t)' /\ x \in Range(locks'[t])
      <4>. SUFFICES ASSUME NEW t \in owner[x]  PROVE ~ Killed(t)' /\ x \in Range(locks'[t])
        OBVIOUS
      <4>1. CASE t = c  BY <2>1, <4>1
      <4>2. CASE t # c  BY <2>0, <4>2
      <4>. QED  BY <4>1, <4>2
    <3>. QED  BY <2>0, <3>1, <3>2
  <2>2. CASE x \in X
    <3>1. CASE owner'[x] = {} /\ sem_s'[x] = 1  BY <3>1
    <3>2. CASE \E h \in Blocked(x) : owner'[x] = {h} /\ sem_s'[x] = sem_s[x]
      <4>1. PICK h \in Blocked(x) : owner'[x] = {h} /\ sem_s'[x] = sem_s[x]  BY <3>2
      <4>2. h \in Task \ {c} /\ ~ Killed(h) /\ x \in Range(locks[h])  BY <1>1, <2>2
      <4>3. ~ Killed(h)' /\ x \in Range(locks'[h])  BY <4>2
      <4>4. sem_s[x] = 0 /\ busy[x]  BY <2>0, <2>2
      <4>. QED  BY <4>1, <4>3, <4>4
    <3>. QED  BY <2>2, <3>1, <3>2
  <2>. QED  BY <2>1, <2>2
<1>3. Recorded'
  <2>. SUFFICES ASSUME NEW t \in Task, ~ Killed(t)', NEW i \in DOMAIN locks'[t],
                       NEW x, x = locks'[t][i]
                PROVE  \/ /\ t \in owner'[x]
                          /\ \A j \in DOMAIN locks'[t] : j < i => locks'[t][j] # x
                       \/ i = Len(locks'[t]) /\ t \in Blocked(x)'
    BY DEF Recorded, Blocked
  <2>1. CASE t = c
    <3>1. /\ i \in DOMAIN locks[c] /\ ~ Killed(c) /\ x = locks[c][i] /\ x \notin X
          /\ \A j \in DOMAIN locks'[c] : j \in DOMAIN locks[c] /\ locks'[c][j] = locks[c][j]
      BY <2>1
    <3>2. x \in Mutex  BY <3>1, MutexTypes
    <3>3. c \in owner[x] /\ \A j \in DOMAIN locks[c] : j < i => locks[c][j] # x
      BY <3>1, <3>2 DEF LocksInv, Recorded
    <3>. QED  BY <2>1, <3>1, <3>2, <3>3
  <2>2. CASE t # c
    <3>1. locks'[t] = locks[t] /\ ~ Killed(t) /\ x \in Mutex  BY <2>2, MutexTypes
    <3>2. \/ /\ t \in owner[x]
             /\ \A j \in DOMAIN locks[t] : j < i => locks[t][j] # x
          \/ i = Len(locks[t]) /\ t \in Blocked(x)
      BY <3>1 DEF LocksInv, Recorded
    <3>3. CASE x \notin X  BY <3>1, <3>2, <3>3
    <3>4. CASE x \in X
      <4>1. i = Len(locks[t]) /\ t \in Blocked(x)  BY <2>2, <3>2, <3>4
      <4>2. \A j \in DOMAIN locks[t] : j < i => locks[t][j] # x  BY <1>1, <3>4, <4>1
      <4>. QED  BY <3>1, <3>4, <4>1, <4>2
    <3>. QED  BY <3>3, <3>4
  <2>. QED  BY <2>1, <2>2
<1>4. WaitsForLast'
  <2>. SUFFICES ASSUME NEW x \in Mutex, NEW t \in Blocked(x)'
                PROVE  Len(locks'[t]) \in DOMAIN locks'[t] /\ locks'[t][Len(locks'[t])] = x
    BY DEF WaitsForLast
  <2>1. t \in Blocked(x)  OBVIOUS
  <2>2. t \in Task \ {c}  BY <2>1, MutexTypes
  <2>. QED  BY <2>1, <2>2 DEF LocksInv, WaitsForLast
<1>. QED  BY <1>2, <1>3, <1>4 DEF LocksInv

\* do_scheduler changes only ready_queue, and ends nobody.
LEMMA OtherLists ==
  ASSUME NEW q, NEW st, NEW p, do_scheduler(q, st, p)
  PROVE  /\ \A x \in QName \ {ReadyQ} : queue'[x] = q[x]
         /\ \A t \in Task : status'[t] \in {"ZOMBIE", "EXITED"} => status'[t] = st[t]
<1>1. \A x \in QName \ {ReadyQ} : Requeued(q, st, p)[x] = q[x]
  BY DEF Requeued, list_add_tail
<1>2. \A t \in Task : Preempted(st)[t] \in {"ZOMBIE", "EXITED"} => Preempted(st)[t] = st[t]
  BY DEF Preempted, SetStatus
<1>3. /\ \A x \in QName \ {ReadyQ} : queue'[x] = Requeued(q, st, p)[x]
      /\ \/ status' = Preempted(st)
         \/ \E h : status' = SetStatus(Preempted(st), {h}, "RUNNING")
  BY DEF do_scheduler
<1>4. \A t \in Task : status'[t] \in {"ZOMBIE", "EXITED"} => status'[t] = Preempted(st)[t]
  BY <1>3 DEF SetStatus
<1>. QED  BY <1>1, <1>2, <1>3, <1>4

\* Nobody is killed by a step that writes neither ZOMBIE nor EXITED, nor a pid.
LEMMA NoneKilled ==
  ASSUME Buried, UNCHANGED pid,
         \A t \in Task : status'[t] \in {"ZOMBIE", "EXITED"} => status'[t] = status[t]
  PROVE  \A t \in Task : Killed(t)' <=> Killed(t)
<1>. TAKE t \in Task
<1>1. ASSUME Killed(t)  PROVE Killed(t)'
  <2>1. Dead(t)' /\ pid'[t] # 0  BY <1>1 DEF Killed, Dead, Buried
  <2>2. status'[t] \in {"ZOMBIE", "EXITED"}  BY <2>1 DEF Dead
  <2>. QED  BY <1>1, <2>1, <2>2 DEF Killed
<1>2. ASSUME Killed(t)'  PROVE Killed(t)  BY <1>2 DEF Killed
<1>. QED  BY <1>1, <1>2

\* The calls on tasks, but for do_kill, and the timer touch no mutex.
LEMMA TaskCallsSame ==
  ASSUME IInv, Buried,
         \/ reset_irq_timer \/ Yield \/ do_exit \/ do_mthread_create
         \/ \E d \in 0 .. MaxSleep : do_sleep(d)
         \/ \E m \in Modes : do_exec(m)
         \/ \E p \in Proc : do_waitpid(p)
  PROVE  MutexSame
<1>. DEFINE Fate == \A t \in Task : Killed(t)' <=> Killed(t)
            Lists == \A x \in Mutex : queue'[SemQ(x)] = queue[SemQ(x)]
<1>0. \A x \in Mutex : /\ x \in Slot /\ SemQ(x) \in QName /\ SemQ(x) # ReadyQ /\ SemQ(x) # TimerQ
                       /\ \A t \in Task : SemQ(x) # WaitQ(t)
  BY Names DEF Slot
<1>1. cur # Idle => cur \in Task /\ status[cur] = "RUNNING" /\ ~ InSome(queue, cur)
  BY Caller DEF IInv
<1>2. CASE reset_irq_timer
  <2>. DEFINE woken == Pick(queue[TimerQ], Expired)
              q  == [queue EXCEPT ![TimerQ] = Pick(queue[TimerQ], DOMAIN queue[TimerQ] \ Expired),
                                  ![ReadyQ] = @ \o woken]
              st == SetStatus(status, Range(woken), "READY")
  <2>1. do_scheduler(q, st, pid) /\ UNCHANGED <<taskVars, slotVars, hung>>
    BY <1>2 DEF reset_irq_timer
  <2>2. \A x \in Mutex : q[SemQ(x)] = queue[SemQ(x)]  BY <1>0 DEF IInv, Discipline, QueuesOK
  <2>3. \A t \in Task : st[t] \in {"ZOMBIE", "EXITED"} => st[t] = status[t]  BY DEF SetStatus
  <2>. HIDE DEF q, st
  <2>4. Lists /\ \A t \in Task : status'[t] \in {"ZOMBIE", "EXITED"} => status'[t] = status[t]
    BY <1>0, <2>1, <2>2, <2>3, OtherLists
  <2>5. Fate  BY <2>1, <2>4, NoneKilled DEF taskVars
  <2>. QED  BY <2>1, <2>4, <2>5 DEF MutexSame, Blocked, slotVars
<1>3. CASE Yield
  <2>1. do_scheduler(queue, status, pid) /\ UNCHANGED <<taskVars, slotVars, hung>>
    BY <1>3 DEF Yield
  <2>2. Lists /\ \A t \in Task : status'[t] \in {"ZOMBIE", "EXITED"} => status'[t] = status[t]
    BY <1>0, <2>1, OtherLists
  <2>3. Fate  BY <2>1, <2>2, NoneKilled DEF taskVars
  <2>. QED  BY <2>1, <2>2, <2>3 DEF MutexSame, Blocked, slotVars
<1>4. CASE do_exit
  <2>1. CASE Hang
    BY <2>1 DEF Hang, MutexSame, Blocked, Killed, slotVars, taskVars
  <2>2. CASE ~ Hang
    <3>. DEFINE s  == queue[WaitQ(cur)]
                q  == [queue EXCEPT ![WaitQ(cur)] = <<>>, ![ReadyQ] = @ \o s]
                ended == CASE mode[cur] = "auto" -> "EXITED"
                           [] mode[cur] = "zombie" -> "ZOMBIE"
                           [] OTHER -> status[cur]
                st == SetStatus(SetStatus(status, Range(s), "READY"), {cur}, ended)
                pids == [pid EXCEPT ![cur] = 0]
    <3>1. /\ cur # Idle /\ do_scheduler(q, st, pids) /\ pid' = pids
          /\ UNCHANGED <<mode, tid_mem, process_num, thread_id, due, slotVars, hung>>
      BY <1>4, <2>2 DEF do_exit
    <3>2. \A x \in Mutex : q[SemQ(x)] = queue[SemQ(x)]
      BY <1>0, <1>1, <3>1 DEF IInv, Discipline, QueuesOK
    <3>. HIDE DEF ended
    <3>3. \A t \in Task \ {cur} : st[t] \in {"ZOMBIE", "EXITED"} => st[t] = status[t]
      BY DEF SetStatus
    <3>4. pid'[cur] = 0 /\ \A t \in Task \ {cur} : pid'[t] = pid[t]
      BY <1>1, <3>1 DEF IInv, OthersTyped
    <3>. HIDE DEF q, st, pids
    <3>5. /\ Lists
          /\ \A t \in Task \ {cur} : status'[t] \in {"ZOMBIE", "EXITED"} => status'[t] = status[t]
      BY <1>0, <3>1, <3>2, <3>3, OtherLists
    <3>6. ASSUME NEW t \in Task  PROVE Killed(t)' <=> Killed(t)
      <4>1. CASE t = cur  BY <1>1, <3>1, <3>4, <4>1 DEF Killed
      <4>2. CASE t # cur
        <5>1. ASSUME Killed(t)  PROVE status'[t] \in {"ZOMBIE", "EXITED"}
          BY <3>4, <4>2, <5>1 DEF Killed, Buried, Dead
        <5>. QED  BY <3>4, <3>5, <4>2, <5>1 DEF Killed
      <4>. QED  BY <4>1, <4>2
    <3>. QED  BY <3>1, <3>5, <3>6 DEF MutexSame, Blocked, slotVars
  <2>. QED  BY <2>1, <2>2
<1>5. ASSUME NEW n \in Task, ~ Created(n), queue' = list_add_tail(queue, ReadyQ, n),
             status' = [status EXCEPT ![n] = "READY"], UNCHANGED slotVars,
             \A t \in Task \ {n} : pid'[t] = pid[t]
      PROVE  MutexSame
  <2>1. Lists  BY <1>0, <1>5 DEF list_add_tail
  <2>2. \A t \in Task \ {n} : status'[t] = status[t]  BY <1>5
  <2>3. ~ Killed(n)
    BY <1>5 DEF Killed, Dead, IInv, Discipline, Whereabouts
  <2>4. ~ Killed(n)'  BY <1>5 DEF Killed, IInv, Discipline, QueuesOK
  <2>5. \A t \in Task \ {n} : Killed(t)' <=> Killed(t)  BY <1>5, <2>2 DEF Killed
  <2>. QED  BY <1>5, <2>1, <2>3, <2>4, <2>5 DEF MutexSame, Blocked, slotVars
<1>12. CASE WritesPast
  BY <1>12 DEF WritesPast, MutexSame, Blocked, Killed, slotVars
<1>6. CASE do_mthread_create /\ ~ WritesPast
  <2>1. PICK n \in Thread : n = NumTask + thread_id  BY <1>6 DEF do_mthread_create
  <2>2. n \in Task /\ ~ Created(n)
    BY <2>1, ConstantsOK DEF Created, Proc, Thread, Task, IInv, OthersTyped
  <2>3. /\ queue' = list_add_tail(queue, ReadyQ, n)
        /\ status' = [status EXCEPT ![n] = "READY"] /\ UNCHANGED slotVars
        /\ \A t \in Task \ {n} : pid'[t] = pid[t]
    BY <1>6, <2>1 DEF do_mthread_create, IInv, OthersTyped
  <2>. QED  BY <1>5, <2>2, <2>3
<1>7. CASE (\E m \in Modes : do_exec(m)) /\ ~ WritesPast
  <2>1. PICK n \in Proc : n = process_num + 1  BY <1>7 DEF do_exec
  <2>2. n \in Task /\ ~ Created(n)
    BY <2>1, ConstantsOK DEF Created, Proc, Thread, Task, IInv, OthersTyped
  <2>3. /\ queue' = list_add_tail(queue, ReadyQ, n)
        /\ status' = [status EXCEPT ![n] = "READY"] /\ UNCHANGED slotVars
        /\ \A t \in Task \ {n} : pid'[t] = pid[t]
    BY <1>7, <2>1 DEF do_exec, IInv, OthersTyped
  <2>. QED  BY <1>5, <2>2, <2>3
<1>8. ASSUME NEW q, NEW st, do_scheduler(q, st, pid), UNCHANGED <<taskVars, slotVars>>,
             \A x \in Mutex : q[SemQ(x)] = queue[SemQ(x)],
             st = SetStatus(status, {cur}, "BLOCKED")
      PROVE  MutexSame
  <2>1. \A t \in Task : st[t] \in {"ZOMBIE", "EXITED"} => st[t] = status[t]
    BY <1>8 DEF SetStatus
  <2>2. Lists /\ \A t \in Task : status'[t] \in {"ZOMBIE", "EXITED"} => status'[t] = status[t]
    BY <1>0, <1>8, <2>1, OtherLists
  <2>3. Fate  BY <1>8, <2>2, NoneKilled DEF taskVars
  <2>. QED  BY <1>8, <2>2, <2>3 DEF MutexSame, Blocked, slotVars
<1>9. CASE \E d \in 0 .. MaxSleep : do_sleep(d)
  <2>1. /\ do_scheduler(list_add_tail(list_del(queue, cur), TimerQ, cur),
                        SetStatus(status, {cur}, "BLOCKED"), pid)
        /\ UNCHANGED <<taskVars, slotVars>> /\ cur # Idle
    BY <1>9 DEF do_sleep
  <2>2. \A x \in Mutex : list_add_tail(list_del(queue, cur), TimerQ, cur)[SemQ(x)] = queue[SemQ(x)]
    BY <1>0, <1>1, <2>1 DEF list_add_tail, list_del, InSome
  <2>. QED  BY <1>8, <2>1, <2>2
<1>10. CASE \E p \in Proc : do_waitpid(p)
  <2>1. PICK p \in Proc : do_waitpid(p)  BY <1>10
  <2>2. p \in Task  BY ConstantsOK DEF Proc, Task
  <2>3. /\ do_scheduler(list_add_tail(queue, WaitQ(p), cur),
                        SetStatus(status, {cur}, "BLOCKED"), pid)
        /\ UNCHANGED <<taskVars, slotVars>>
    BY <2>1 DEF do_waitpid
  <2>4. \A x \in Mutex : list_add_tail(queue, WaitQ(p), cur)[SemQ(x)] = queue[SemQ(x)]
    BY <1>0, <2>2 DEF list_add_tail
  <2>. QED  BY <1>8, <2>3, <2>4
<1>. QED  BY <1>2, <1>3, <1>4, <1>6, <1>7, <1>9, <1>10, <1>12

\* What blocking in a slot does to the lists of the slots.
LEMMA WaitMoves ==
  ASSUME IInv, cur # Idle, NEW x \in Slot, Wait(x)
  PROVE  /\ \A y \in Slot : queue'[SemQ(y)] = IF y = x THEN Append(queue[SemQ(x)], cur)
                                              ELSE queue[SemQ(y)]
         /\ \A t \in Task : status'[t] \in {"ZOMBIE", "EXITED"} => status'[t] = status[t]
<1>. DEFINE q  == list_add_tail(queue, SemQ(x), cur)
            st == SetStatus(status, {cur}, "BLOCKED")
<1>1. do_scheduler(q, st, pid)  BY DEF Wait
<1>2. \A t \in Task : st[t] \in {"ZOMBIE", "EXITED"} => st[t] = status[t]  BY DEF SetStatus
<1>3. \A y \in Slot : q[SemQ(y)] = IF y = x THEN Append(queue[SemQ(x)], cur) ELSE queue[SemQ(y)]
  BY Names DEF list_add_tail, SemQ
<1>. HIDE DEF q, st
<1>. QED  BY <1>1, <1>2, <1>3, OtherLists, Names

\* What waking the first waiters of a slot does to the lists of the slots.
LEMMA WakeMoves ==
  ASSUME IInv, NEW x \in Slot, NEW n, Wake(x, n)
  PROVE  /\ \A y \in Slot : queue'[SemQ(y)] =
              IF y = x THEN SubSeq(queue[SemQ(x)], n + 1, Len(queue[SemQ(x)]))
              ELSE queue[SemQ(y)]
         /\ \A t \in Task : status'[t] \in {"ZOMBIE", "EXITED"} => status'[t] = status[t]
<1>1. \A t \in Task : status'[t] \in {"ZOMBIE", "EXITED"} => status'[t] = status[t]
  BY DEF Wake, Release, SetStatus
<1>2. /\ queue' = [queue EXCEPT ![SemQ(x)] = SubSeq(queue[SemQ(x)], n + 1, Len(queue[SemQ(x)])),
                                ![ReadyQ] = @ \o SubSeq(queue[SemQ(x)], 1, n)]
      /\ queue \in [QName -> NoDup(Task)]
  BY DEF Wake, Release, IInv, Discipline, QueuesOK
<1>3. \A y \in Slot : SemQ(y) \in QName /\ SemQ(y) # ReadyQ /\ (SemQ(y) = SemQ(x) <=> y = x)
  BY Names DEF SemQ
<1>. QED  BY <1>1, <1>2, <1>3

\* The calls on semaphores and barriers touch no mutex.
LEMMA SlotCallsSame ==
  ASSUME IInv, Buried, NEW x \in Sema \cup Barrier,
         \/ do_sem_up(x) \/ do_sem_down(x) \/ do_sem_destroy(x)
         \/ \E n \in Counts : do_sem_init(x, n)
         \/ x \in Barrier /\ \E n \in Counts : do_barrier_init(x, n)
         \/ x \in Barrier /\ do_barrier_wait(x)
  PROVE  MutexSame
<1>1. /\ x \in Slot /\ \A y \in Mutex : y \in Slot /\ y # x
      /\ cur # Idle /\ UNCHANGED <<taskVars, owner, locks>>
  BY ConstantsOK DEF Slot, do_sem_up, do_sem_down, do_sem_destroy, do_sem_init,
                     do_barrier_init, do_barrier_wait
<1>2. \A y \in Mutex : sem_s'[y] = sem_s[y] /\ busy'[y] = busy[y]
  BY <1>1 DEF do_sem_up, do_sem_down, do_sem_destroy, do_sem_init,
              do_barrier_init, do_barrier_wait, Up, Down, IInv, OthersTyped
<1>3. /\ \A y \in Mutex : queue'[SemQ(y)] = queue[SemQ(y)]
      /\ \A t \in Task : status'[t] \in {"ZOMBIE", "EXITED"} => status'[t] = status[t]
  <2>1. CASE UNCHANGED <<queue, status>>  BY <2>1
  <2>2. CASE Wait(x)  BY <1>1, <2>2, WaitMoves
  <2>3. CASE \E n : Wake(x, n)  BY <1>1, <2>3, WakeMoves
  <2>. QED
    BY <2>1, <2>2, <2>3 DEF do_sem_up, do_sem_down, do_sem_destroy, do_sem_init,
              do_barrier_init, do_barrier_wait, Up, Down
<1>4. \A t \in Task : Killed(t)' <=> Killed(t)  BY <1>1, <1>3, NoneKilled DEF taskVars
<1>. QED  BY <1>1, <1>2, <1>3, <1>4 DEF MutexSame, Blocked

\* do_mutex_lock_init: nobody holds a mutex that is not in use.
LEMMA MutexInitKeeps ==
  ASSUME IInv, LocksInv, Buried, NEW x \in Mutex, NEW n \in Counts, do_sem_init(x, n)
  PROVE  LocksInv'
<1>1. /\ UNCHANGED <<queue, status, taskVars, locks, owner>> /\ n = 1 /\ ~ busy[x]
      /\ busy' = [busy EXCEPT ![x] = TRUE] /\ sem_s' = [sem_s EXCEPT ![x] = n]
  BY DEF do_sem_init
<1>2. \A y \in Mutex : sem_s'[y] = (IF y = x THEN 1 ELSE sem_s[y])
                       /\ busy'[y] = (IF y = x THEN TRUE ELSE busy[y])
  BY <1>1 DEF IInv, OthersTyped, Slot
<1>3. /\ \A t : Killed(t)' <=> Killed(t)
      /\ \A y : Blocked(y)' = Blocked(y)
  BY <1>1 DEF Killed, Blocked, taskVars
<1>4. owner[x] = {}  BY <1>1 DEF LocksInv, Owned
<1>5. Owned'  BY <1>1, <1>2, <1>3, <1>4 DEF LocksInv, Owned
<1>6. Recorded'  BY <1>1 DEF LocksInv, Recorded, Killed, Blocked, taskVars
<1>7. WaitsForLast'  BY <1>1 DEF LocksInv, WaitsForLast, Killed, Blocked, taskVars
<1>. QED  BY <1>5, <1>6, <1>7 DEF LocksInv

\* do_mutex_lock_acquire: a mutex with s > 0 has no owner.
LEMMA AcquireKeeps ==
  ASSUME IInv, LocksInv, Buried, NEW x \in Mutex, do_mutex_lock_acquire(x)
  PROVE  LocksInv'
<1>0. PICK c \in Task : c = cur /\ ~ InSome(queue, c) /\ ~ Killed(c)
  BY Caller DEF IInv, do_mutex_lock_acquire, Killed
<1>1. /\ cur # Idle /\ busy[x] /\ Down(x) /\ UNCHANGED <<taskVars, busy>> /\ x \in Slot
      /\ locks' = [locks EXCEPT ![c] = Append(locks[c], x)]
      /\ owner' = IF sem_s[x] > 0 THEN [owner EXCEPT ![x] = @ \cup {c}] ELSE owner
  BY <1>0 DEF do_mutex_lock_acquire, Slot
<1>. DEFINE L == Append(locks[c], x)
            n == Len(locks[c])
<1>2. /\ n \in Nat /\ DOMAIN locks[c] = 1 .. n
      /\ Len(L) = n + 1 /\ DOMAIN L = 1 .. n + 1 /\ L[n + 1] = x
      /\ \A i \in 1 .. n : L[i] = locks[c][i] /\ locks[c][i] \in Mutex
  <2>1. locks[c] \in Seq(Mutex)  BY MutexTypes
  <2>. QED  BY <2>1, AppendProperties, LenProperties, ElementOfSeq
<1>3. /\ locks'[c] = L /\ \A t \in Task \ {c} : locks'[t] = locks[t]
  BY <1>1 DEF IInv, OthersTyped
<1>. HIDE DEF L, n
<1>4. \A y \in Mutex : c \notin Blocked(y) /\ Blocked(y) \subseteq Task /\ owner[y] \subseteq Task
  BY <1>0, MutexTypes
<1>5. \A i \in 1 .. n : /\ c \in owner[locks[c][i]]
                        /\ \A j \in 1 .. n : j < i => locks[c][j] # locks[c][i]
  BY <1>0, <1>2, <1>4 DEF LocksInv, Recorded
<1>6. \A t \in Task : Range(locks[t]) \subseteq Range(locks'[t])
  <2>1. Range(locks[c]) \subseteq Range(L)  BY <1>2 DEF Range
  <2>. QED  BY <1>3, <2>1
<1>7. CASE sem_s[x] > 0
  <2>1. /\ sem_s' = [sem_s EXCEPT ![x] = @ - 1] /\ UNCHANGED <<queue, cur, status>>
        /\ owner' = [owner EXCEPT ![x] = @ \cup {c}]
    <3>1. sem_s[x] \in {0, 1}  BY DEF LocksInv, Owned
    <3>2. ~ (sem_s[x] <= 0)  BY <1>7, <3>1
    <3>. QED  BY <1>1, <1>7, <3>2 DEF Down
  <2>2. sem_s[x] = 1 /\ owner[x] = {}
    BY <1>7 DEF LocksInv, Owned
  <2>3. /\ \A y \in Mutex : sem_s'[y] = (IF y = x THEN 0 ELSE sem_s[y])
        /\ \A y \in Mutex : owner'[y] = (IF y = x THEN {c} ELSE owner[y])
    BY <1>1, <2>1, <2>2 DEF IInv, OthersTyped
  <2>4. /\ \A t : Killed(t)' <=> Killed(t)
        /\ \A y : Blocked(y)' = Blocked(y)
    BY <1>1, <2>1 DEF Killed, Blocked, taskVars
  <2>5. x \in Range(L)  BY <1>2 DEF Range
  <2>6. Owned'
    <3>. SUFFICES ASSUME NEW y \in Mutex
                  PROVE  /\ sem_s'[y] \in {0, 1}
                         /\ owner'[y] # {} => sem_s'[y] = 0 /\ busy'[y]
                         /\ \A t \in owner'[y] : /\ owner'[y] = {t} /\ ~ Killed(t)'
                                                 /\ y \in Range(locks'[t])
      BY DEF Owned
    <3>1. CASE y = x
      <4>1. /\ sem_s'[x] = 0 /\ busy'[x] /\ owner'[x] = {c} /\ ~ Killed(c)'
            /\ x \in Range(locks'[c])
        BY <1>0, <1>1, <1>3, <2>3, <2>4, <2>5
      <4>. QED  BY <3>1, <4>1
    <3>2. CASE y # x  BY <1>1, <1>4, <1>6, <2>3, <2>4, <3>2 DEF LocksInv, Owned
    <3>. QED  BY <3>1, <3>2
  <2>7. Recorded'
    <3>. SUFFICES ASSUME NEW t \in Task, ~ Killed(t)', NEW i \in DOMAIN locks'[t],
                         NEW y, y = locks'[t][i]
                  PROVE  \/ /\ t \in owner'[y]
                            /\ \A j \in DOMAIN locks'[t] : j < i => locks'[t][j] # y
                         \/ i = Len(locks'[t]) /\ t \in Blocked(y)'
      BY DEF Recorded, Blocked
    <3>1. CASE t = c
      <4>1. CASE i = n + 1
        <5>1. y = x /\ c \in owner'[x]  BY <1>2, <1>3, <2>3, <3>1, <4>1
        <5>2. \A j \in 1 .. n : L[j] # x  BY <1>2, <1>5, <2>2
        <5>. QED  BY <1>2, <1>3, <3>1, <4>1, <5>1, <5>2
      <4>2. CASE i # n + 1
        <5>1. i \in 1 .. n /\ y = locks[c][i]  BY <1>2, <1>3, <3>1, <4>2
        <5>2. c \in owner'[y]  BY <1>2, <1>5, <2>3, <5>1
        <5>3. \A j \in DOMAIN L : j < i => j \in 1 .. n /\ L[j] = locks[c][j]
          BY <1>2, <5>1
        <5>. QED  BY <1>3, <1>5, <3>1, <5>1, <5>2, <5>3
      <4>. QED  BY <4>1, <4>2
    <3>2. CASE t # c
      <4>1. locks'[t] = locks[t] /\ ~ Killed(t) /\ y \in Mutex
        BY <1>3, <2>4, <3>2, MutexTypes
      <4>. QED  BY <2>2, <2>3, <2>4, <4>1 DEF LocksInv, Recorded
    <3>. QED  BY <3>1, <3>2
  <2>8. WaitsForLast'
    BY <1>3, <1>4, <2>4 DEF LocksInv, WaitsForLast
  <2>. QED  BY <2>6, <2>7, <2>8 DEF LocksInv
<1>8. CASE ~ (sem_s[x] > 0)
  <2>1. Wait(x) /\ UNCHANGED <<sem_s, owner>>  BY <1>1, <1>8 DEF Down
  <2>2. /\ \A y \in Mutex : queue'[SemQ(y)] = IF y = x THEN Append(queue[SemQ(x)], cur)
                                              ELSE queue[SemQ(y)]
        /\ \A t \in Task : status'[t] \in {"ZOMBIE", "EXITED"} => status'[t] = status[t]
    BY <1>1, <2>1, WaitMoves DEF Slot
  <2>3. \A y \in Mutex : Blocked(y)' = IF y = x THEN Blocked(x) \cup {c} ELSE Blocked(y)
    <3>1. /\ queue[SemQ(x)] \in NoDup(Task) /\ cur \notin Range(queue[SemQ(x)])
      BY <1>0, <1>1, <1>4, Names DEF IInv, Discipline, QueuesOK, Blocked
    <3>2. Range(Append(queue[SemQ(x)], cur)) = Range(queue[SemQ(x)]) \cup {cur}
      BY <1>0, <3>1, AppendNew
    <3>. QED  BY <1>0, <2>2, <3>2 DEF Blocked
  <2>4. \A t \in Task : Killed(t)' <=> Killed(t)
    BY <1>1, <2>2, NoneKilled DEF taskVars
  <2>5. Owned'
    BY <1>1, <1>4, <1>6, <2>1, <2>4 DEF LocksInv, Owned
  <2>6. Recorded'
    <3>. SUFFICES ASSUME NEW t \in Task, ~ Killed(t)', NEW i \in DOMAIN locks'[t],
                         NEW y, y = locks'[t][i]
                  PROVE  \/ /\ t \in owner[y]
                            /\ \A j \in DOMAIN locks'[t] : j < i => locks'[t][j] # y
                         \/ i = Len(locks'[t]) /\ t \in Blocked(y)'
      BY <2>1 DEF Recorded, Blocked
    <3>1. CASE t = c
      <4>1. CASE i = n + 1  BY <1>2, <1>3, <2>3, <3>1, <4>1
      <4>2. CASE i # n + 1
        <5>1. i \in 1 .. n /\ y = locks[c][i]  BY <1>2, <1>3, <3>1, <4>2
        <5>3. \A j \in DOMAIN L : j < i => j \in 1 .. n /\ L[j] = locks[c][j]
          BY <1>2, <5>1
        <5>. QED  BY <1>3, <1>5, <3>1, <5>1, <5>3
      <4>. QED  BY <4>1, <4>2
    <3>2. CASE t # c
      <4>1. locks'[t] = locks[t] /\ ~ Killed(t) /\ y \in Mutex
        BY <1>3, <2>4, <3>2, MutexTypes
      <4>. QED  BY <2>3, <4>1 DEF LocksInv, Recorded
    <3>. QED  BY <3>1, <3>2
  <2>7. WaitsForLast'
    <3>. SUFFICES ASSUME NEW y \in Mutex, NEW t \in Blocked(y)'
                  PROVE  Len(locks'[t]) \in DOMAIN locks'[t] /\ locks'[t][Len(locks'[t])] = y
      BY DEF WaitsForLast
    <3>1. CASE t = c  BY <1>2, <1>3, <1>4, <2>3, <3>1
    <3>2. CASE t # c
      <4>1. t \in Blocked(y) /\ locks'[t] = locks[t]  BY <1>3, <1>4, <2>3, <3>2
      <4>. QED  BY <4>1 DEF LocksInv, WaitsForLast
    <3>. QED  BY <3>1, <3>2
  <2>. QED  BY <2>5, <2>6, <2>7 DEF LocksInv
<1>. QED  BY <1>7, <1>8

\* do_mutex_lock_release of the mutex locked last: its owner hands it over.
LEMMA ReleaseKeeps ==
  ASSUME IInv, LocksInv, Buried, NEW x \in Mutex, do_mutex_lock_release(x),
         "unlockOther" \notin Misuse
  PROVE  LocksInv'
<1>0. PICK c \in Task : c = cur /\ ~ InSome(queue, c) /\ ~ Killed(c)
  BY Caller DEF IInv, do_mutex_lock_release, Killed
<1>1. PICK n \in Nat : n = Len(locks[c]) /\ DOMAIN locks[c] = 1 .. n  BY MutexTypes
<1>. DEFINE L == SubSeq(locks[c], 1, n - 1)
            q == queue[SemQ(x)]
<1>2. /\ cur # Idle /\ busy[x] /\ Up(x) /\ UNCHANGED <<taskVars, busy>> /\ x \in Slot
      /\ \E i \in DOMAIN locks[c] : locks[c][i] = x
      /\ locks[c][n] = x
      /\ locks' = [locks EXCEPT ![c] = L]
      /\ owner' = [owner EXCEPT ![x] = (@ \ {c}) \cup {q[i] : i \in DOMAIN q \cap {1}}]
  BY <1>0, <1>1 DEF do_mutex_lock_release, Slot
<1>3. n >= 1 /\ n \in 1 .. n  BY <1>1, <1>2
<1>4. /\ \A i \in 1 .. n : locks[c][i] \in Mutex
      /\ \A y \in Mutex : c \notin Blocked(y)
  BY <1>0, <1>1, MutexTypes
<1>5. /\ DOMAIN L = 1 .. n - 1
      /\ \A i \in 1 .. n - 1 : L[i] = locks[c][i]
  <2>1. /\ 1 \in Int /\ n - 1 \in Int /\ \A i \in 1 .. n - 1 : locks[c][i] \in Mutex
    BY <1>3, <1>4
  <2>2. /\ L \in Seq(Mutex) /\ Len(L) = (IF 1 <= n - 1 THEN n - 1 - 1 + 1 ELSE 0)
        /\ \A i \in 1 .. n - 1 - 1 + 1 : L[i] = locks[c][1 + i - 1]
    BY <2>1, SubSeqProperties
  <2>3. Len(L) = n - 1  BY <1>3, <2>2
  <2>. HIDE DEF L
  <2>. QED  BY <2>2, <2>3, LenProperties
<1>6. locks'[c] = L /\ \A t \in Task \ {c} : locks'[t] = locks[t]
  BY <1>2 DEF IInv, OthersTyped
<1>. HIDE DEF L
<1>7. \A i \in 1 .. n : /\ c \in owner[locks[c][i]]
                        /\ \A j \in 1 .. n : j < i => locks[c][j] # locks[c][i]
  BY <1>0, <1>1, <1>4 DEF LocksInv, Recorded
<1>8. owner[x] = {c} /\ sem_s[x] = 0
  BY <1>2, <1>3, <1>7 DEF LocksInv, Owned
<1>9. /\ q \in NoDup(Task) /\ q \in Seq(Task) /\ Len(q) \in Nat /\ DOMAIN q = 1 .. Len(q)
  BY <1>2, Names, LenProperties DEF IInv, Discipline, QueuesOK, NoDup
<1>10. \A y \in Mutex : owner'[y] = IF y = x THEN {q[i] : i \in DOMAIN q \cap {1}} ELSE owner[y]
  <2>1. owner[x] \ {c} = {}  BY <1>8
  <2>. QED  BY <1>2, <2>1 DEF IInv, OthersTyped
<1>11. /\ \A y \in Mutex \ {x} : sem_s'[y] = sem_s[y] /\ Blocked(y)' = Blocked(y)
       /\ \/ /\ Blocked(x)' = {} /\ Blocked(x) = {}
             /\ owner'[x] = {} /\ sem_s'[x] = 1
          \/ \E h \in Blocked(x) : /\ Blocked(x)' = Blocked(x) \ {h}
                                   /\ owner'[x] = {h} /\ sem_s'[x] = sem_s[x]
       /\ \A t \in Task : Killed(t)' <=> Killed(t)
  <2>1. CASE q # <<>>
    <3>1. Wake(x, 1) /\ UNCHANGED sem_s  BY <1>2, <2>1 DEF Up
    <3>2. /\ \A y \in Mutex : queue'[SemQ(y)] =
               IF y = x THEN SubSeq(q, 2, Len(q)) ELSE queue[SemQ(y)]
          /\ \A t \in Task : status'[t] \in {"ZOMBIE", "EXITED"} => status'[t] = status[t]
      <4>1. PICK m \in Int : m = 1 + 1  OBVIOUS
      <4>2. /\ \A y \in Slot : queue'[SemQ(y)] =
                  IF y = x THEN SubSeq(q, m, Len(q)) ELSE queue[SemQ(y)]
            /\ \A t \in Task : status'[t] \in {"ZOMBIE", "EXITED"} => status'[t] = status[t]
        BY <1>2, <3>1, <4>1, WakeMoves
      <4>3. m = 2  BY <4>1
      <4>. QED  BY <4>2, <4>3 DEF Slot
    <3>3. Len(q) >= 1  BY <1>9, <2>1, EmptySeq
    <3>4. Tail(q) = SubSeq(q, 2, Len(q)) /\ Head(q) = q[1]  BY <1>9, <2>1, TailIsSubSeq
    <3>5. q[1] \in Range(q) /\ Range(SubSeq(q, 2, Len(q))) = Range(q) \ {q[1]}
      BY <1>9, <2>1, <3>4, TakeHead
    <3>6. {q[i] : i \in DOMAIN q \cap {1}} = {q[1]}
      <4>1. DOMAIN q \cap {1} = {1}  BY <1>9, <3>3
      <4>. QED  BY <4>1
    <3>7. \A t \in Task : Killed(t)' <=> Killed(t)
      BY <1>2, <3>2, NoneKilled DEF taskVars
    <3>8. queue'[SemQ(x)] = SubSeq(q, 2, Len(q))  BY <3>2
    <3>. QED  BY <1>10, <3>1, <3>2, <3>5, <3>6, <3>7, <3>8 DEF Blocked
  <2>2. CASE q = <<>>
    <3>1. sem_s' = [sem_s EXCEPT ![x] = @ + 1] /\ UNCHANGED <<queue, cur, status>>
      BY <1>2, <2>2 DEF Up
    <3>2. \A y \in Mutex : sem_s'[y] = IF y = x THEN 1 ELSE sem_s[y]
      BY <1>2, <1>8, <3>1 DEF IInv, OthersTyped, Slot
    <3>3. DOMAIN q = {} /\ Range(q) = {}  BY <2>2 DEF Range
    <3>4. owner'[x] = {}  BY <1>10, <3>3
    <3>. QED  BY <1>2, <3>1, <3>2, <3>3, <3>4 DEF Blocked, Killed, taskVars
  <2>. QED  BY <2>1, <2>2
<1>12. \A i \in DOMAIN locks'[c] : /\ i \in DOMAIN locks[c] /\ ~ Killed(c)
                                   /\ locks'[c][i] = locks[c][i]
                                   /\ locks[c][i] \notin {x}
  <2>1. \A i \in 1 .. n - 1 : i \in 1 .. n /\ i < n  BY <1>3
  <2>. QED  BY <1>0, <1>1, <1>2, <1>3, <1>5, <1>6, <1>7, <2>1
<1>13. ASSUME NEW y \in Mutex \ {x}, c \in owner[y]
       PROVE  ~ Killed(c)' /\ y \in Range(locks'[c])
  <2>1. PICK i \in 1 .. n : locks[c][i] = y
    BY <1>1, <1>13 DEF LocksInv, Owned, Range
  <2>2. i \in 1 .. n - 1  BY <1>2, <2>1
  <2>. QED  BY <1>0, <1>5, <1>6, <1>11, <2>1, <2>2 DEF Range
<1>. DEFINE X == {x}
<1>14. /\ X \in SUBSET Mutex
       /\ \A y \in Mutex \ X : /\ sem_s'[y] = sem_s[y] /\ owner'[y] = owner[y]
                               /\ Blocked(y)' = Blocked(y)
       /\ \A y \in Mutex \ X : c \in owner[y] => ~ Killed(c)' /\ y \in Range(locks'[c])
       /\ \A i \in DOMAIN locks'[c] : /\ i \in DOMAIN locks[c] /\ ~ Killed(c)
                                      /\ locks'[c][i] = locks[c][i]
                                      /\ locks[c][i] \notin X
  BY <1>10, <1>11, <1>12, <1>13
<1>15. \A y \in X : /\ owner[y] = {c}
                    /\ \/ /\ Blocked(y)' = {} /\ Blocked(y) = {}
                          /\ owner'[y] = {} /\ sem_s'[y] = 1
                       \/ \E h \in Blocked(y) : /\ Blocked(y)' = Blocked(y) \ {h}
                                                /\ owner'[y] = {h} /\ sem_s'[y] = sem_s[y]
  BY <1>8, <1>11
<1>16. \A y \in Mutex : busy'[y] = busy[y]  BY <1>2
<1>. HIDE DEF X
<1>. QED  BY <1>4, <1>6, <1>11, <1>14, <1>15, <1>16, HandOver

\* The victim of do_kill ends EXITED, even when it is the caller.
LEMMA VictimExits ==
  ASSUME IInv, NEW v \in Task, Kill(v), ~ Hang
  PROVE  status'[v] = "EXITED"
<1>1. IF v = cur THEN do_scheduler(AfterKill(v), StatusAfterKill(v), pid)
      ELSE queue' = AfterKill(v) /\ status' = StatusAfterKill(v) /\ UNCHANGED cur
  BY DEF Kill, AfterKill, StatusAfterKill, Freed
<1>2. \A t \in Task : StatusAfterKill(v)[t] =
         IF t = v THEN "EXITED" ELSE IF t \in Freed(v) THEN "READY" ELSE status[t]
  BY DEF StatusAfterKill, SetStatus
<1>3. CASE v # cur  BY <1>1, <1>2, <1>3
<1>4. CASE v = cur
  <2>1. QueuesOK(AfterKill(v), StatusAfterKill(v)) /\ ~ InSome(AfterKill(v), v)
    BY KillMoves DEF IInv, Discipline, OthersTyped
  <2>2. StatusAfterKill(v)[v] = "EXITED"  BY <1>2
  <2>3. \A t \in Task : StatusAfterKill(v)[t] = "RUNNING" => t = cur
    BY <1>2, <1>4 DEF IInv, Discipline, RunsOnly
  <2>4. cur \in Task \cup {Idle} /\ do_scheduler(AfterKill(v), StatusAfterKill(v), pid)
    BY <1>1, <1>4
  <2>5. StatusAfterKill(v)[cur] \in Stopped  BY <1>4, <2>2 DEF Stopped
  <2>6. \A t \in Task : \/ InSome(AfterKill(v), t)
                        \/ t = cur /\ StatusAfterKill(v)[t] \notin Stopped
                        \/ status'[t] = StatusAfterKill(v)[t]
    BY <2>1, <2>3, <2>4, <2>5, Scheduled
  <2>. QED  BY <1>4, <2>1, <2>2, <2>5, <2>6
<1>. QED  BY <1>3, <1>4

\* do_kill on a task that waits in no slot and is not dead: it hands over all the
\* mutexes it holds.
LEMMA KillHandsOver ==
  ASSUME IInv, LocksInv, Buried, cur # Idle, NEW v \in Task, Kill(v),
         ~ WaitsInSlot(v), ~ Dead(v), Created(v)
  PROVE  LocksInv'
<1>1. CASE Hang
  <2>1. MutexSame  BY <1>1 DEF Hang, MutexSame, Blocked, Killed, slotVars, taskVars
  <2>. QED  BY <2>1, SameKeeps
<1>2. CASE ~ Hang
  <2>. DEFINE q   == Unlinked(v)
              rec == Records(v)
              g   == Granted(q, rec)
              X   == Range(rec)
  <2>1. /\ IF v = cur THEN do_scheduler(AfterKill(v), StatusAfterKill(v), pid)
           ELSE queue' = AfterKill(v) /\ status' = StatusAfterKill(v) /\ UNCHANGED cur
        /\ sem_s' = [x \in Slot |-> IF Uses(rec, SemQ(x)) > Len(q[SemQ(x)])
                                   THEN 1 ELSE sem_s[x]]
        /\ owner' = [x \in Mutex |->
                       IF x \notin Range(rec) THEN owner[x]
                       ELSE (owner[x] \ {v}) \cup (Range(q[SemQ(x)]) \cap Range(g))]
        /\ UNCHANGED <<taskVars, due, locks, busy, need, hung>>
    BY <1>2 DEF Kill, AfterKill, StatusAfterKill, Freed
  <2>2. rec = locks[v]  BY DEF Records
  <2>3. /\ QueuesOK(q, status) /\ QueuesOK(queue, status)
    BY Unlinks DEF IInv, Discipline
  <2>4. \A x \in Mutex : x \in Slot /\ SemQ(x) \in QName /\ SemQ(x) # ReadyQ
                         /\ SemQ(x) # WaitQ(v)
    BY Names DEF Slot
  <2>5. \A x \in Mutex : v \notin Blocked(x) /\ q[SemQ(x)] = queue[SemQ(x)]
    <3>1. \A x \in Mutex : v \notin Blocked(x)  BY <2>4 DEF WaitsInSlot, Blocked
    <3>. QED  BY <2>4, <3>1 DEF Unlinked, list_del, Blocked
  <2>6. PICK n \in Nat : n = Len(rec) /\ DOMAIN rec = 1 .. n  BY <2>2, MutexTypes
  <2>7. rec \in Seq(Mutex) /\ \A i \in 1 .. n : rec[i] \in Mutex  BY <2>2, <2>6, MutexTypes
  <2>8. ~ Killed(v) /\ pid[v] # 0  BY DEF Killed, Dead
  <2>9. \A i \in 1 .. n : /\ v \in owner[rec[i]]
                          /\ \A j \in 1 .. n : j < i => rec[j] # rec[i]
    BY <2>2, <2>5, <2>6, <2>7, <2>8 DEF LocksInv, Recorded
  <2>. HIDE DEF q, rec
  <2>10. \A x \in X : x \in Mutex /\ owner[x] = {v} /\ sem_s[x] = 0
    BY <2>6, <2>7, <2>9 DEF LocksInv, Owned, Range
  <2>11. \A x \in Mutex : Uses(rec, SemQ(x)) = IF x \in X THEN 1 ELSE 0
    <3>. SUFFICES ASSUME NEW x \in Mutex
                  PROVE  Uses(rec, SemQ(x)) = IF x \in X THEN 1 ELSE 0
      OBVIOUS
    <3>. DEFINE I == {i \in DOMAIN rec : rec[i] = x}
    <3>1. Uses(rec, SemQ(x)) = Cardinality(I)  BY DEF Uses, SemQ
    <3>2. CASE x \in X
      <4>1. PICK i \in 1 .. n : rec[i] = x  BY <2>6, <3>2 DEF Range
      <4>2. \A j \in 1 .. n : rec[j] = x => j = i
        <5>. SUFFICES ASSUME NEW j \in 1 .. n, rec[j] = x, j # i  PROVE FALSE
          OBVIOUS
        <5>1. j < i \/ i < j  OBVIOUS
        <5>. QED  BY <2>9, <4>1, <5>1
      <4>3. I = {i}  BY <2>6, <4>1, <4>2
      <4>. QED  BY <3>1, <3>2, <4>3, FS_Singleton
    <3>3. CASE x \notin X
      <4>1. I = {}  BY <3>3 DEF Range
      <4>. QED  BY <3>1, <3>3, <4>1, FS_EmptySet
    <3>. QED  BY <3>2, <3>3
  <2>12. \A t : t \in Range(g) <=> \E x \in Mutex : \E k \in 1 .. Len(q[SemQ(x)]) :
                   k <= Uses(rec, SemQ(x)) /\ t = q[SemQ(x)][k]
    BY <2>3, <2>7, GrantedTo
  <2>. HIDE DEF g, X
  <2>13. \A x \in Mutex : /\ q[SemQ(x)] \in NoDup(Task) /\ q[SemQ(x)] \in Seq(Task)
                          /\ Len(q[SemQ(x)]) \in Nat /\ DOMAIN q[SemQ(x)] = 1 .. Len(q[SemQ(x)])
                          /\ \A i \in DOMAIN q[SemQ(x)] : q[SemQ(x)][i] \in Range(q[SemQ(x)])
    BY <2>3, <2>4, LenProperties DEF QueuesOK, NoDup, Range
  <2>14. \A x, y \in Mutex : x # y => Range(q[SemQ(x)]) \cap Range(q[SemQ(y)]) = {}
    BY <2>5, MutexTypes DEF Blocked
  <2>15. \A x \in Mutex : queue'[SemQ(x)] =
            SubSeq(q[SemQ(x)], Uses(rec, SemQ(x)) + 1, Len(q[SemQ(x)]))
    <3>1. \A x \in Mutex : AfterKill(v)[SemQ(x)] =
             SubSeq(q[SemQ(x)], Uses(rec, SemQ(x)) + 1, Len(q[SemQ(x)]))
      BY <2>4 DEF AfterKill, q, rec
    <3>. QED  BY <2>1, <2>4, <3>1, OtherLists
  <2>16. ASSUME NEW x \in Mutex, x \notin X
         PROVE  /\ sem_s'[x] = sem_s[x] /\ owner'[x] = owner[x] /\ Blocked(x)' = Blocked(x)
                /\ v \notin owner[x]
    <3>1. Uses(rec, SemQ(x)) = 0  BY <2>11, <2>16
    <3>2. sem_s'[x] = sem_s[x] /\ owner'[x] = owner[x]
      BY <2>1, <2>4, <2>13, <2>16, <3>1 DEF X
    <3>3. queue'[SemQ(x)] = SubSeq(q[SemQ(x)], 1, Len(q[SemQ(x)]))
      <4>1. PICK m \in Int : m = Uses(rec, SemQ(x)) + 1  BY <3>1
      <4>2. queue'[SemQ(x)] = SubSeq(q[SemQ(x)], m, Len(q[SemQ(x)]))  BY <2>15, <4>1
      <4>3. m = 1  BY <3>1, <4>1
      <4>. QED  BY <4>2, <4>3
    <3>4. queue'[SemQ(x)] = q[SemQ(x)]  BY <2>13, <3>3
    <3>5. v \notin owner[x]  BY <2>2, <2>16 DEF LocksInv, Owned, X
    <3>. QED  BY <2>5, <3>2, <3>4, <3>5 DEF Blocked
  <2>17. ASSUME NEW x \in X
         PROVE  /\ owner[x] = {v}
                /\ \/ /\ Blocked(x)' = {} /\ Blocked(x) = {}
                      /\ owner'[x] = {} /\ sem_s'[x] = 1
                   \/ \E h \in Blocked(x) : /\ Blocked(x)' = Blocked(x) \ {h}
                                            /\ owner'[x] = {h} /\ sem_s'[x] = sem_s[x]
    <3>. DEFINE s == q[SemQ(x)]
    <3>1. /\ x \in Mutex /\ owner[x] = {v} /\ Uses(rec, SemQ(x)) = 1
          /\ Blocked(x) = Range(s)
      BY <2>5, <2>10, <2>11 DEF Blocked
    <3>2. /\ s \in NoDup(Task) /\ s \in Seq(Task) /\ Len(s) \in Nat /\ DOMAIN s = 1 .. Len(s)
      BY <2>13, <3>1
    <3>3. /\ sem_s'[x] = (IF 1 > Len(s) THEN 1 ELSE sem_s[x])
          /\ owner'[x] = Range(s) \cap Range(g)
          /\ queue'[SemQ(x)] = SubSeq(s, 2, Len(s))
      <4>1. sem_s'[x] = IF Uses(rec, SemQ(x)) > Len(s) THEN 1 ELSE sem_s[x]
        BY <2>1, <2>4, <3>1
      <4>2. owner'[x] = (owner[x] \ {v}) \cup (Range(s) \cap Range(g))
        BY <2>1, <2>17, <3>1 DEF X
      <4>3. owner[x] \ {v} = {}  BY <3>1
      <4>4. PICK m \in Int : m = Uses(rec, SemQ(x)) + 1  BY <3>1
      <4>5. queue'[SemQ(x)] = SubSeq(s, m, Len(s))  BY <2>15, <3>1, <4>4
      <4>6. m = 2  BY <3>1, <4>4
      <4>. HIDE DEF s
      <4>. QED  BY <3>1, <4>1, <4>2, <4>3, <4>5, <4>6
    <3>4. CASE s = <<>>
      <4>1. Len(s) = 0 /\ Range(s) = {}  BY <3>4 DEF Range
      <4>2. SubSeq(s, 2, Len(s)) = <<>>  BY <3>4
      <4>3. Range(queue'[SemQ(x)]) = {}  BY <3>3, <4>2 DEF Range
      <4>4. Blocked(x)' = {} /\ Blocked(x) = {}  BY <3>1, <4>1, <4>3 DEF Blocked
      <4>5. owner'[x] = {}  BY <3>3, <4>1
      <4>6. sem_s'[x] = 1  BY <3>3, <4>1
      <4>. QED  BY <3>1, <4>4, <4>5, <4>6
    <3>5. CASE s # <<>>
      <4>1. Len(s) >= 1  BY <3>2, <3>5, EmptySeq
      <4>2. Tail(s) = SubSeq(s, 2, Len(s)) /\ Head(s) = s[1]  BY <3>2, <3>5, TailIsSubSeq
      <4>3. s[1] \in Range(s) /\ Range(SubSeq(s, 2, Len(s))) = Range(s) \ {s[1]}
        BY <3>2, <3>5, <4>2, TakeHead
      <4>4. Range(s) \cap Range(g) = {s[1]}
        <5>1. s[1] \in Range(g)
          <6>1. 1 \in 1 .. Len(s)  BY <3>2, <4>1
          <6>. QED  BY <2>12, <3>1, <6>1
        <5>2. ASSUME NEW t \in Range(s), t \in Range(g)  PROVE t = s[1]
          <6>1. PICK y \in Mutex : \E k \in 1 .. Len(q[SemQ(y)]) :
                      k <= Uses(rec, SemQ(y)) /\ t = q[SemQ(y)][k]
            BY <2>12, <5>2
          <6>2. PICK k \in 1 .. Len(q[SemQ(y)]) :
                      k <= Uses(rec, SemQ(y)) /\ t = q[SemQ(y)][k]
            BY <6>1
          <6>3. t \in Range(q[SemQ(y)])  BY <2>13, <6>2
          <6>4. y = x  BY <2>14, <3>1, <6>3
          <6>5. k = 1  BY <2>13, <3>1, <6>2, <6>4
          <6>. QED  BY <6>2, <6>4, <6>5
        <5>. QED  BY <4>3, <5>1, <5>2
      <4>5. sem_s'[x] = sem_s[x]  BY <3>2, <3>3, <4>1
      <4>6. Blocked(x)' = Blocked(x) \ {s[1]}  BY <3>1, <3>3, <4>3 DEF Blocked
      <4>. QED  BY <3>1, <3>3, <4>3, <4>4, <4>5, <4>6
    <3>. QED  BY <3>4, <3>5
  <2>18. UNCHANGED <<pid, locks, busy>>  BY <2>1 DEF taskVars
  <2>19. Killed(v)' /\ \A t \in Task \ {v} : Killed(t)' <=> Killed(t)
    <3>1. \A t \in Task : StatusAfterKill(v)[t] =
             IF t = v THEN "EXITED" ELSE IF t \in Freed(v) THEN "READY" ELSE status[t]
      BY DEF StatusAfterKill, SetStatus
    <3>2. \A t \in Task \ {v} : status'[t] \in {"ZOMBIE", "EXITED"} => status'[t] = status[t]
      BY <2>1, <3>1, OtherLists
    <3>3. status'[v] = "EXITED"  BY <1>2, VictimExits
    <3>4. ASSUME NEW t \in Task \ {v}  PROVE Killed(t)' <=> Killed(t)
      <4>1. ASSUME Killed(t)  PROVE status'[t] \in {"ZOMBIE", "EXITED"}
        BY <2>18, <4>1 DEF Killed, Buried, Dead
      <4>. QED  BY <2>18, <3>2, <4>1 DEF Killed
    <3>. QED  BY <2>8, <2>18, <3>3, <3>4 DEF Killed
  <2>20. /\ X \in SUBSET Mutex
         /\ \A x \in Mutex \ X : /\ sem_s'[x] = sem_s[x] /\ owner'[x] = owner[x]
                                 /\ Blocked(x)' = Blocked(x)
         /\ \A x \in Mutex \ X : v \in owner[x] => ~ Killed(v)' /\ x \in Range(locks'[v])
    BY <2>10, <2>16
  <2>21. /\ \A x \in Mutex : busy'[x] = busy[x]
         /\ \A t \in Task \ {v} : locks'[t] = locks[t] /\ (Killed(t)' <=> Killed(t))
    BY <2>18, <2>19
  <2>22. \A x \in X : /\ owner[x] = {v}
                      /\ \/ /\ Blocked(x)' = {} /\ Blocked(x) = {}
                            /\ owner'[x] = {} /\ sem_s'[x] = 1
                         \/ \E h \in Blocked(x) : /\ Blocked(x)' = Blocked(x) \ {h}
                                                  /\ owner'[x] = {h} /\ sem_s'[x] = sem_s[x]
    BY <2>17
  <2>. QED  BY <2>5, <2>19, <2>20, <2>21, <2>22, HandOver
<1>. QED  BY <1>1, <1>2

\* No mutex has an owner at first, and no task a record.
LEMMA InitMutexes == Init => LocksInv
<1>. SUFFICES ASSUME Init  PROVE LocksInv
  OBVIOUS
<1>1. \A x \in Mutex : Blocked(x) = {}
  BY Names DEF Init, Blocked, Slot, Range
<1>2. \A t \in Task : DOMAIN locks[t] = {}  BY DEF Init
<1>3. \A x \in Mutex : sem_s[x] = 0 /\ owner[x] = {}  BY DEF Init, Slot
<1>. QED  BY <1>1, <1>2, <1>3 DEF LocksInv, Owned, Recorded, WaitsForLast

\* Every step keeps the mutexes in order.
LEMMA NextMutexes ==
  ASSUME Misuse \cap {"killWaiter", "unlockOther"} = {}, IInv, LocksInv, [Next]_vars
  PROVE  LocksInv'
<1>0. Buried  BY NextOK
<1>1. CASE UNCHANGED vars
  <2>1. MutexSame
    BY <1>1 DEF vars, taskVars, slotVars, MutexSame, Blocked, Killed
  <2>. QED  BY <2>1, SameKeeps
<1>2. CASE \E p \in Proc, thread \in BOOLEAN : do_kill(p, thread)
  <2>1. PICK p \in Proc, thread \in BOOLEAN : do_kill(p, thread)  BY <1>2
  <2>. DEFINE v == IF thread THEN tid_mem[p] ELSE p
  <2>2. CASE v = 0 /\ Hang
    <3>1. MutexSame  BY <2>2 DEF Hang, MutexSame, Blocked, Killed, slotVars, taskVars
    <3>. QED  BY <3>1, SameKeeps
  <2>3. CASE v # 0 /\ Kill(v) /\ ~ WaitsInSlot(v) /\ ~ Dead(v)
    <3>1. p \in Task /\ Thread \subseteq Task
      BY ConstantsOK DEF Proc, Task, Thread
    <3>2. v \in Task  BY <2>3, <3>1 DEF IInv, OthersTyped
    <3>3. cur # Idle /\ Found(p)  BY <2>1 DEF do_kill
    <3>4. pid[p] # 0  BY <3>1, <3>3, Names DEF Found, Idle
    <3>5. Created(v)  BY <3>1, <3>2, <3>4 DEF IInv, Discipline, Whereabouts
    <3>. HIDE DEF v
    <3>. QED  BY <1>0, <2>3, <3>2, <3>3, <3>5, KillHandsOver
  <2>. QED  BY <2>1, <2>2, <2>3 DEF do_kill
<1>3. CASE reset_irq_timer \/ (TaskCall /\ ~ \E p \in Proc, thread \in BOOLEAN : do_kill(p, thread))
  <2>1. MutexSame  BY <1>0, <1>3, TaskCallsSame DEF TaskCall
  <2>. QED  BY <2>1, SameKeeps
<1>4. CASE SlotCall
  <2>1. CASE \E x \in Mutex, n \in Counts : do_sem_init(x, n)
    BY <1>0, <2>1, MutexInitKeeps
  <2>2. CASE \E x \in Mutex : do_mutex_lock_acquire(x) \/ do_mutex_lock_release(x)
    BY <1>0, <2>2, AcquireKeeps, ReleaseKeeps
  <2>3. CASE \/ \E x \in Sema, n \in Counts : do_sem_init(x, n)
             \/ \E x \in Barrier, n \in Counts : do_barrier_init(x, n)
             \/ \E x \in Sema : do_sem_up(x) \/ do_sem_down(x)
             \/ \E x \in Sema \cup Barrier : do_sem_destroy(x)
             \/ \E x \in Barrier : do_barrier_wait(x)
    <3>1. MutexSame  BY <1>0, <2>3, SlotCallsSame
    <3>. QED  BY <3>1, SameKeeps
  <2>. QED  BY <1>4, <2>1, <2>2, <2>3 DEF SlotCall
<1>. QED  BY <1>1, <1>2, <1>3, <1>4 DEF Next

\* At most one task is between locking a mutex and unlocking it, for any number
\* of tasks and mutexes, provided nobody kills a task that waits in a slot or
\* unlocks a mutex that is not the one it locked last.
THEOREM OneOwner ==
  ASSUME Misuse \cap {"killWaiter", "unlockOther"} = {}
  PROVE  Spec => []MutualExclusion
<1>1. IInv /\ LocksInv => MutualExclusion
  BY DEF LocksInv, Owned, MutualExclusion
<1>2. IInv /\ LocksInv /\ [Next]_vars => LocksInv'  BY NextMutexes
<1>. QED  BY <1>1, <1>2, InitOK, NextOK, InitMutexes, PTL DEF Spec

\* Under the same conditions do_kill releases every mutex its victim holds: the
\* records in lock[] are complete, and each goes to the first waiter or is free.
THEOREM KilledReleased ==
  ASSUME Misuse \cap {"killWaiter", "unlockOther"} = {}
  PROVE  Spec => []KilledHoldNothing
<1>1. IInv /\ LocksInv => KilledHoldNothing
  BY DEF LocksInv, Owned, KilledHoldNothing, Killed
<1>2. IInv /\ LocksInv /\ [Next]_vars => LocksInv'  BY NextMutexes
<1>. QED  BY <1>1, <1>2, InitOK, NextOK, InitMutexes, PTL DEF Spec

-----------------------------------------------------------------------------
(***************************************************************************)
(* The lists, one by one: how each call changes them.  Every list but      *)
(* ready_queue and timers is left alone, emptied, joined by the caller at  *)
(* its tail, served from its head, or loses the victim of do_kill.         *)
(***************************************************************************)
Joined(x) == /\ cur # Idle /\ queue'[x] = Append(queue[x], cur)
             /\ \A t \in Task : x = WaitQ(t) => pid[t] # 0

Served(q, x, n) == queue'[x] = SubSeq(q[x], n + 1, Len(q[x]))

Moved(x) ==
  \/ queue'[x] = queue[x]
  \/ queue'[x] = <<>>
  \/ Joined(x)
  \/ \E n \in Nat : Served(queue, x, n)
  \/ \E v \in Task, n \in Nat : status'[v] = "EXITED" /\ Served(Unlinked(v), x, n)

\* What do_kill does to the lists, when it does not spin.
LEMMA KillLists ==
  ASSUME IInv, NEW v \in Task, Kill(v), ~ Hang
  PROVE  /\ \A x \in QName \ {ReadyQ} :
              \/ x = WaitQ(v) /\ queue'[x] = <<>>
              \/ Served(Unlinked(v), x, Uses(locks[v], x))
         /\ v # cur => queue' = AfterKill(v)
<1>1. IF v = cur THEN do_scheduler(AfterKill(v), StatusAfterKill(v), pid)
      ELSE queue' = AfterKill(v) /\ status' = StatusAfterKill(v) /\ UNCHANGED cur
  BY DEF Kill, AfterKill, StatusAfterKill, Freed
<1>2. \A x \in QName \ {ReadyQ} :
         \/ x = WaitQ(v) /\ AfterKill(v)[x] = <<>>
         \/ AfterKill(v)[x] = SubSeq(Unlinked(v)[x], Uses(locks[v], x) + 1, Len(Unlinked(v)[x]))
  BY DEF AfterKill, Records
<1>3. \A x \in QName \ {ReadyQ} : queue'[x] = AfterKill(v)[x]
  BY <1>1, OtherLists
<1>. QED  BY <1>1, <1>2, <1>3 DEF Served

\* Each list moves in one of these ways.
LEMMA ListMoves ==
  ASSUME IInv, Next, NEW x \in QName \ {ReadyQ, TimerQ}
  PROVE  Moved(x)
<1>0. /\ \A y \in Slot : SemQ(y) \in QName /\ \A t \in Task : SemQ(y) # WaitQ(t)
      /\ \A t \in Task : WaitQ(t) \in QName
      /\ Proc \subseteq Task /\ Thread \subseteq Task
  BY Names, ConstantsOK DEF Proc, Thread, Task
<1>1. cur # Idle => cur \in Task /\ ~ InSome(queue, cur)
  BY Caller DEF IInv
<1>2. queue \in [QName -> NoDup(Task)]  BY DEF IInv, Discipline, QueuesOK
<1>3. ASSUME queue'[x] = queue[x]  PROVE Moved(x)  BY <1>3 DEF Moved
<1>4. ASSUME NEW q, NEW st, NEW p, do_scheduler(q, st, p), q[x] = queue[x]  PROVE Moved(x)
  BY <1>3, <1>4, OtherLists
<1>5. CASE reset_irq_timer
  <2>. DEFINE q  == [queue EXCEPT ![TimerQ] = Pick(queue[TimerQ], DOMAIN queue[TimerQ] \ Expired),
                                  ![ReadyQ] = @ \o Pick(queue[TimerQ], Expired)]
              st == SetStatus(status, Range(Pick(queue[TimerQ], Expired)), "READY")
  <2>1. do_scheduler(q, st, pid)  BY <1>5 DEF reset_irq_timer
  <2>2. q[x] = queue[x]  BY <1>2
  <2>. HIDE DEF q, st
  <2>. QED  BY <1>4, <2>1, <2>2
<1>6. CASE Yield  BY <1>4, <1>6 DEF Yield
<1>7. CASE \E d \in 0 .. MaxSleep : do_sleep(d)
  <2>. DEFINE q == list_add_tail(list_del(queue, cur), TimerQ, cur)
  <2>1. cur # Idle /\ do_scheduler(q, SetStatus(status, {cur}, "BLOCKED"), pid)
    BY <1>7 DEF do_sleep
  <2>2. cur \notin Range(queue[x])  BY <1>1, <2>1 DEF InSome
  <2>3. q[x] = queue[x]  BY <2>2 DEF list_add_tail, list_del
  <2>. HIDE DEF q
  <2>. QED  BY <1>4, <2>1, <2>3
<1>8. CASE do_mthread_create \/ \E m \in Modes : do_exec(m)
  BY <1>3, <1>8 DEF do_mthread_create, do_exec, WritesPast, list_add_tail
<1>9. CASE do_exit
  <2>1. CASE Hang  BY <1>3, <2>1 DEF Hang
  <2>2. CASE ~ Hang
    <3>. DEFINE q == [queue EXCEPT ![WaitQ(cur)] = <<>>, ![ReadyQ] = @ \o queue[WaitQ(cur)]]
    <3>1. cur # Idle /\ \E st, p : do_scheduler(q, st, p)  BY <1>9, <2>2 DEF do_exit
    <3>2. PICK st, p : do_scheduler(q, st, p)  BY <3>1
    <3>3. q[x] = queue[x] \/ q[x] = <<>>  BY <1>0, <1>1, <1>2, <3>1
    <3>. HIDE DEF q
    <3>4. queue'[x] = q[x]  BY <3>2, OtherLists
    <3>. QED  BY <3>3, <3>4 DEF Moved
  <2>. QED  BY <2>1, <2>2
<1>10. CASE \E p \in Proc : do_waitpid(p)
  <2>1. PICK p \in Proc : do_waitpid(p)  BY <1>10
  <2>. DEFINE q == list_add_tail(queue, WaitQ(p), cur)
  <2>2. cur # Idle /\ Found(p) /\ do_scheduler(q, SetStatus(status, {cur}, "BLOCKED"), pid)
    BY <2>1 DEF do_waitpid
  <2>3. pid[p] # 0  BY <1>0, <2>2, Names DEF Found, Idle
  <2>4. q[x] = IF x = WaitQ(p) THEN Append(queue[x], cur) ELSE queue[x]
    BY DEF list_add_tail
  <2>. HIDE DEF q
  <2>5. queue'[x] = q[x]  BY <2>2, OtherLists
  <2>. QED  BY <2>2, <2>3, <2>4, <2>5 DEF Moved, Joined, WaitQ
<1>11. CASE \E p \in Proc, thread \in BOOLEAN : do_kill(p, thread)
  <2>1. PICK p \in Proc, thread \in BOOLEAN : do_kill(p, thread)  BY <1>11
  <2>. DEFINE v == IF thread THEN tid_mem[p] ELSE p
  <2>2. CASE Hang  BY <1>3, <2>2 DEF Hang
  <2>3. CASE ~ Hang
    <3>1. v # 0 /\ Kill(v) /\ cur # Idle  BY <2>1, <2>3 DEF do_kill
    <3>2. v \in Task  BY <1>0, <3>1 DEF IInv, OthersTyped
    <3>. HIDE DEF v
    <3>3. status'[v] = "EXITED"  BY <2>3, <3>1, <3>2, VictimExits
    <3>4. Uses(locks[v], x) \in Nat  BY <3>2, Entries DEF IInv, OthersTyped
    <3>5. queue'[x] = <<>> \/ Served(Unlinked(v), x, Uses(locks[v], x))
      BY <2>3, <3>1, <3>2, KillLists
    <3>. QED  BY <3>2, <3>3, <3>4, <3>5 DEF Moved
  <2>. QED  BY <2>2, <2>3
<1>12. ASSUME NEW y \in Slot, cur # Idle, Wait(y)  PROVE Moved(x)
  <2>. DEFINE q == list_add_tail(queue, SemQ(y), cur)
  <2>1. do_scheduler(q, SetStatus(status, {cur}, "BLOCKED"), pid)  BY <1>12 DEF Wait
  <2>2. q[x] = IF x = SemQ(y) THEN Append(queue[x], cur) ELSE queue[x]
    BY DEF list_add_tail
  <2>. HIDE DEF q
  <2>3. queue'[x] = q[x]  BY <2>1, OtherLists
  <2>. QED  BY <1>0, <1>12, <2>2, <2>3 DEF Moved, Joined
<1>13. ASSUME NEW y \in Slot, NEW n \in Nat, Wake(y, n)  PROVE Moved(x)
  <2>1. queue' = [queue EXCEPT ![SemQ(y)] = SubSeq(queue[SemQ(y)], n + 1, Len(queue[SemQ(y)])),
                               ![ReadyQ] = @ \o SubSeq(queue[SemQ(y)], 1, n)]
    BY <1>13 DEF Wake, Release
  <2>2. CASE x = SemQ(y)
    <3>1. Served(queue, x, n)  BY <1>2, <2>1, <2>2 DEF Served
    <3>. QED  BY <3>1 DEF Moved
  <2>3. CASE x # SemQ(y)  BY <1>2, <1>3, <2>1, <2>3
  <2>. QED  BY <2>2, <2>3
<1>14. ASSUME NEW y \in Slot, cur # Idle, Down(y)  PROVE Moved(x)
  BY <1>3, <1>12, <1>14 DEF Down
<1>15. ASSUME NEW y \in Slot, Up(y)  PROVE Moved(x)
  <2>1. 1 \in Nat  OBVIOUS
  <2>. QED  BY <1>3, <1>13, <1>15, <2>1 DEF Up
<1>16. \A y \in Slot : Len(queue[SemQ(y)]) \in Nat  BY Waiters DEF IInv
<1>17. CASE SlotCall
  <2>0. Mutex \subseteq Slot /\ Sema \subseteq Slot /\ Barrier \subseteq Slot  BY DEF Slot
  <2>1. CASE \/ \E y \in Mutex \cup Sema, n \in Counts : do_sem_init(y, n)
             \/ \E y \in Barrier, n \in Counts : do_barrier_init(y, n)
    BY <1>3, <2>1 DEF do_sem_init, do_barrier_init
  <2>2. CASE \E y \in Sema : do_sem_up(y) \/ do_sem_down(y)
    BY <1>14, <1>15, <2>0, <2>2 DEF do_sem_up, do_sem_down
  <2>3. CASE \E y \in Sema \cup Barrier : do_sem_destroy(y)
    BY <1>13, <1>16, <2>0, <2>3 DEF do_sem_destroy
  <2>4. CASE \E y \in Mutex : do_mutex_lock_acquire(y) \/ do_mutex_lock_release(y)
    BY <1>14, <1>15, <2>0, <2>4 DEF do_mutex_lock_acquire, do_mutex_lock_release
  <2>5. CASE \E y \in Barrier : do_barrier_wait(y)
    BY <1>12, <1>13, <1>16, <2>0, <2>5 DEF do_barrier_wait
  <2>. QED  BY <1>17, <2>1, <2>2, <2>3, <2>4, <2>5 DEF SlotCall
<1>. QED  BY <1>5, <1>6, <1>7, <1>8, <1>9, <1>10, <1>11, <1>17 DEF Next, TaskCall

\* A pid that is 0 after a step was 0 before it, or belonged to the task that
\* just left its wait_list empty.
LEMMA PidMoves ==
  ASSUME IInv, Next, NEW t \in Task, pid'[t] = 0
  PROVE  pid[t] = 0 \/ queue'[WaitQ(t)] = <<>>
<1>1. CASE pid' = pid  BY <1>1
<1>2. CASE do_exit
  <2>1. CASE Hang  BY <1>1, <2>1 DEF Hang, taskVars
  <2>2. CASE ~ Hang
    <3>. DEFINE q == [queue EXCEPT ![WaitQ(cur)] = <<>>, ![ReadyQ] = @ \o queue[WaitQ(cur)]]
    <3>1. /\ cur # Idle /\ pid' = [pid EXCEPT ![cur] = 0]
          /\ \E st, p : do_scheduler(q, st, p)
      BY <1>2, <2>2 DEF do_exit
    <3>2. CASE t # cur  BY <3>1, <3>2 DEF IInv, OthersTyped
    <3>3. CASE t = cur
      <4>1. WaitQ(t) \in QName \ {ReadyQ} /\ queue \in [QName -> NoDup(Task)]
        BY Names DEF IInv, Discipline, QueuesOK
      <4>2. q[WaitQ(t)] = <<>>  BY <3>3, <4>1
      <4>. HIDE DEF q
      <4>. QED  BY <3>1, <4>1, <4>2, OtherLists
    <3>. QED  BY <3>2, <3>3
  <2>. QED  BY <2>1, <2>2
<1>8. CASE WritesPast  BY <1>1, <1>8 DEF WritesPast
<1>3. CASE (\E m \in Modes : do_exec(m)) /\ ~ WritesPast
  <2>1. PICK n \in Proc : n = process_num + 1 /\ pid' = [pid EXCEPT ![n] = n]
    BY <1>3 DEF do_exec
  <2>2. n # 0 /\ pid \in [Task -> 0 .. NumTask]
    BY ConstantsOK DEF Proc, IInv, OthersTyped
  <2>. QED  BY <2>1, <2>2
<1>4. CASE do_mthread_create /\ ~ WritesPast
  <2>1. PICK n \in Thread : /\ n = NumTask + thread_id
                            /\ pid' = [pid EXCEPT ![n] = pid[cur]]
    BY <1>4 DEF do_mthread_create
  <2>2. n \in Task /\ ~ Created(n)
    BY <2>1, ConstantsOK DEF Created, Proc, Thread, Task, IInv, OthersTyped
  <2>3. pid[n] = 0  BY <2>2 DEF IInv, Discipline, Whereabouts
  <2>. QED  BY <2>1, <2>3 DEF IInv, OthersTyped
<1>5. CASE \E p \in Proc, thread \in BOOLEAN : do_kill(p, thread)
  <2>1. PICK p \in Proc, thread \in BOOLEAN : do_kill(p, thread)  BY <1>5
  <2>2. Hang \/ \E v : Kill(v)  BY <2>1 DEF do_kill
  <2>3. UNCHANGED taskVars  BY <2>2 DEF Kill, Hang
  <2>. QED  BY <1>1, <2>3 DEF taskVars
<1>6. CASE SlotCall
  BY <1>1, <1>6 DEF SlotCall, do_sem_init, do_barrier_init, do_sem_up, do_sem_down,
     do_sem_destroy, do_mutex_lock_acquire, do_mutex_lock_release, do_barrier_wait, taskVars
<1>7. CASE reset_irq_timer \/ Yield \/ (\E d \in 0 .. MaxSleep : do_sleep(d))
           \/ \E p \in Proc : do_waitpid(p)
  BY <1>1, <1>7 DEF reset_irq_timer, Yield, do_sleep, do_waitpid, taskVars
<1>. QED  BY <1>2, <1>3, <1>4, <1>5, <1>6, <1>7, <1>8 DEF Next, TaskCall

\* Nobody waits for a task that has exited: do_exit empties its wait_list, and
\* do_waitpid finds no process whose pid is 0.  It says nothing of a task that
\* was killed, which keeps its pid and can be waited for.
THEOREM NobodyWaitsForExited == Spec => []ExitedHasNoWaiters
<1>1. ASSUME IInv, ExitedHasNoWaiters, Next, NEW t \in Task, pid'[t] = 0
      PROVE  queue'[WaitQ(t)] = <<>>
  <2>1. CASE pid[t] # 0  BY <1>1, <2>1, PidMoves
  <2>2. CASE pid[t] = 0
    <3>1. queue[WaitQ(t)] = <<>>  BY <1>1, <2>2 DEF ExitedHasNoWaiters
    <3>2. WaitQ(t) \in QName \ {ReadyQ, TimerQ}  BY Names
    <3>3. Moved(WaitQ(t))  BY <1>1, <3>2, ListMoves
    <3>4. ~ Joined(WaitQ(t))  BY <2>2 DEF Joined
    <3>5. ASSUME NEW s, s = <<>>, NEW n \in Nat  PROVE SubSeq(s, n + 1, Len(s)) = <<>>
      <4>1. Len(s) = 0 /\ s \in Seq(Task)  BY <3>5
      <4>2. n + 1 \in Int /\ Len(s) \in Int /\ n + 1 > Len(s)  BY <4>1
      <4>. QED  BY <4>1, <4>2, SubSeqEmpty
    <3>6. ASSUME NEW n \in Nat, Served(queue, WaitQ(t), n)  PROVE queue'[WaitQ(t)] = <<>>
      BY <3>1, <3>5, <3>6 DEF Served
    <3>7. ASSUME NEW v \in Task, NEW n \in Nat, Served(Unlinked(v), WaitQ(t), n)
          PROVE  queue'[WaitQ(t)] = <<>>
      <4>1. v \notin Range(queue[WaitQ(t)])  BY <3>1 DEF Range
      <4>2. Unlinked(v)[WaitQ(t)] = <<>>
        BY <3>1, <3>2, <4>1 DEF Unlinked, list_del
      <4>. QED  BY <3>5, <3>7, <4>2 DEF Served
    <3>. QED  BY <3>1, <3>3, <3>4, <3>6, <3>7 DEF Moved
  <2>. QED  BY <2>1, <2>2
<1>2. ASSUME IInv, ExitedHasNoWaiters, [Next]_vars  PROVE ExitedHasNoWaiters'
  <2>1. CASE Next  BY <1>1, <1>2, <2>1 DEF ExitedHasNoWaiters, WaitQ
  <2>2. CASE UNCHANGED vars
    BY <1>2, <2>2 DEF vars, taskVars, ExitedHasNoWaiters, WaitQ
  <2>. QED  BY <1>2, <2>1, <2>2
<1>3. Init => ExitedHasNoWaiters
  BY Names DEF Init, ExitedHasNoWaiters
<1>. QED  BY <1>2, <1>3, InitOK, NextOK, PTL DEF Spec

-----------------------------------------------------------------------------
(* The order in the lists. *)

\* do_scheduler takes at most the first task off ready_queue.
LEMMA OthersStayReady ==
  ASSUME NEW q, NEW st, NEW p, do_scheduler(q, st, p), cur \in Task \cup {Idle},
         q[ReadyQ] \in Seq(Task), NEW j \in DOMAIN q[ReadyQ], j > 1
  PROVE  q[ReadyQ][j] \in Range(queue'[ReadyQ])
<1>. DEFINE s == q[ReadyQ]
            r == Requeued(q, st, p)[ReadyQ]
<1>1. PICK n \in Nat : n = Len(s) /\ DOMAIN s = 1 .. n  BY LenProperties
<1>2. r \in Seq(Task) /\ Len(r) >= n /\ \A k \in 1 .. n : r[k] = s[k]
  <2>1. CASE r = s  BY <1>1, <2>1
  <2>2. CASE r = Append(s, cur) /\ cur # Idle
    <3>1. cur \in Task  BY <2>2
    <3>2. /\ Append(s, cur) \in Seq(Task) /\ Len(Append(s, cur)) = Len(s) + 1
          /\ \A k \in 1 .. Len(s) : Append(s, cur)[k] = s[k]
      BY <3>1, AppendProperties
    <3>. QED  BY <1>1, <2>2, <3>2
  <2>3. r = s \/ (r = Append(s, cur) /\ cur # Idle)
    BY Names DEF Requeued, list_add_tail
  <2>. QED  BY <2>1, <2>2, <2>3
<1>. HIDE DEF s, r
<1>3. PICK m \in Nat : m = Len(r) /\ DOMAIN r = 1 .. m  BY <1>2, LenProperties
<1>4. j \in 1 .. n /\ j \in 1 .. m /\ j > 1  BY <1>1, <1>2, <1>3 DEF s
<1>5. r # <<>>
  <2>1. SUFFICES ASSUME r = <<>>  PROVE FALSE
    OBVIOUS
  <2>2. Len(r) = 0  BY <2>1
  <2>. QED  BY <1>3, <1>4, <2>2
<1>6. queue'[ReadyQ] = Tail(r)
  BY <1>5, Names DEF do_scheduler, r
<1>7. /\ Tail(r) \in Seq(Task) /\ Len(Tail(r)) = Len(r) - 1
      /\ \A k \in 1 .. Len(Tail(r)) : Tail(r)[k] = r[k + 1]
  BY <1>2, <1>5, HeadTailProperties
<1>8. j - 1 \in 1 .. Len(Tail(r)) /\ (j - 1) + 1 = j  BY <1>3, <1>4, <1>7
<1>9. Tail(r)[j - 1] = r[j] /\ j - 1 \in DOMAIN Tail(r)
  BY <1>7, <1>8, LenProperties
<1>10. r[j] = s[j]  BY <1>2, <1>4
<1>. QED  BY <1>6, <1>9, <1>10 DEF Range, s

\* In the other lists nobody overtakes, but for the victim of do_kill.
LEMMA OrderKept ==
  ASSUME IInv, Next, NEW x \in QName \ {ReadyQ, TimerQ},
         NEW i \in DOMAIN queue[x], NEW j \in DOMAIN queue[x], i < j,
         queue[x][j] \notin Range(queue'[x]), queue[x][i] \in Range(queue'[x])
  PROVE  status'[queue[x][j]] = "EXITED"
<1>. DEFINE s == queue[x]
<1>0. s \in NoDup(Task) /\ QueuesOK(queue, status)  BY DEF IInv, Discipline, QueuesOK
<1>1. s[i] \in Range(s) /\ s[j] \in Range(s) /\ i \in Int /\ j \in Int
  BY <1>0, LenProperties DEF Range, NoDup
<1>2. queue'[x] # s  BY <1>1
<1>3. queue'[x] # <<>>  BY DEF Range
<1>4. ~ Joined(x)
  <2>1. SUFFICES ASSUME Joined(x)  PROVE FALSE
    OBVIOUS
  <2>2. cur \in Task /\ cur \notin Range(s)
    BY <2>1, Caller DEF Joined, IInv, InSome
  <2>3. Range(Append(s, cur)) = Range(s) \cup {cur}  BY <1>0, <2>2, AppendNew
  <2>. QED  BY <1>1, <2>1, <2>3 DEF Joined
<1>5. ASSUME NEW n \in Nat, Served(queue, x, n)  PROVE FALSE
  <2>1. \A k \in DOMAIN s : s[k] \in Range(SubSeq(s, n + 1, Len(s))) <=> k > n
    BY <1>0, DropFirst
  <2>. QED  BY <1>1, <1>5, <2>1 DEF Served
<1>6. ASSUME NEW v \in Task, NEW n \in Nat, status'[v] = "EXITED", Served(Unlinked(v), x, n)
      PROVE  status'[queue[x][j]] = "EXITED"
  <2>. DEFINE w == Unlinked(v)[x]
  <2>1. w \in NoDup(Task) /\ Range(w) = Range(s) \ {v}
    BY <1>0, Unlinks DEF QueuesOK
  <2>2. \A k \in DOMAIN w : w[k] \in Range(queue'[x]) <=> k > n
    <3>1. \A k \in DOMAIN w : w[k] \in Range(SubSeq(w, n + 1, Len(w))) <=> k > n
      BY <2>1, DropFirst
    <3>. QED  BY <1>6, <3>1 DEF Served
  <2>3. Range(queue'[x]) \subseteq Range(w)
    <3>1. n + 1 \in Int /\ 1 <= n + 1 /\ Len(w) \in Int /\ Len(w) <= Len(w)
      BY <2>1, LenProperties DEF NoDup
    <3>2. \A e : e \in Range(SubSeq(w, n + 1, Len(w))) <=> \E k \in n + 1 .. Len(w) : e = w[k]
      BY <2>1, <3>1, Piece
    <3>3. \A k \in n + 1 .. Len(w) : w[k] \in Range(w)
      BY <2>1, <3>1, LenProperties DEF NoDup, Range
    <3>. QED  BY <1>6, <3>2, <3>3 DEF Served
  <2>4. s[i] # v  BY <2>1, <2>3
  <2>5. CASE s[j] # v
    <3>1. \E k, l \in DOMAIN w : k < l /\ w[k] = s[i] /\ w[l] = s[j]
      <4>1. CASE w = s  BY <4>1
      <4>2. CASE w = Without(s, v) /\ v \in Range(s)
        BY <1>0, <2>4, <2>5, <4>2, WithoutOrder
      <4>3. w = s \/ (w = Without(s, v) /\ v \in Range(s))
        BY DEF Unlinked, list_del
      <4>. QED  BY <4>1, <4>2, <4>3
    <3>2. PICK k, l \in DOMAIN w : k < l /\ w[k] = s[i] /\ w[l] = s[j]  BY <3>1
    <3>3. k \in Int /\ l \in Int  BY <2>1, LenProperties DEF NoDup
    <3>4. k > n /\ ~ (l > n)  BY <2>2, <3>2
    <3>. QED  BY <3>2, <3>3, <3>4
  <2>. QED  BY <1>6, <2>5
<1>. QED  BY <1>2, <1>3, <1>4, <1>5, <1>6, ListMoves DEF Moved

\* ready_queue is left by its first task, or by the victim of do_kill.
LEMMA ReadyOrder ==
  ASSUME IInv, Next, NEW j \in DOMAIN queue[ReadyQ], j > 1
  PROVE  queue[ReadyQ][j] \in Range(queue'[ReadyQ]) \/ status'[queue[ReadyQ][j]] = "EXITED"
<1>. DEFINE s == queue[ReadyQ]
            Stay == s[j] \in Range(queue'[ReadyQ])
<1>0. /\ queue \in [QName -> NoDup(Task)] /\ s \in NoDup(Task) /\ s \in Seq(Task)
      /\ QueuesOK(queue, status) /\ cur \in Task \cup {Idle}
  BY Names DEF IInv, Discipline, QueuesOK, RunsOnly, NoDup
<1>1. s[j] \in Range(s)  BY DEF Range
<1>2. ASSUME queue'[ReadyQ] = s  PROVE Stay  BY <1>1, <1>2
<1>3. ASSUME NEW q, NEW st, NEW p, do_scheduler(q, st, p), NEW w \in Seq(Task),
             q[ReadyQ] = s \o w
      PROVE  Stay
  <2>1. /\ s \o w \in Seq(Task) /\ Len(s \o w) = Len(s) + Len(w)
        /\ \A k \in 1 .. Len(s) + Len(w) : (s \o w)[k] = IF k <= Len(s) THEN s[k] ELSE w[k - Len(s)]
    BY <1>0, ConcatProperties
  <2>2. Len(w) \in Nat /\ Len(s) \in Nat /\ j \in 1 .. Len(s)  BY <1>0, LenProperties
  <2>3. j \in 1 .. Len(s) + Len(w) /\ j <= Len(s)  BY <2>2
  <2>4. j \in DOMAIN q[ReadyQ] /\ q[ReadyQ][j] = s[j]
    BY <1>3, <2>1, <2>3, LenProperties
  <2>. QED  BY <1>0, <1>3, <2>1, <2>4, OthersStayReady
<1>4. ASSUME NEW q, NEW st, NEW p, do_scheduler(q, st, p), q[ReadyQ] = s  PROVE Stay
  BY <1>0, <1>4, OthersStayReady
<1>5. ASSUME NEW w \in Seq(Task), queue'[ReadyQ] = s \o w  PROVE Stay
  <2>1. Range(s \o w) = Range(s) \cup Range(w)  BY <1>0, RangeConcatenation
  <2>. QED  BY <1>1, <1>5, <2>1
<1>6. \A t \in Task : WaitQ(t) \in QName /\ WaitQ(t) # ReadyQ /\ queue[WaitQ(t)] \in Seq(Task)
  BY <1>0, Names DEF NoDup
<1>7. \A y \in Slot : SemQ(y) \in QName /\ SemQ(y) # ReadyQ /\ queue[SemQ(y)] \in NoDup(Task)
  BY <1>0, Names
<1>8. cur # Idle => cur \in Task /\ status[cur] = "RUNNING" /\ ~ InSome(queue, cur)
  BY Caller DEF IInv
<1>. SUFFICES Stay \/ status'[s[j]] = "EXITED"
  OBVIOUS
<1>. HIDE DEF Stay
<1>9. CASE reset_irq_timer
  <2>. DEFINE w  == Pick(queue[TimerQ], Expired)
              q  == [queue EXCEPT ![TimerQ] = Pick(queue[TimerQ], DOMAIN queue[TimerQ] \ Expired),
                                  ![ReadyQ] = @ \o w]
              st == SetStatus(status, Range(w), "READY")
  <2>1. do_scheduler(q, st, pid)  BY <1>9 DEF reset_irq_timer
  <2>2. queue[TimerQ] \in NoDup(Task) /\ Expired \in SUBSET (DOMAIN queue[TimerQ])
    BY <1>0, Names DEF Expired
  <2>3. w \in Seq(Task)  BY <2>2, PickProperties DEF NoDup
  <2>4. q[ReadyQ] = s \o w  BY <1>0, Names
  <2>. HIDE DEF q, st, w
  <2>. QED  BY <1>3, <2>1, <2>3, <2>4
<1>10. CASE Yield  BY <1>4, <1>10 DEF Yield
<1>11. CASE \E d \in 0 .. MaxSleep : do_sleep(d)
  <2>. DEFINE q == list_add_tail(list_del(queue, cur), TimerQ, cur)
  <2>1. cur # Idle /\ do_scheduler(q, SetStatus(status, {cur}, "BLOCKED"), pid)
    BY <1>11 DEF do_sleep
  <2>2. cur \notin Range(s)  BY <1>8, <2>1, Names DEF InSome
  <2>3. q[ReadyQ] = s  BY <2>2, Names DEF list_add_tail, list_del
  <2>. HIDE DEF q
  <2>. QED  BY <1>4, <2>1, <2>3
<1>12. ASSUME NEW n \in Task, queue' = list_add_tail(queue, ReadyQ, n)  PROVE Stay
  <2>1. queue'[ReadyQ] = Append(s, n)  BY <1>12, Names DEF list_add_tail
  <2>2. Append(s, n) = s \o <<n>> /\ <<n>> \in Seq(Task)  BY <1>0, AppendIsConcat
  <2>. QED  BY <1>5, <2>1, <2>2
<1>23. CASE WritesPast  BY <1>2, <1>23 DEF WritesPast
<1>13. CASE (do_mthread_create \/ \E m \in Modes : do_exec(m)) /\ ~ WritesPast
  <2>1. \E n \in Proc \cup Thread : queue' = list_add_tail(queue, ReadyQ, n)
    BY <1>13 DEF do_mthread_create, do_exec
  <2>2. Proc \subseteq Task /\ Thread \subseteq Task  BY ConstantsOK DEF Proc, Thread, Task
  <2>. QED  BY <1>12, <2>1, <2>2
<1>14. CASE do_exit
  <2>1. CASE Hang  BY <1>2, <2>1 DEF Hang
  <2>2. CASE ~ Hang
    <3>. DEFINE q == [queue EXCEPT ![WaitQ(cur)] = <<>>, ![ReadyQ] = @ \o queue[WaitQ(cur)]]
    <3>1. cur # Idle /\ \E st, p : do_scheduler(q, st, p)  BY <1>14, <2>2 DEF do_exit
    <3>2. PICK st, p : do_scheduler(q, st, p)  BY <3>1
    <3>3. q[ReadyQ] = s \o queue[WaitQ(cur)]
      <4>1. cur \in Task /\ WaitQ(cur) # ReadyQ /\ ReadyQ \in QName  BY <1>6, <1>8, <3>1, Names
      <4>. QED  BY <1>0, <4>1
    <3>. HIDE DEF q
    <3>. QED  BY <1>3, <1>6, <1>8, <3>1, <3>2, <3>3
  <2>. QED  BY <2>1, <2>2
<1>15. CASE \E p \in Proc : do_waitpid(p)
  <2>1. PICK p \in Proc : do_waitpid(p)  BY <1>15
  <2>. DEFINE q == list_add_tail(queue, WaitQ(p), cur)
  <2>2. do_scheduler(q, SetStatus(status, {cur}, "BLOCKED"), pid)
    BY <2>1 DEF do_waitpid
  <2>3. p \in Task  BY ConstantsOK DEF Proc, Task
  <2>4. q[ReadyQ] = s  BY <1>6, <2>3, Names DEF list_add_tail
  <2>. HIDE DEF q
  <2>. QED  BY <1>4, <2>2, <2>4
<1>16. ASSUME NEW p \in Proc, NEW thread \in BOOLEAN, do_kill(p, thread)
       PROVE  Stay \/ status'[s[j]] = "EXITED"
  <2>. DEFINE v == IF thread THEN tid_mem[p] ELSE p
  <2>1. CASE Hang  BY <1>2, <2>1 DEF Hang
  <2>2. CASE ~ Hang
    <3>1. v # 0 /\ Kill(v) /\ cur # Idle  BY <1>16, <2>2 DEF do_kill
    <3>2. Proc \subseteq Task /\ Thread \subseteq Task  BY ConstantsOK DEF Proc, Thread, Task
    <3>3. v \in Task  BY <3>1, <3>2 DEF IInv, OthersTyped
    <3>. HIDE DEF v
    <3>. DEFINE q == Unlinked(v)
                g == Granted(q, Records(v))
    <3>4. status'[v] = "EXITED"  BY <2>2, <3>1, <3>3, VictimExits
    <3>5. QueuesOK(q, status) /\ Range(q[ReadyQ]) = Range(s) \ {v}
      BY <1>0, <3>3, Unlinks, Names
    <3>6. Records(v) \in Seq(Mutex)  BY <3>3 DEF Records, IInv, OthersTyped
    <3>7. g \in Seq(Task) /\ q[ReadyQ] \in Seq(Task) /\ q[WaitQ(v)] \in Seq(Task)
      BY <1>6, <3>3, <3>5, <3>6, GrantedTo, Names DEF QueuesOK, NoDup
    <3>8. AfterKill(v)[ReadyQ] = q[ReadyQ] \o g \o q[WaitQ(v)]
      <4>1. ReadyQ \in QName /\ WaitQ(v) # ReadyQ  BY <1>6, <3>3, Names
      <4>. QED  BY <4>1 DEF AfterKill
    <3>. HIDE DEF q, g
    <3>9. PICK a \in Seq(Task), b \in Seq(Task), c \in Seq(Task) :
               a = q[ReadyQ] /\ b = g /\ c = q[WaitQ(v)]
      BY <3>7
    <3>12. /\ a \o b \in Seq(Task) /\ b \o c \in Seq(Task)
           /\ (a \o b) \o c = a \o (b \o c)
      BY ConcatProperties, ConcatAssociative
    <3>13. AfterKill(v)[ReadyQ] = (a \o b) \o c  BY <3>8, <3>9
    <3>10. CASE v # cur
      <4>1. queue'[ReadyQ] = (a \o b) \o c
        BY <2>2, <3>1, <3>3, <3>10, <3>13, KillLists
      <4>2. Range((a \o b) \o c) = Range(a \o b) \cup Range(c)
        <5>1. PICK d \in Seq(Task) : d = a \o b  BY <3>12
        <5>2. Range(d \o c) = Range(d) \cup Range(c)  BY RangeConcatenation
        <5>. QED  BY <5>1, <5>2
      <4>3. Range(a \o b) = Range(a) \cup Range(b)  BY RangeConcatenation
      <4>4. Range(q[ReadyQ]) \subseteq Range(queue'[ReadyQ])  BY <3>9, <4>1, <4>2, <4>3
      <4>. QED  BY <1>1, <3>4, <3>5, <4>4 DEF Stay
    <3>11. CASE v = cur
      <4>1. do_scheduler(AfterKill(v), StatusAfterKill(v), pid)
        BY <2>2, <3>1, <3>11 DEF Kill, AfterKill, StatusAfterKill, Freed
      <4>2. q = queue  BY <1>8, <3>1, <3>11 DEF q, Unlinked
      <4>3. AfterKill(v)[ReadyQ] = s \o (b \o c)  BY <3>9, <3>12, <3>13, <4>2
      <4>. QED  BY <1>3, <3>12, <4>1, <4>3
    <3>. QED  BY <3>10, <3>11
  <2>. QED  BY <2>1, <2>2
<1>17. ASSUME NEW y \in Slot, Wait(y)  PROVE Stay
  <2>. DEFINE q == list_add_tail(queue, SemQ(y), cur)
  <2>1. do_scheduler(q, SetStatus(status, {cur}, "BLOCKED"), pid)  BY <1>17 DEF Wait
  <2>2. q[ReadyQ] = s  BY <1>7, Names DEF list_add_tail
  <2>. HIDE DEF q
  <2>. QED  BY <1>4, <2>1, <2>2
<1>18. ASSUME NEW y \in Slot, NEW n \in 0 .. Len(queue[SemQ(y)]), Wake(y, n)  PROVE Stay
  <2>. DEFINE w == SubSeq(queue[SemQ(y)], 1, n)
  <2>1. queue'[ReadyQ] = s \o w
    BY <1>0, <1>7, <1>18, Names DEF Wake, Release
  <2>2. w \in Seq(Task)  BY <1>7, Split DEF NoDup
  <2>. HIDE DEF w
  <2>. QED  BY <1>5, <2>1, <2>2
<1>19. ASSUME NEW y \in Slot, Down(y)  PROVE Stay  BY <1>2, <1>17, <1>19 DEF Down
<1>20. \A y \in Slot : /\ Len(queue[SemQ(y)]) \in 0 .. Len(queue[SemQ(y)])
                       /\ queue[SemQ(y)] # <<>> => 1 \in 0 .. Len(queue[SemQ(y)])
  BY Waiters DEF IInv
<1>21. ASSUME NEW y \in Slot, Up(y)  PROVE Stay  BY <1>2, <1>18, <1>20, <1>21 DEF Up
<1>22. CASE SlotCall
  <2>0. Mutex \subseteq Slot /\ Sema \subseteq Slot /\ Barrier \subseteq Slot  BY DEF Slot
  <2>1. CASE \/ \E y \in Mutex \cup Sema, n \in Counts : do_sem_init(y, n)
             \/ \E y \in Barrier, n \in Counts : do_barrier_init(y, n)
    BY <1>2, <2>1 DEF do_sem_init, do_barrier_init
  <2>2. CASE \E y \in Sema : do_sem_up(y) \/ do_sem_down(y)
    BY <1>19, <1>21, <2>0, <2>2 DEF do_sem_up, do_sem_down
  <2>3. CASE \E y \in Sema \cup Barrier : do_sem_destroy(y)
    BY <1>18, <1>20, <2>0, <2>3 DEF do_sem_destroy
  <2>4. CASE \E y \in Mutex : do_mutex_lock_acquire(y) \/ do_mutex_lock_release(y)
    BY <1>19, <1>21, <2>0, <2>4 DEF do_mutex_lock_acquire, do_mutex_lock_release
  <2>5. CASE \E y \in Barrier : do_barrier_wait(y)
    BY <1>17, <1>18, <1>20, <2>0, <2>5 DEF do_barrier_wait
  <2>. QED  BY <1>22, <2>1, <2>2, <2>3, <2>4, <2>5 DEF SlotCall
<1>. QED  BY <1>9, <1>10, <1>11, <1>13, <1>14, <1>15, <1>16, <1>22, <1>23 DEF Next, TaskCall

\* The lists are served in the order in which they were joined, but for the
\* sleepers' list and the victims of do_kill.
THEOREM ServedInOrder == Spec => NoOvertaking
<1>1. ASSUME IInv, Next, NEW x \in QName \ {TimerQ},
             NEW i \in DOMAIN queue[x], NEW j \in DOMAIN queue[x], i < j,
             queue[x][j] \notin Range(queue'[x]), queue[x][i] \in Range(queue'[x])
      PROVE  status'[queue[x][j]] = "EXITED"
  <2>1. CASE x # ReadyQ  BY <1>1, <2>1, OrderKept
  <2>2. CASE x = ReadyQ
    <3>1. queue[ReadyQ] \in Seq(Task)  BY Names, <1>1 DEF IInv, Discipline, QueuesOK, NoDup
    <3>2. i >= 1 /\ i \in Int /\ j \in Int  BY <1>1, <2>2, <3>1, LenProperties
    <3>3. j > 1  BY <1>1, <3>2
    <3>. QED  BY <1>1, <2>2, <3>3, ReadyOrder
  <2>. QED  BY <2>1, <2>2
<1>2. IInv /\ [Next]_vars =>
        [\A x \in QName \ {TimerQ} : \A i, j \in DOMAIN queue[x] :
           i < j /\ queue[x][j] \notin Range(queue'[x]) /\ queue[x][i] \in Range(queue'[x])
           => status'[queue[x][j]] = "EXITED"]_vars
  BY <1>1
<1>. QED  BY <1>2, InitOK, NextOK, PTL DEF Spec, NoOvertaking

-----------------------------------------------------------------------------
(* The barriers. *)

\* s and the waiters of a barrier together make up the count it was initialised
\* with, and s is never used up: the task that would take the last unit restores
\* it.
Counted ==
  \A x \in Barrier : busy[x] => /\ sem_s[x] > 0
                                /\ sem_s[x] + Len(queue[SemQ(x)]) = need[x]

\* Nothing a barrier depends on changes.
BarrierSame(x) ==
  /\ queue'[SemQ(x)] = queue[SemQ(x)]
  /\ sem_s'[x] = sem_s[x] /\ busy'[x] = busy[x] /\ need'[x] = need[x]

\* The calls on tasks and the timer touch no barrier: no lock[] entry names one,
\* and do_kill, not called on a waiter, leaves its list alone.
LEMMA TaskCallsBarrier ==
  ASSUME IInv, "killWaiter" \notin Misuse, reset_irq_timer \/ TaskCall, NEW x \in Barrier
  PROVE  BarrierSame(x)
<1>0. /\ x \in Slot /\ SemQ(x) \in QName /\ SemQ(x) # ReadyQ /\ SemQ(x) # TimerQ
      /\ \A t \in Task : SemQ(x) # WaitQ(t)
      /\ queue \in [QName -> NoDup(Task)] /\ sem_s \in [Slot -> Nat]
      /\ Proc \subseteq Task /\ Thread \subseteq Task
  BY Names, ConstantsOK DEF Slot, IInv, Discipline, QueuesOK, OthersTyped, Proc, Thread, Task
<1>1. CASE Hang  BY <1>1 DEF Hang, BarrierSame, slotVars
<1>2. CASE UNCHANGED slotVars /\ queue'[SemQ(x)] = queue[SemQ(x)]
  BY <1>2 DEF BarrierSame, slotVars
<1>3. CASE reset_irq_timer
  <2>. DEFINE q  == [queue EXCEPT ![TimerQ] = Pick(queue[TimerQ], DOMAIN queue[TimerQ] \ Expired),
                                  ![ReadyQ] = @ \o Pick(queue[TimerQ], Expired)]
              st == SetStatus(status, Range(Pick(queue[TimerQ], Expired)), "READY")
  <2>1. do_scheduler(q, st, pid) /\ UNCHANGED slotVars  BY <1>3 DEF reset_irq_timer
  <2>2. q[SemQ(x)] = queue[SemQ(x)]  BY <1>0
  <2>. HIDE DEF q, st
  <2>. QED  BY <1>0, <1>2, <2>1, <2>2, OtherLists
<1>4. CASE Yield  BY <1>0, <1>2, <1>4, OtherLists DEF Yield
<1>5. CASE \E d \in 0 .. MaxSleep : do_sleep(d)
  <2>. DEFINE q == list_add_tail(list_del(queue, cur), TimerQ, cur)
  <2>1. /\ cur # Idle /\ do_scheduler(q, SetStatus(status, {cur}, "BLOCKED"), pid)
        /\ UNCHANGED slotVars
    BY <1>5 DEF do_sleep
  <2>2. cur \notin Range(queue[SemQ(x)])  BY <1>0, <2>1, Caller DEF IInv, InSome
  <2>3. q[SemQ(x)] = queue[SemQ(x)]  BY <1>0, <2>2 DEF list_add_tail, list_del
  <2>. HIDE DEF q
  <2>. QED  BY <1>0, <1>2, <2>1, <2>3, OtherLists
<1>6. CASE do_mthread_create \/ \E m \in Modes : do_exec(m)
  BY <1>0, <1>2, <1>6 DEF do_mthread_create, do_exec, WritesPast, list_add_tail
<1>7. CASE do_exit /\ ~ Hang
  <2>. DEFINE q == [queue EXCEPT ![WaitQ(cur)] = <<>>, ![ReadyQ] = @ \o queue[WaitQ(cur)]]
  <2>1. cur # Idle /\ UNCHANGED slotVars /\ \E st, p : do_scheduler(q, st, p)
    BY <1>7 DEF do_exit
  <2>2. PICK st, p : do_scheduler(q, st, p)  BY <2>1
  <2>3. cur \in Task  BY <2>1, Caller DEF IInv
  <2>4. q[SemQ(x)] = queue[SemQ(x)]  BY <1>0, <2>3
  <2>. HIDE DEF q
  <2>. QED  BY <1>0, <1>2, <2>1, <2>2, <2>4, OtherLists
<1>8. CASE \E p \in Proc : do_waitpid(p)
  <2>1. PICK p \in Proc : do_waitpid(p)  BY <1>8
  <2>. DEFINE q == list_add_tail(queue, WaitQ(p), cur)
  <2>2. do_scheduler(q, SetStatus(status, {cur}, "BLOCKED"), pid) /\ UNCHANGED slotVars
    BY <2>1 DEF do_waitpid
  <2>3. q[SemQ(x)] = queue[SemQ(x)]  BY <1>0 DEF list_add_tail
  <2>. HIDE DEF q
  <2>. QED  BY <1>0, <1>2, <2>2, <2>3, OtherLists
<1>9. CASE (\E p \in Proc, thread \in BOOLEAN : do_kill(p, thread)) /\ ~ Hang
  <2>1. PICK p \in Proc, thread \in BOOLEAN : do_kill(p, thread)  BY <1>9
  <2>. DEFINE v == IF thread THEN tid_mem[p] ELSE p
  <2>2. v # 0 /\ Kill(v) /\ ~ WaitsInSlot(v)  BY <1>9, <2>1 DEF do_kill
  <2>3. v \in Task  BY <1>0, <2>2 DEF IInv, OthersTyped
  <2>. HIDE DEF v
  <2>. DEFINE rec == locks[v]
              s   == queue[SemQ(x)]
  <2>4. v \notin Range(s)  BY <1>0, <2>2 DEF WaitsInSlot
  <2>5. Unlinked(v)[SemQ(x)] = s  BY <1>0, <2>4 DEF Unlinked, list_del
  <2>6. Uses(rec, SemQ(x)) = 0
    <3>1. \A i \in DOMAIN rec : rec[i] \in Mutex
      BY <2>3, ElementOfSeq, LenProperties DEF IInv, OthersTyped
    <3>2. {i \in DOMAIN rec : SemQ(rec[i]) = SemQ(x)} = {}
      BY <3>1, ConstantsOK DEF SemQ
    <3>. QED  BY <3>2, FS_EmptySet DEF Uses
  <2>7. s \in Seq(Task) /\ Len(s) \in Nat /\ SubSeq(s, 1, Len(s)) = s
    <3>1. s \in Seq(Task)  BY <1>0 DEF NoDup
    <3>. QED  BY <3>1, LenProperties, SubSeqFull
  <2>8. queue'[SemQ(x)] = s
    <3>1. Served(Unlinked(v), SemQ(x), Uses(rec, SemQ(x)))
      BY <1>0, <1>9, <2>2, <2>3, KillLists
    <3>2. PICK m \in Int : m = Uses(rec, SemQ(x)) + 1  BY <2>6
    <3>3. queue'[SemQ(x)] = SubSeq(s, m, Len(s))  BY <2>5, <3>1, <3>2 DEF Served
    <3>4. m = 1  BY <2>6, <3>2
    <3>. QED  BY <2>7, <3>3, <3>4
  <2>9. sem_s'[x] = IF Uses(rec, SemQ(x)) > Len(Unlinked(v)[SemQ(x)]) THEN 1 ELSE sem_s[x]
    BY <1>0, <1>9, <2>2 DEF Kill, Records
  <2>10. sem_s'[x] = sem_s[x]
    <3>1. ~ (0 > Len(s))  BY <2>7
    <3>. QED  BY <2>5, <2>6, <2>9, <3>1
  <2>11. busy' = busy /\ need' = need  BY <1>9, <2>2 DEF Kill
  <2>. QED  BY <2>8, <2>10, <2>11 DEF BarrierSame
<1>. QED  BY <1>1, <1>3, <1>4, <1>5, <1>6, <1>7, <1>8, <1>9 DEF TaskCall

\* Nor do the calls on other slots.
LEMMA SlotCallsBarrier ==
  ASSUME IInv, SlotCall, NEW x \in Barrier
  PROVE  \/ BarrierSame(x)
         \/ do_barrier_wait(x) \/ do_sem_destroy(x)
         \/ \E n \in Counts : do_barrier_init(x, n)
<1>0. /\ Mutex \subseteq Slot /\ Sema \subseteq Slot /\ Barrier \subseteq Slot
      /\ x \notin Mutex /\ x \notin Sema /\ x \in Slot
      /\ sem_s \in [Slot -> Nat] /\ busy \in [Slot -> BOOLEAN] /\ need \in [Barrier -> Nat]
  BY ConstantsOK DEF Slot, IInv, OthersTyped
<1>1. ASSUME NEW y \in Slot \ {x}, cur # Idle, Wait(y)
      PROVE  queue'[SemQ(x)] = queue[SemQ(x)]
  BY <1>0, <1>1, WaitMoves
<1>2. ASSUME NEW y \in Slot \ {x}, NEW n, Wake(y, n)
      PROVE  queue'[SemQ(x)] = queue[SemQ(x)]
  BY <1>0, <1>2, WakeMoves
<1>3. ASSUME NEW y \in Slot \ {x}, cur # Idle, Down(y)
      PROVE  queue'[SemQ(x)] = queue[SemQ(x)] /\ sem_s'[x] = sem_s[x]
  BY <1>0, <1>1, <1>3 DEF Down
<1>4. ASSUME NEW y \in Slot \ {x}, Up(y)
      PROVE  queue'[SemQ(x)] = queue[SemQ(x)] /\ sem_s'[x] = sem_s[x]
  BY <1>0, <1>2, <1>4 DEF Up
<1>5. CASE \E y \in Mutex \cup Sema, n \in Counts : do_sem_init(y, n)
  BY <1>0, <1>5 DEF do_sem_init, BarrierSame
<1>6. CASE \E y \in Barrier \ {x}, n \in Counts : do_barrier_init(y, n)
  BY <1>0, <1>6 DEF do_barrier_init, BarrierSame
<1>7. CASE \E y \in Sema : do_sem_up(y) \/ do_sem_down(y)
  BY <1>0, <1>3, <1>4, <1>7 DEF do_sem_up, do_sem_down, BarrierSame
<1>8. CASE \E y \in (Sema \cup Barrier) \ {x} : do_sem_destroy(y)
  BY <1>0, <1>2, <1>8 DEF do_sem_destroy, BarrierSame
<1>9. CASE \E y \in Mutex : do_mutex_lock_acquire(y) \/ do_mutex_lock_release(y)
  BY <1>0, <1>3, <1>4, <1>9 DEF do_mutex_lock_acquire, do_mutex_lock_release, BarrierSame
<1>10. CASE \E y \in Barrier \ {x} : do_barrier_wait(y)
  BY <1>0, <1>1, <1>2, <1>10 DEF do_barrier_wait, BarrierSame
<1>. QED  BY <1>5, <1>6, <1>7, <1>8, <1>9, <1>10 DEF SlotCall

\* What the calls on the barrier itself do.
LEMMA OwnCalls ==
  ASSUME IInv, Counted, NEW x \in Barrier
  PROVE  /\ do_barrier_wait(x) /\ ~ Last(x) =>
              /\ queue'[SemQ(x)] = Append(queue[SemQ(x)], cur)
              /\ Len(queue'[SemQ(x)]) = Len(queue[SemQ(x)]) + 1
              /\ sem_s'[x] = sem_s[x] - 1 /\ UNCHANGED <<busy, need>>
         /\ do_barrier_wait(x) /\ Last(x) =>
              /\ queue'[SemQ(x)] = <<>> /\ Len(queue[SemQ(x)]) = need[x] - 1
              /\ sem_s'[x] = need[x] /\ need[x] > 0 /\ UNCHANGED <<busy, need>>
         /\ do_sem_destroy(x) => queue'[SemQ(x)] = <<>> /\ ~ busy'[x]
         /\ \A n \in Counts : do_barrier_init(x, n) =>
              /\ queue[SemQ(x)] = <<>> /\ queue'[SemQ(x)] = <<>>
              /\ sem_s'[x] = n /\ need'[x] = n /\ n > 0
<1>. DEFINE s == queue[SemQ(x)]
<1>0. /\ x \in Slot /\ SemQ(x) \in QName
      /\ sem_s \in [Slot -> Nat] /\ busy \in [Slot -> BOOLEAN] /\ need \in [Barrier -> Nat]
  BY Names DEF Slot, IInv, OthersTyped
<1>1. s \in Seq(Task) /\ Len(s) \in Nat
  BY <1>0, LenProperties DEF IInv, Discipline, QueuesOK, NoDup
<1>2. SubSeq(s, Len(s) + 1, Len(s)) = <<>>
  <2>1. Len(s) + 1 \in Int /\ Len(s) \in Int /\ Len(s) + 1 > Len(s)  BY <1>1
  <2>. QED  BY <1>1, <2>1, SubSeqEmpty
<1>3. ASSUME Wake(x, Len(s))  PROVE queue'[SemQ(x)] = <<>>
  BY <1>0, <1>2, <1>3, WakeMoves
<1>4. ASSUME do_barrier_wait(x), ~ Last(x)
      PROVE  /\ queue'[SemQ(x)] = Append(s, cur) /\ Len(queue'[SemQ(x)]) = Len(s) + 1
             /\ sem_s'[x] = sem_s[x] - 1 /\ UNCHANGED <<busy, need>>
  <2>1. cur # Idle /\ Wait(x) /\ sem_s' = [sem_s EXCEPT ![x] = @ - 1] /\ UNCHANGED <<busy, need>>
    BY <1>4 DEF do_barrier_wait
  <2>2. queue'[SemQ(x)] = Append(s, cur)  BY <1>0, <2>1, WaitMoves
  <2>3. cur \in Task  BY <2>1, Caller DEF IInv
  <2>4. Len(Append(s, cur)) = Len(s) + 1  BY <1>1, <2>3, AppendProperties
  <2>. QED  BY <1>0, <2>1, <2>2, <2>4
<1>5. ASSUME do_barrier_wait(x), Last(x)
      PROVE  /\ queue'[SemQ(x)] = <<>> /\ Len(s) = need[x] - 1
             /\ sem_s'[x] = need[x] /\ need[x] > 0 /\ UNCHANGED <<busy, need>>
  <2>1. /\ busy[x] /\ Wake(x, Len(s)) /\ sem_s' = [sem_s EXCEPT ![x] = sem_s[x] + Len(s)]
        /\ UNCHANGED <<busy, need>>
    BY <1>5 DEF do_barrier_wait, Restored
  <2>2. sem_s[x] > 0 /\ sem_s[x] + Len(s) = need[x]  BY <2>1 DEF Counted
  <2>3. sem_s[x] = 1
    <3>1. sem_s[x] \in Nat /\ sem_s[x] <= 1  BY <1>0, <1>5 DEF Last
    <3>. QED  BY <2>2, <3>1
  <2>4. need[x] = 1 + Len(s)  BY <2>2, <2>3
  <2>5. sem_s'[x] = need[x]  BY <1>0, <2>1, <2>2
  <2>. QED  BY <1>1, <1>3, <2>1, <2>4, <2>5
<1>6. ASSUME do_sem_destroy(x)  PROVE queue'[SemQ(x)] = <<>> /\ ~ busy'[x]
  BY <1>0, <1>3, <1>6 DEF do_sem_destroy
<1>7. ASSUME NEW n \in Counts, do_barrier_init(x, n)
      PROVE  /\ s = <<>> /\ queue'[SemQ(x)] = <<>>
             /\ sem_s'[x] = n /\ need'[x] = n /\ n > 0
  <2>1. n > 0  BY ConstantsOK
  <2>. QED  BY <1>0, <1>7, <2>1 DEF do_barrier_init
<1>. QED  BY <1>4, <1>5, <1>6, <1>7

\* Every step keeps the count, when nobody kills a task that waits.
LEMMA CountedKept ==
  ASSUME "killWaiter" \notin Misuse, IInv, Counted, [Next]_vars
  PROVE  Counted'
<1>. SUFFICES ASSUME NEW x \in Barrier, busy'[x]
              PROVE  sem_s'[x] > 0 /\ sem_s'[x] + Len(queue'[SemQ(x)]) = need'[x]
  BY DEF Counted, SemQ
<1>0. Len(queue[SemQ(x)]) \in Nat /\ sem_s[x] \in Nat
  BY Waiters DEF IInv, OthersTyped, Slot
<1>1. CASE BarrierSame(x)  BY <1>1 DEF BarrierSame, Counted
<1>2. CASE do_barrier_wait(x) /\ ~ Last(x)
  <2>1. /\ Len(queue'[SemQ(x)]) = Len(queue[SemQ(x)]) + 1
        /\ sem_s'[x] = sem_s[x] - 1 /\ UNCHANGED <<busy, need>>
    BY <1>2, OwnCalls
  <2>2. sem_s[x] > 1  BY <1>0, <1>2 DEF Last
  <2>3. sem_s[x] + Len(queue[SemQ(x)]) = need[x]  BY <2>1 DEF Counted
  <2>4. sem_s'[x] > 0  BY <1>0, <2>1, <2>2
  <2>5. sem_s'[x] + Len(queue'[SemQ(x)]) = need[x]  BY <1>0, <2>1, <2>3
  <2>. QED  BY <2>1, <2>4, <2>5
<1>3. CASE \/ do_barrier_wait(x) /\ Last(x)
           \/ \E n \in Counts : do_barrier_init(x, n)
  <2>1. queue'[SemQ(x)] = <<>> /\ sem_s'[x] = need'[x] /\ need'[x] > 0
    BY <1>3, OwnCalls
  <2>2. need'[x] \in Nat  BY NextOK DEF IInv, OthersTyped
  <2>3. Len(queue'[SemQ(x)]) = 0  BY <2>1
  <2>. QED  BY <2>1, <2>2, <2>3
<1>4. CASE do_sem_destroy(x)  BY <1>4, OwnCalls
<1>5. CASE UNCHANGED vars  BY <1>1, <1>5 DEF vars, slotVars, BarrierSame
<1>6. CASE Next
  BY <1>1, <1>2, <1>3, <1>4, <1>6, TaskCallsBarrier, SlotCallsBarrier DEF Next
<1>. QED  BY <1>5, <1>6

\* A barrier opens for everybody at once and when all its tasks have arrived, for
\* any number of tasks and barriers, provided nobody kills a task that waits.
THEOREM BarriersOpenTogether ==
  ASSUME "killWaiter" \notin Misuse
  PROVE  Spec => BarrierTogether
<1>. DEFINE Leaves(x) == \E t \in Range(queue[SemQ(x)]) :
                           t \notin Range(queue'[SemQ(x)]) /\ status'[t] = "READY"
<1>1. ASSUME IInv, Counted, Next, NEW x \in Barrier, Leaves(x)
      PROVE  /\ queue'[SemQ(x)] = <<>>
             /\ busy'[x] => Len(queue[SemQ(x)]) = need[x] - 1
  <2>1. CASE BarrierSame(x)  BY <1>1, <2>1 DEF BarrierSame
  <2>2. CASE do_barrier_wait(x) /\ ~ Last(x)
    <3>1. queue'[SemQ(x)] = Append(queue[SemQ(x)], cur) /\ cur # Idle
      BY <1>1, <2>2, OwnCalls DEF do_barrier_wait
    <3>2. queue[SemQ(x)] \in NoDup(Task)
      BY <1>1, Names DEF Slot, IInv, Discipline, QueuesOK
    <3>3. cur \in Task /\ cur \notin Range(queue[SemQ(x)])
      BY <1>1, <3>1, Caller, Names DEF IInv, InSome, Slot
    <3>4. Range(queue'[SemQ(x)]) = Range(queue[SemQ(x)]) \cup {cur}
      BY <3>1, <3>2, <3>3, AppendNew
    <3>. QED  BY <1>1, <3>4
  <2>3. CASE \/ do_barrier_wait(x) /\ Last(x)
             \/ do_sem_destroy(x)
    BY <1>1, <2>3, OwnCalls
  <2>4. CASE \E n \in Counts : do_barrier_init(x, n)
    <3>1. Range(queue[SemQ(x)]) = {}  BY <1>1, <2>4, OwnCalls DEF Range
    <3>. QED  BY <1>1, <3>1
  <2>. QED  BY <1>1, <2>1, <2>2, <2>3, <2>4, TaskCallsBarrier, SlotCallsBarrier DEF Next
<1>2. IInv /\ Counted /\ [Next]_vars =>
        [\A x \in Barrier : Leaves(x) => /\ queue'[SemQ(x)] = <<>>
                                         /\ busy'[x] => Len(queue[SemQ(x)]) = need[x] - 1]_vars
  BY <1>1
<1>3. Init => Counted  BY DEF Init, Counted, Slot
<1>4. IInv /\ Counted /\ [Next]_vars => Counted'  BY CountedKept
<1>. QED  BY <1>2, <1>3, <1>4, InitOK, NextOK, PTL DEF Spec, BarrierTogether
=============================================================================
