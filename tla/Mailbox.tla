------------------------------ MODULE Mailbox ------------------------------
(***************************************************************************)
(* The mailboxes of kernel/locking/lock.c (205-307).                       *)
(*                                                                         *)
(* A call that cannot go on blocks inside a loop and tests its condition   *)
(* again when it is dispatched, so send and recv have a step each time     *)
(* they run from the test to do_scheduler or to the return.  Between two   *)
(* steps any task that is not blocked may run: the order of ready_queue    *)
(* (module Tasks) is left open here.  block_count, a statistic that the    *)
(* calls return, is left out.                                              *)
(***************************************************************************)
EXTENDS Lists

CONSTANTS
  Task,
  NumMbox,    \* entries of mbox_arr (MAXMBOX)
  Name, NoName,
  Capacity,   \* bytes in a mailbox: 64
  Byte,
  Sizes,      \* the lengths programs send and receive
  CloseShared \* whether programs close a mailbox that others have open

Mbox == 0 .. NumMbox - 1
Cell == 0 .. Capacity - 1
ZeroByte == CHOOSE b \in Byte : TRUE

ASSUME MailboxConstants ==
  /\ NumMbox \in Nat /\ Capacity \in Nat
  /\ NoName \notin Name
  /\ Sizes \subseteq Nat \ {0}
  /\ Byte # {}
  /\ CloseShared \in BOOLEAN

VARIABLES
  name, busy,     \* name (NoName: the empty string) and status
  msg, index,     \* the buffer and the bytes in it
  full, empty,    \* the wait queues of senders and of receivers
  blocked,        \* the tasks whose status is BLOCKED
  call,           \* the send or recv a task is in
  handle,         \* the name under which a task opened a mailbox and has it
  alive,
  got             \* history: the bytes the last recv to return has copied

boxVars == <<name, busy, msg, index>>
taskVars == <<call, handle, alive>>
vars == <<boxVars, full, empty, blocked, taskVars, got>>

NoCall == [op |-> "none"]
Request == [op : {"send", "recv"}, box : Mbox, size : Sizes, data : Seq(Byte)]
Send(m, b) == [op |-> "send", box |-> m, size |-> Len(b), data |-> b]
Recv(m, n) == [op |-> "recv", box |-> m, size |-> n, data |-> <<>>]

-----------------------------------------------------------------------------
\* A free task, or one that was woken, is dispatched.
Runs(t) == t \in alive \ blocked
Idle(t) == Runs(t) /\ call[t] = NoCall

\* The task is in request r, or begins it.
InCall(t, r) == Runs(t) /\ (call[t] = r \/ (call[t] = NoCall /\ handle[t][r.box] # NoName))

\* Variant: an entry in use is taken too.
AnyFree == Mbox
Free == {m \in Mbox : ~ busy[m]}
First(S) == CHOOSE m \in S : \A k \in S : m <= k

do_mbox_open(t, n) ==
  LET found == {m \in Mbox : name[m] = n}
      id    == First(IF found # {} THEN found ELSE Free)
  IN  /\ Idle(t)
      /\ found # {} \/ Free # {}
      /\ handle' = [handle EXCEPT ![t][id] = n]
      /\ \/ /\ found # {}
            /\ UNCHANGED <<boxVars, full, empty>>
         \/ /\ found = {}
            /\ busy' = [busy EXCEPT ![id] = TRUE]
            /\ name' = [name EXCEPT ![id] = n]
            /\ index' = [index EXCEPT ![id] = 0]
            /\ empty' = [empty EXCEPT ![id] = <<>>]   \* new list heads: who waited
            /\ full' = [full EXCEPT ![id] = <<>>]     \* in the old ones stays there
            /\ UNCHANGED msg
      /\ UNCHANGED <<blocked, call, alive, got>>

do_mbox_close(t, m) ==
  /\ Idle(t) /\ handle[t][m] # NoName
  /\ (\E u \in Task \ {t} : handle[u][m] # NoName) => CloseShared
  /\ busy' = [busy EXCEPT ![m] = FALSE]
  /\ index' = [index EXCEPT ![m] = 0]
  /\ name' = [name EXCEPT ![m] = NoName]
  /\ handle' = [handle EXCEPT ![t][m] = NoName]
  /\ UNCHANGED <<msg, full, empty, blocked, call, alive, got>>

\* The current task, which has joined a wait queue, leaves in do_scheduler.
Block(t, r) == /\ blocked' = blocked \cup {t}
               /\ call' = [call EXCEPT ![t] = r]
               /\ UNCHANGED <<boxVars, handle, alive, got>>

\* The loops that empty a wait queue; variant: only its first task is woken.
WakeReceivers(m) == /\ empty' = [empty EXCEPT ![m] = <<>>]
                    /\ blocked' = blocked \ Range(empty[m])
                    /\ UNCHANGED full
WakeOne(m) == /\ full' = [full EXCEPT ![m] = SubSeq(@, 2, Len(@))]
              /\ blocked' = blocked \ {full[m][i] : i \in DOMAIN full[m] \cap {1}}
              /\ UNCHANGED empty
WakeSenders(m) == /\ full' = [full EXCEPT ![m] = <<>>]
                  /\ blocked' = blocked \ Range(full[m])
                  /\ UNCHANGED empty

Return(t) == call' = [call EXCEPT ![t] = NoCall] /\ UNCHANGED <<name, busy, handle, alive>>

Fits(m, n) == index[m] + n <= Capacity

Stored(m, b) == [i \in Cell |-> IF i \in index[m] .. index[m] + Len(b) - 1
                                THEN b[i - index[m] + 1] ELSE msg[m][i]]

do_mbox_send(t, m, b) ==
  /\ InCall(t, Send(m, b))
  /\ \/ /\ ~ Fits(m, Len(b))
        /\ full' = [full EXCEPT ![m] = Append(@, t)]
        /\ Block(t, Send(m, b))
        /\ UNCHANGED empty
     \/ /\ Fits(m, Len(b))
        /\ msg' = [msg EXCEPT ![m] = Stored(m, b)]
        /\ index' = [index EXCEPT ![m] = @ + Len(b)]
        /\ WakeReceivers(m)
        /\ Return(t)
        /\ UNCHANGED got

\* The bytes behind the n first ones move to the front; variant: all but the last.
ShiftedShort(m, n) == [i \in Cell |-> IF i + n < index[m] - 1 THEN msg[m][i + n] ELSE msg[m][i]]
Shifted(m, n) == [i \in Cell |-> IF i + n < index[m] THEN msg[m][i + n] ELSE msg[m][i]]

do_mbox_recv(t, m, n) ==
  /\ InCall(t, Recv(m, n))
  /\ \/ /\ index[m] - n < 0
        /\ empty' = [empty EXCEPT ![m] = Append(@, t)]
        /\ Block(t, Recv(m, n))
        /\ UNCHANGED full
     \/ /\ index[m] - n >= 0
        /\ got' = [i \in 1 .. n |-> msg[m][i - 1]]
        /\ msg' = [msg EXCEPT ![m] = Shifted(m, n)]
        /\ index' = [index EXCEPT ![m] = @ - n]
        /\ WakeSenders(m)
        /\ Return(t)

\* The wait queues q without task t.
list_del(q, t) == [m \in Mbox |-> IF t \in Range(q[m]) THEN Without(q[m], t) ELSE q[m]]

\* A task exits, or is killed wherever it is: do_kill unlinks it.
Gone(t) ==
  /\ t \in alive
  /\ alive' = alive \ {t}
  /\ blocked' = blocked \ {t}
  /\ full' = list_del(full, t)
  /\ empty' = list_del(empty, t)
  /\ call' = [call EXCEPT ![t] = NoCall]
  /\ handle' = [handle EXCEPT ![t] = [m \in Mbox |-> NoName]]
  /\ UNCHANGED <<boxVars, got>>

Init ==
  /\ name = [m \in Mbox |-> NoName] /\ busy = [m \in Mbox |-> FALSE]
  /\ msg = [m \in Mbox |-> [i \in Cell |-> ZeroByte]] /\ index = [m \in Mbox |-> 0]
  /\ full = [m \in Mbox |-> <<>>] /\ empty = [m \in Mbox |-> <<>>]
  /\ blocked = {}
  /\ call = [t \in Task |-> NoCall]
  /\ handle = [t \in Task |-> [m \in Mbox |-> NoName]]
  /\ alive = Task
  /\ got = <<>>

Sending(t) == \E m \in Mbox, n \in Sizes : \E b \in [1 .. n -> Byte] : do_mbox_send(t, m, b)
Receiving(t) == \E m \in Mbox, n \in Sizes : do_mbox_recv(t, m, n)

Next == \E t \in Task : \/ \E n \in Name : do_mbox_open(t, n)
                        \/ \E m \in Mbox : do_mbox_close(t, m)
                        \/ Sending(t) \/ Receiving(t) \/ Gone(t)

Spec == Init /\ [][Next]_vars
-----------------------------------------------------------------------------
(* Properties. *)

\* Nobody sleeps who could go on: a blocked sender finds too little room, and a
\* blocked receiver too few bytes, in the mailbox whose wait queue it is in.  The
\* wake-up, which comes from the other side only, is never missed.
NoLostWakeup ==
  \A t \in blocked : \E m \in Mbox :
     \/ t \in Range(full[m]) /\ index[m] + call[t].size > Capacity
     \/ t \in Range(empty[m]) /\ index[m] < call[t].size

\* A sender and a receiver block each other only if their lengths together
\* exceed the buffer by more than one byte.
MutualBlock ==
  \A m \in Mbox : \A s \in Range(full[m]), r \in Range(empty[m]) :
     call[s].size + call[r].size > Capacity + 1

\* Tasks meet by name: two handles are the same mailbox if and only if they were
\* opened under the same name.
Rendezvous ==
  \A t, u \in Task, m, k \in Mbox :
     handle[t][m] # NoName /\ handle[u][k] # NoName =>
        (handle[t][m] = handle[u][k] <=> m = k)

\* Each mailbox is a byte queue.
Contents == [m \in Mbox |-> [i \in 1 .. index[m] |-> msg[m][i - 1]]]
Abstract == INSTANCE ByteQueue WITH bytes <- Contents
IsByteQueue == Abstract!Spec
=============================================================================
