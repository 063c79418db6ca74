--------------------------- MODULE MailboxProofs ---------------------------
(***************************************************************************)
(* The mailboxes, for any number of tasks, mailboxes and names and any     *)
(* lengths.  The buffer implements a queue of bytes whatever the programs  *)
(* do; and as long as nobody closes a mailbox that others have open,       *)
(* whoever is blocked has reason to be, and two tasks with one name share  *)
(* a mailbox.  IInv links each place where a blocked task is recorded      *)
(* (blocked, call, the wait queues, the handles) to the others, and Named  *)
(* the handles to the names.                                               *)
(***************************************************************************)
EXTENDS Mailbox, ListsTheorems, WellFoundedInduction

Typed ==
  /\ name \in [Mbox -> Name \cup {NoName}] /\ busy \in [Mbox -> BOOLEAN]
  /\ msg \in [Mbox -> [Cell -> Byte]] /\ index \in [Mbox -> 0 .. Capacity]
  /\ call \in [Task -> {NoCall} \cup Request]
  /\ handle \in [Task -> [Mbox -> Name \cup {NoName}]]
  /\ got \in Seq(Byte)

\* The wait queues and the statuses.
Queues ==
  /\ full \in [Mbox -> NoDup(Task)] /\ empty \in [Mbox -> NoDup(Task)]
  /\ alive \subseteq Task /\ blocked \subseteq alive
  /\ \A m \in Mbox : Range(full[m]) \subseteq blocked /\ Range(empty[m]) \subseteq blocked
  /\ \A t \in blocked : \E m \in Mbox : t \in Range(full[m]) \cup Range(empty[m])

\* Whoever has a mailbox open keeps it busy, and calls go to open ones.
Open ==
  /\ \A m \in Mbox : name[m] # NoName => busy[m]
  /\ \A t \in Task, m \in Mbox : handle[t][m] # NoName => busy[m]
  /\ \A t \in Task : call[t] # NoCall => handle[t][call[t].box] # NoName

\* A waiter is in the call its queue says, and its condition does not hold.
Waiting ==
  \A m \in Mbox :
    /\ \A t \in Range(full[m]) : /\ call[t].op = "send" /\ call[t].box = m
                                 /\ index[m] + call[t].size > Capacity
    /\ \A t \in Range(empty[m]) : /\ call[t].op = "recv" /\ call[t].box = m
                                  /\ index[m] < call[t].size

IInv == Typed /\ Queues /\ Open /\ Waiting

-----------------------------------------------------------------------------
(* Lemmas on the operators. *)

\* An entry of mbox_arr is found when there is one to find.
LEMMA FirstIn ==
  ASSUME NEW S, S \subseteq Mbox, S # {}
  PROVE  First(S) \in S
<1>1. S \subseteq Nat  BY MailboxConstants DEF Mbox
<1>2. PICK x \in S : \A y \in S : ~ (<<y, x>> \in OpToRel(<, Nat))
  BY <1>1, NatLessThanWellFounded, WFMin
<1>3. \A y \in S : ~ (y < x)  BY <1>1, <1>2 DEF OpToRel
<1>4. \A y \in S : x <= y  BY <1>1, <1>3
<1>. QED  BY <1>4 DEF First

\* A message is a sequence of bytes, and requests are well formed.
LEMMA Requests ==
  ASSUME NEW m \in Mbox, NEW n \in Sizes
  PROVE  /\ Recv(m, n) \in Request /\ Recv(m, n) # NoCall
         /\ \A b \in [1 .. n -> Byte] : /\ b \in Seq(Byte) /\ Len(b) = n
                                        /\ Send(m, b) \in Request /\ Send(m, b) # NoCall
<1>1. n \in Nat  BY MailboxConstants
<1>2. <<>> \in Seq(Byte)  OBVIOUS
<1>3. Recv(m, n) \in Request  BY <1>2 DEF Recv, Request
<1>4. Recv(m, n) # NoCall
  <2>1. Recv(m, n).op # NoCall.op  BY DEF Recv, NoCall
  <2>. QED  BY <2>1
<1>5. ASSUME NEW b \in [1 .. n -> Byte]
      PROVE  b \in Seq(Byte) /\ Len(b) = n /\ Send(m, b) \in Request /\ Send(m, b) # NoCall
  <2>1. b \in Seq(Byte) /\ Len(b) = n  BY <1>1, <1>5
  <2>2. Send(m, b) \in Request  BY <2>1 DEF Send, Request
  <2>3. Send(m, b).op # NoCall.op  BY DEF Send, NoCall
  <2>. QED  BY <2>1, <2>2, <2>3
<1>. QED  BY <1>3, <1>4, <1>5

\* Unlinking a task from every wait queue.
LEMMA Unlinked ==
  ASSUME NEW q \in [Mbox -> NoDup(Task)], NEW t \in Task
  PROVE  /\ list_del(q, t) \in [Mbox -> NoDup(Task)]
         /\ \A m \in Mbox : Range(list_del(q, t)[m]) = Range(q[m]) \ {t}
<1>1. ASSUME NEW m \in Mbox
      PROVE  list_del(q, t)[m] \in NoDup(Task) /\ Range(list_del(q, t)[m]) = Range(q[m]) \ {t}
  <2>1. CASE t \in Range(q[m])  BY <2>1, WithoutOne DEF list_del
  <2>2. CASE t \notin Range(q[m])  BY <2>2 DEF list_del
  <2>. QED  BY <2>1, <2>2
<1>. QED  BY <1>1 DEF list_del

\* do_mbox_open returns an entry that has the name already, or a free one, which
\* it empties.
LEMMA Opened ==
  ASSUME NEW t \in Task, NEW n \in Name, do_mbox_open(t, n)
  PROVE  \E id \in Mbox :
           /\ handle' = [handle EXCEPT ![t][id] = n]
           /\ \/ name[id] = n /\ UNCHANGED <<boxVars, full, empty>>
              \/ /\ ~ busy[id]
                 /\ busy' = [busy EXCEPT ![id] = TRUE] /\ name' = [name EXCEPT ![id] = n]
                 /\ index' = [index EXCEPT ![id] = 0] /\ UNCHANGED msg
                 /\ full' = [full EXCEPT ![id] = <<>>]
                 /\ empty' = [empty EXCEPT ![id] = <<>>]
<1>1. PICK found : found = {m \in Mbox : name[m] = n}  OBVIOUS
<1>2. found # {} \/ Free # {}  BY <1>1 DEF do_mbox_open
<1>3. CASE found # {}
  <2>1. First(found) \in found  BY <1>1, <1>3, FirstIn
  <2>2. handle' = [handle EXCEPT ![t][First(found)] = n] /\ UNCHANGED <<boxVars, full, empty>>
    BY <1>1, <1>3 DEF do_mbox_open
  <2>. QED  BY <1>1, <2>1, <2>2
<1>4. CASE found = {}
  <2>1. First(Free) \in Free  BY <1>2, <1>4, FirstIn DEF Free
  <2>2. First(Free) \in Mbox /\ ~ busy[First(Free)]  BY <2>1 DEF Free
  <2>3. /\ handle' = [handle EXCEPT ![t][First(Free)] = n]
        /\ busy' = [busy EXCEPT ![First(Free)] = TRUE]
        /\ name' = [name EXCEPT ![First(Free)] = n]
        /\ index' = [index EXCEPT ![First(Free)] = 0] /\ UNCHANGED msg
        /\ full' = [full EXCEPT ![First(Free)] = <<>>]
        /\ empty' = [empty EXCEPT ![First(Free)] = <<>>]
    BY <1>1, <1>4 DEF do_mbox_open
  <2>. QED  BY <2>2, <2>3
<1>. QED  BY <1>3, <1>4

-----------------------------------------------------------------------------
(* The steps keep the types. *)

\* The empty bss of the kernel.
LEMMA InitTyped == Init => Typed
<1>1. ZeroByte \in Byte  BY MailboxConstants DEF ZeroByte
<1>2. 0 \in 0 .. Capacity  BY MailboxConstants
<1>. QED  BY <1>1, <1>2 DEF Init, Typed

\* Every step of every task.
LEMMA NextTyped == Typed /\ [Next]_vars => Typed'
<1> SUFFICES ASSUME Typed, [Next]_vars  PROVE Typed'
  OBVIOUS
<1>. USE DEF Typed
<1>1. CASE UNCHANGED vars  BY <1>1 DEF vars, boxVars, taskVars
<1>2. ASSUME NEW t \in Task, NEW n \in Name, do_mbox_open(t, n)  PROVE Typed'
  <2>1. PICK id \in Mbox :
          /\ handle' = [handle EXCEPT ![t][id] = n]
          /\ \/ name[id] = n /\ UNCHANGED <<boxVars, full, empty>>
             \/ /\ ~ busy[id]
                /\ busy' = [busy EXCEPT ![id] = TRUE] /\ name' = [name EXCEPT ![id] = n]
                /\ index' = [index EXCEPT ![id] = 0] /\ UNCHANGED msg
                /\ full' = [full EXCEPT ![id] = <<>>]
                /\ empty' = [empty EXCEPT ![id] = <<>>]
    BY <1>2, Opened
  <2>2. UNCHANGED <<call, got>>  BY <1>2 DEF do_mbox_open
  <2>3. 0 \in 0 .. Capacity  BY MailboxConstants
  <2>4. \/ UNCHANGED <<name, busy, msg, index>>
        \/ /\ busy' = [busy EXCEPT ![id] = TRUE] /\ name' = [name EXCEPT ![id] = n]
           /\ index' = [index EXCEPT ![id] = 0] /\ UNCHANGED msg
    BY <2>1 DEF boxVars
  <2>5. handle' \in [Task -> [Mbox -> Name \cup {NoName}]]  BY <2>1
  <2>6. name' \in [Mbox -> Name \cup {NoName}] /\ busy' \in [Mbox -> BOOLEAN]  BY <2>4
  <2>7. index' \in [Mbox -> 0 .. Capacity]  BY <2>3, <2>4
  <2>. QED  BY <2>2, <2>4, <2>5, <2>6, <2>7
<1>3. ASSUME NEW t \in Task, NEW m \in Mbox, do_mbox_close(t, m)  PROVE Typed'
  <2>1. 0 \in 0 .. Capacity  BY MailboxConstants
  <2>. QED  BY <1>3, <2>1 DEF do_mbox_close
<1>4. ASSUME NEW t \in Task, NEW m \in Mbox, NEW n \in Sizes, NEW b \in [1 .. n -> Byte],
             do_mbox_send(t, m, b)
      PROVE  Typed'
  <2>1. b \in Seq(Byte) /\ Len(b) = n /\ Send(m, b) \in Request  BY Requests
  <2>2. CASE ~ Fits(m, Len(b))
    BY <1>4, <2>1, <2>2 DEF do_mbox_send, Block, boxVars
  <2>3. CASE Fits(m, Len(b))
    <3>1. n \in Nat /\ index[m] \in Nat /\ index[m] + n <= Capacity
      BY <2>1, <2>3, MailboxConstants DEF Fits
    <3>2. index' \in [Mbox -> 0 .. Capacity]
      BY <1>4, <2>1, <2>3, <3>1, MailboxConstants DEF do_mbox_send
    <3>3. Stored(m, b) \in [Cell -> Byte]
      <4>1. \A i \in Cell : i \in index[m] .. index[m] + n - 1 => b[i - index[m] + 1] \in Byte
        BY <3>1, MailboxConstants DEF Cell
      <4>. QED  BY <2>1, <4>1 DEF Stored
    <3>4. msg' \in [Mbox -> [Cell -> Byte]]  BY <1>4, <2>3, <3>3 DEF do_mbox_send
    <3>5. call' \in [Task -> {NoCall} \cup Request]  BY <1>4, <2>3 DEF do_mbox_send, Return
    <3>. QED  BY <1>4, <2>3, <3>2, <3>4, <3>5 DEF do_mbox_send, Return
  <2>. QED  BY <2>2, <2>3
<1>5. ASSUME NEW t \in Task, NEW m \in Mbox, NEW n \in Sizes, do_mbox_recv(t, m, n)
      PROVE  Typed'
  <2>1. n \in Nat /\ index[m] \in Nat /\ index[m] <= Capacity /\ Capacity \in Nat
    BY MailboxConstants
  <2>2. CASE index[m] - n < 0
    <3>1. Recv(m, n) \in Request  BY Requests
    <3>2. UNCHANGED <<boxVars, handle, got>> /\ call' = [call EXCEPT ![t] = Recv(m, n)]
      BY <1>5, <2>1, <2>2 DEF do_mbox_recv, Block
    <3>. QED  BY <3>1, <3>2 DEF boxVars
  <2>3. CASE index[m] - n >= 0
    <3>1. got' = [i \in 1 .. n |-> msg[m][i - 1]] /\ msg' = [msg EXCEPT ![m] = Shifted(m, n)]
          /\ index' = [index EXCEPT ![m] = @ - n] /\ Return(t)
      BY <1>5, <2>1, <2>3 DEF do_mbox_recv
    <3>2. \A i \in 1 .. n : i - 1 \in Cell  BY <2>1, <2>3 DEF Cell
    <3>3. got' \in Seq(Byte)  BY <2>1, <3>1, <3>2
    <3>4. \A i \in Cell : i + n < index[m] => i + n \in Cell  BY <2>1 DEF Cell
    <3>5. Shifted(m, n) \in [Cell -> Byte]  BY <3>4 DEF Shifted
    <3>6. index[m] - n \in 0 .. Capacity  BY <2>1, <2>3
    <3>. QED  BY <3>1, <3>3, <3>5, <3>6 DEF Return
  <2>. QED  BY <2>1, <2>2, <2>3
<1>6. ASSUME NEW t \in Task, Gone(t)  PROVE Typed'
  BY <1>6 DEF Gone, boxVars
<1>. QED
  <2>1. CASE Next
    BY <2>1, <1>2, <1>3, <1>4, <1>5, <1>6 DEF Next, Sending, Receiving
  <2>. QED  BY <1>1, <2>1
-----------------------------------------------------------------------------
(* The buffer is a queue of bytes. *)

\* The elements of a concatenation.
LEMMA Concatenated ==
  ASSUME NEW S, NEW c \in Seq(S), NEW b \in Seq(S)
  PROVE  /\ c \o b \in Seq(S) /\ Len(c \o b) = Len(c) + Len(b)
         /\ \A i \in 1 .. Len(c) : (c \o b)[i] = c[i]
         /\ \A i \in Len(c) + 1 .. Len(c) + Len(b) : (c \o b)[i] = b[i - Len(c)]
OBVIOUS

\* The elements of the two parts of a sequence.
LEMMA Cut ==
  ASSUME NEW S, NEW c \in Seq(S), NEW n \in Nat, n <= Len(c)
  PROVE  /\ SubSeq(c, 1, n) \in Seq(S) /\ Len(SubSeq(c, 1, n)) = n
         /\ \A i \in 1 .. n : SubSeq(c, 1, n)[i] = c[i]
         /\ SubSeq(c, n + 1, Len(c)) \in Seq(S) /\ Len(SubSeq(c, n + 1, Len(c))) = Len(c) - n
         /\ \A i \in 1 .. Len(c) - n : SubSeq(c, n + 1, Len(c))[i] = c[i + n]
OBVIOUS

\* What a mailbox holds is what its index and array say.
LEMMA ContentsFacts ==
  ASSUME Typed, NEW m \in Mbox
  PROVE  /\ Contents[m] \in Seq(Byte) /\ Len(Contents[m]) = index[m]
         /\ \A i \in 1 .. index[m] : Contents[m][i] = msg[m][i - 1]
<1>1. index[m] \in Nat /\ index[m] <= Capacity /\ Capacity \in Nat
  BY MailboxConstants DEF Typed
<1>2. \A i \in 1 .. index[m] : i - 1 \in Cell  BY <1>1 DEF Cell
<1>3. Contents[m] = [i \in 1 .. index[m] |-> msg[m][i - 1]]  BY DEF Contents
<1>4. \A i \in 1 .. index[m] : msg[m][i - 1] \in Byte  BY <1>2 DEF Typed
<1>. QED  BY <1>1, <1>3, <1>4

\* Each step of the mailboxes is a step of the queue, or none.
LEMMA StepIsQueueStep ==
  ASSUME Typed, Typed', [Next]_vars
  PROVE  [Abstract!Next]_<<Contents, got>>
<1>1. \A m \in Mbox : /\ Contents[m] \in Seq(Byte) /\ Len(Contents[m]) = index[m]
                      /\ index[m] \in Nat /\ index[m] <= Capacity /\ Capacity \in Nat
                      /\ \A i \in 1 .. index[m] : Contents[m][i] = msg[m][i - 1]
  BY ContentsFacts, MailboxConstants DEF Typed
<1>2. \A m \in Mbox : /\ Contents'[m] \in Seq(Byte) /\ Len(Contents'[m]) = index'[m]
                      /\ index'[m] \in Nat
                      /\ \A i \in 1 .. index'[m] : Contents'[m][i] = msg'[m][i - 1]
  <2>1. ASSUME NEW m \in Mbox
        PROVE  /\ Contents'[m] \in Seq(Byte) /\ Len(Contents'[m]) = index'[m]
               /\ index'[m] \in Nat
               /\ \A i \in 1 .. index'[m] : Contents'[m][i] = msg'[m][i - 1]
    <3>1. index'[m] \in Nat /\ index'[m] <= Capacity /\ Capacity \in Nat
      BY MailboxConstants DEF Typed
    <3>2. \A i \in 1 .. index'[m] : i - 1 \in Cell  BY <3>1 DEF Cell
    <3>3. \A i \in 1 .. index'[m] : msg'[m][i - 1] \in Byte  BY <3>2 DEF Typed
    <3>4. Contents'[m] = [i \in 1 .. index'[m] |-> msg'[m][i - 1]]  BY DEF Contents
    <3>. QED  BY <3>1, <3>3, <3>4
  <2>. QED  BY <2>1
<1>3. /\ Contents = [m \in Mbox |-> Contents[m]] /\ Contents' = [m \in Mbox |-> Contents'[m]]
  BY DEF Contents
<1>4. ASSUME UNCHANGED <<msg, index>>  PROVE Contents' = Contents
  BY <1>4 DEF Contents
<1>5. ASSUME NEW m \in Mbox, index' = [index EXCEPT ![m] = 0], UNCHANGED <<msg, got>>
      PROVE  Abstract!Clear(m)
  <2>1. Contents'[m] = <<>>  BY <1>2, <1>5 DEF Typed
  <2>2. \A k \in Mbox : k # m => Contents'[k] = Contents[k]  BY <1>5 DEF Contents, Typed
  <2>3. Contents' = [Contents EXCEPT ![m] = <<>>]  BY <1>3, <2>1, <2>2
  <2>. QED  BY <1>5, <2>3 DEF Abstract!Clear
<1>6. ASSUME NEW t \in Task, NEW n \in Name, do_mbox_open(t, n)
      PROVE  [Abstract!Next]_<<Contents, got>>
  <2>1. PICK id \in Mbox :
          /\ handle' = [handle EXCEPT ![t][id] = n]
          /\ \/ name[id] = n /\ UNCHANGED <<boxVars, full, empty>>
             \/ /\ ~ busy[id]
                /\ busy' = [busy EXCEPT ![id] = TRUE] /\ name' = [name EXCEPT ![id] = n]
                /\ index' = [index EXCEPT ![id] = 0] /\ UNCHANGED msg
                /\ full' = [full EXCEPT ![id] = <<>>]
                /\ empty' = [empty EXCEPT ![id] = <<>>]
    BY <1>6, Opened
  <2>2. UNCHANGED got  BY <1>6 DEF do_mbox_open
  <2>3. CASE UNCHANGED boxVars
    <3>1. UNCHANGED <<msg, index>>  BY <2>3 DEF boxVars
    <3>. QED  BY <3>1, <1>4, <2>2
  <2>4. CASE index' = [index EXCEPT ![id] = 0] /\ UNCHANGED msg
    BY <2>2, <2>4, <1>5 DEF Abstract!Next
  <2>. QED  BY <2>1, <2>3, <2>4
<1>7. ASSUME NEW t \in Task, NEW m \in Mbox, do_mbox_close(t, m)
      PROVE  [Abstract!Next]_<<Contents, got>>
  <2>1. index' = [index EXCEPT ![m] = 0] /\ UNCHANGED <<msg, got>>  BY <1>7 DEF do_mbox_close
  <2>. QED  BY <2>1, <1>5 DEF Abstract!Next
<1>8. ASSUME NEW t \in Task, NEW m \in Mbox, NEW n \in Sizes, NEW b \in [1 .. n -> Byte],
             do_mbox_send(t, m, b)
      PROVE  [Abstract!Next]_<<Contents, got>>
  <2>1. b \in Seq(Byte) /\ Len(b) = n /\ n \in Nat \ {0}  BY Requests, MailboxConstants
  <2>2. CASE ~ Fits(m, n)
    <3>1. UNCHANGED <<boxVars, got>>  BY <1>8, <2>1, <2>2 DEF do_mbox_send, Block
    <3>2. UNCHANGED <<msg, index>>  BY <3>1 DEF boxVars
    <3>. QED  BY <3>1, <3>2, <1>4
  <2>3. CASE Fits(m, n)
    <3>1. index[m] + n <= Capacity  BY <2>3 DEF Fits
    <3>2. /\ msg' = [msg EXCEPT ![m] = Stored(m, b)] /\ UNCHANGED got
          /\ index' = [index EXCEPT ![m] = @ + n]
      BY <1>8, <2>1, <2>3 DEF do_mbox_send
    <3>3. index'[m] = index[m] + n /\ msg'[m] = Stored(m, b)  BY <3>2 DEF Typed
    <3>4. \A k \in Mbox : k # m => Contents'[k] = Contents[k]  BY <3>2 DEF Contents, Typed
    <3>5. /\ Contents[m] \o b \in Seq(Byte) /\ Len(Contents[m] \o b) = index[m] + n
          /\ \A i \in 1 .. index[m] : (Contents[m] \o b)[i] = msg[m][i - 1]
          /\ \A i \in index[m] + 1 .. index[m] + n : (Contents[m] \o b)[i] = b[i - index[m]]
      <4>1. Contents[m] \in Seq(Byte) /\ Len(Contents[m]) = index[m]  BY <1>1
      <4>2. PICK c : c = Contents[m]  OBVIOUS
      <4>3. /\ c \o b \in Seq(Byte) /\ Len(c \o b) = index[m] + n
            /\ \A i \in 1 .. index[m] : (c \o b)[i] = c[i]
            /\ \A i \in index[m] + 1 .. index[m] + n : (c \o b)[i] = b[i - index[m]]
        <5>1. c \in Seq(Byte) /\ Len(c) = index[m]  BY <4>1, <4>2
        <5>2. /\ c \o b \in Seq(Byte) /\ Len(c \o b) = Len(c) + Len(b)
              /\ \A i \in 1 .. Len(c) : (c \o b)[i] = c[i]
              /\ \A i \in Len(c) + 1 .. Len(c) + Len(b) : (c \o b)[i] = b[i - Len(c)]
          BY <2>1, <5>1, Concatenated
        <5>. QED  BY <2>1, <5>1, <5>2
      <4>. QED  BY <1>1, <4>2, <4>3
    <3>6. \A i \in 1 .. index[m] + n : Contents'[m][i] = (Contents[m] \o b)[i]
      <4>1. ASSUME NEW i \in 1 .. index[m] + n  PROVE Contents'[m][i] = (Contents[m] \o b)[i]
        <5>1. index[m] \in Nat /\ i - 1 \in Cell /\ i \in Nat  BY <1>1, <2>1, <3>1 DEF Cell
        <5>2. Contents'[m][i] = Stored(m, b)[i - 1]  BY <1>2, <3>3
        <5>3. CASE i <= index[m]
          <6>1. i - 1 \notin index[m] .. index[m] + n - 1  BY <5>1, <5>3
          <6>2. Stored(m, b)[i - 1] = msg[m][i - 1]  BY <2>1, <5>1, <6>1 DEF Stored
          <6>. QED  BY <3>5, <5>1, <5>2, <5>3, <6>2
        <5>4. CASE i > index[m]
          <6>1. i - 1 \in index[m] .. index[m] + n - 1 /\ i \in index[m] + 1 .. index[m] + n
            BY <2>1, <5>1, <5>4
          <6>2. Stored(m, b)[i - 1] = b[i - 1 - index[m] + 1]  BY <2>1, <5>1, <6>1 DEF Stored
          <6>3. i - 1 - index[m] + 1 = i - index[m]  BY <5>1
          <6>. QED  BY <3>5, <5>2, <6>1, <6>2, <6>3
        <5>5. i <= index[m] \/ i > index[m]  BY <5>1
        <5>. QED  BY <5>3, <5>4, <5>5
      <4>. QED  BY <4>1
    <3>7. Contents'[m] = Contents[m] \o b
      <4>1. Contents'[m] \in Seq(Byte) /\ Len(Contents'[m]) = index[m] + n  BY <1>2, <3>3
      <4>. QED  BY <3>5, <3>6, <4>1, SeqEqual
    <3>8. Contents' = [Contents EXCEPT ![m] = @ \o b]  BY <1>3, <3>4, <3>7
    <3>9. Abstract!Put(m, b)  BY <1>1, <2>1, <3>1, <3>2, <3>8 DEF Abstract!Put
    <3>10. n \in 1 .. Capacity  BY <1>1, <2>1, <3>1
    <3>. QED  BY <3>9, <3>10 DEF Abstract!Next
  <2>. QED  BY <2>2, <2>3
<1>9. ASSUME NEW t \in Task, NEW m \in Mbox, NEW n \in Sizes, do_mbox_recv(t, m, n)
      PROVE  [Abstract!Next]_<<Contents, got>>
  <2>1. n \in Nat \ {0} /\ index[m] \in Nat  BY <1>1, MailboxConstants
  <2>2. CASE index[m] < n
    <3>1. index[m] - n < 0  BY <2>1, <2>2
    <3>2. UNCHANGED <<boxVars, got>>  BY <1>9, <2>1, <3>1 DEF do_mbox_recv, Block
    <3>3. UNCHANGED <<msg, index>>  BY <3>2 DEF boxVars
    <3>. QED  BY <3>2, <3>3, <1>4
  <2>3. CASE n <= index[m]
    <3>1. index[m] - n >= 0  BY <2>1, <2>3
    <3>2. /\ got' = [i \in 1 .. n |-> msg[m][i - 1]] /\ msg' = [msg EXCEPT ![m] = Shifted(m, n)]
          /\ index' = [index EXCEPT ![m] = @ - n]
      BY <1>9, <2>1, <3>1 DEF do_mbox_recv
    <3>3. index'[m] = index[m] - n /\ msg'[m] = Shifted(m, n)  BY <3>2 DEF Typed
    <3>4. \A k \in Mbox : k # m => Contents'[k] = Contents[k]  BY <3>2 DEF Contents, Typed
    <3>5. /\ SubSeq(Contents[m], 1, n) \in Seq(Byte) /\ Len(SubSeq(Contents[m], 1, n)) = n
          /\ \A i \in 1 .. n : SubSeq(Contents[m], 1, n)[i] = msg[m][i - 1]
      <4>1. Contents[m] \in Seq(Byte) /\ Len(Contents[m]) = index[m]  BY <1>1
      <4>2. \A i \in 1 .. n : i \in 1 .. index[m]  BY <2>1, <2>3
      <4>. QED  BY <1>1, <2>1, <2>3, <4>1, <4>2, Cut
    <3>6. got' = SubSeq(Contents[m], 1, n)
      <4>1. got' \in Seq(Byte) /\ Len(got') = n  BY <2>1, <3>2 DEF Typed
      <4>2. \A i \in 1 .. n : got'[i] = SubSeq(Contents[m], 1, n)[i]  BY <3>2, <3>5
      <4>. QED  BY <3>5, <4>1, <4>2, SeqEqual
    <3>7. PICK rest : rest = SubSeq(Contents[m], n + 1, Len(Contents[m]))  OBVIOUS
    <3>8. /\ rest \in Seq(Byte) /\ Len(rest) = index[m] - n
          /\ \A i \in 1 .. index[m] - n : rest[i] = msg[m][i + n - 1]
      <4>1. PICK c : c = Contents[m]  OBVIOUS
      <4>2. /\ c \in Seq(Byte) /\ Len(c) = index[m] /\ rest = SubSeq(c, n + 1, Len(c))
            /\ \A i \in 1 .. index[m] : c[i] = msg[m][i - 1]
        BY <1>1, <3>7, <4>1
      <4>3. n \in Nat /\ n <= Len(c)  BY <2>1, <2>3, <4>2
      <4>4. /\ rest \in Seq(Byte) /\ Len(rest) = Len(c) - n
            /\ \A i \in 1 .. Len(c) - n : rest[i] = c[i + n]
        BY <4>2, <4>3, Cut
      <4>5. \A i \in 1 .. index[m] - n : i + n \in 1 .. index[m] /\ i + n - 1 = (i + n) - 1
        BY <2>1, <2>3
      <4>6. \A i \in 1 .. index[m] - n : c[i + n] = msg[m][i + n - 1]  BY <4>2, <4>5
      <4>. QED  BY <4>2, <4>4, <4>6
    <3>9. Contents'[m] = rest
      <4>1. Contents'[m] \in Seq(Byte) /\ Len(Contents'[m]) = index[m] - n  BY <1>2, <3>3
      <4>2. ASSUME NEW i \in 1 .. index[m] - n  PROVE Contents'[m][i] = rest[i]
        <5>1. /\ Contents'[m][i] = Shifted(m, n)[i - 1] /\ i - 1 \in Cell
              /\ i - 1 + n < index[m] /\ i - 1 + n = i + n - 1
          BY <1>1, <1>2, <2>1, <2>3, <3>3 DEF Cell
        <5>2. Shifted(m, n)[i - 1] = msg[m][i - 1 + n]  BY <5>1 DEF Shifted
        <5>. QED  BY <3>8, <5>1, <5>2
      <4>. QED  BY <3>8, <4>1, <4>2, SeqEqual
    <3>10. Contents' = [Contents EXCEPT ![m] = SubSeq(@, n + 1, Len(@))]
      BY <1>3, <3>4, <3>7, <3>9
    <3>11. Abstract!Get(m, n)  BY <1>1, <2>3, <3>6, <3>10 DEF Abstract!Get
    <3>12. n \in 1 .. Capacity  BY <1>1, <2>1, <2>3
    <3>. QED  BY <3>11, <3>12 DEF Abstract!Next
  <2>. QED  BY <2>1, <2>2, <2>3
<1>10. ASSUME NEW t \in Task, Gone(t)  PROVE [Abstract!Next]_<<Contents, got>>
  <2>1. UNCHANGED <<msg, index, got>>  BY <1>10 DEF Gone, boxVars
  <2>. QED  BY <2>1, <1>4
<1>11. CASE UNCHANGED vars
  <2>1. UNCHANGED <<msg, index, got>>  BY <1>11 DEF vars, boxVars
  <2>. QED  BY <2>1, <1>4
<1>12. CASE Next
  BY <1>12, <1>6, <1>7, <1>8, <1>9, <1>10 DEF Next, Sending, Receiving
<1>. QED  BY <1>11, <1>12

\* The buffer of each mailbox, with its index, its shifts and its resets, implements
\* a bounded queue of bytes, whatever the programs do.
THEOREM MailboxIsByteQueue == Spec => IsByteQueue
<1>1. Init => Abstract!Init
  <2>1. SUFFICES ASSUME Init  PROVE Contents = [m \in Mbox |-> <<>>] /\ got = <<>>
    BY DEF Abstract!Init
  <2>2. \A m \in Mbox : Contents[m] = <<>>
    <3>1. Typed /\ \A m \in Mbox : index[m] = 0  BY <2>1, InitTyped DEF Init
    <3>. QED  BY <3>1, ContentsFacts
  <2>. QED  BY <2>1, <2>2 DEF Contents, Init
<1>2. Typed /\ Typed' /\ [Next]_vars => [Abstract!Next]_<<Contents, got>>
  BY StepIsQueueStep
<1>. QED  BY <1>1, <1>2, InitTyped, NextTyped, PTL DEF Spec, IsByteQueue, Abstract!Spec

-----------------------------------------------------------------------------
(* Whoever is blocked has reason to be. *)

\* The parts of the invariant say what is asked.
LEMMA IInvImplies == IInv => NoLostWakeup /\ MutualBlock
<1> SUFFICES ASSUME IInv  PROVE NoLostWakeup /\ MutualBlock
  OBVIOUS
<1>1. NoLostWakeup  BY DEF IInv, Queues, Waiting, NoLostWakeup
<1>2. ASSUME NEW m \in Mbox, NEW s \in Range(full[m]), NEW r \in Range(empty[m])
      PROVE  call[s].size + call[r].size > Capacity + 1
  <2>1. /\ call[s].op = "send" /\ index[m] + call[s].size > Capacity
        /\ call[r].op = "recv" /\ index[m] < call[r].size
    BY DEF IInv, Waiting
  <2>2. s \in Task /\ r \in Task  BY DEF IInv, Queues
  <2>3. call[s] \in Request /\ call[r] \in Request  BY <2>1, <2>2 DEF IInv, Typed, NoCall
  <2>4. call[s].size \in Nat /\ call[r].size \in Nat  BY <2>3, MailboxConstants DEF Request
  <2>5. index[m] \in Nat /\ Capacity \in Nat  BY MailboxConstants DEF IInv, Typed
  <2>. QED  BY <2>1, <2>4, <2>5
<1>. QED  BY <1>1, <1>2 DEF MutualBlock

\* At first nobody waits and nothing is open.
LEMMA InitOK == Init => IInv
<1> SUFFICES ASSUME Init  PROVE IInv
  OBVIOUS
<1>1. Typed  BY InitTyped
<1>2. <<>> \in NoDup(Task) /\ Range(<<>>) = {}  BY DEF NoDup, IsInjective, Range
<1>3. Queues  BY <1>2 DEF Init, Queues
<1>4. Open  BY DEF Init, Open
<1>5. Waiting  BY <1>2 DEF Init, Waiting
<1>. QED  BY <1>1, <1>3, <1>4, <1>5 DEF IInv

\* Whoever waits in a mailbox has it open.
LEMMA WaitersHaveOpen ==
  ASSUME IInv, NEW m \in Mbox, NEW u \in Range(full[m]) \cup Range(empty[m])
  PROVE  u \in blocked /\ u \in Task /\ call[u] # NoCall /\ handle[u][m] # NoName /\ busy[m]
<1>1. u \in blocked /\ u \in Task  BY DEF IInv, Queues
<1>2. call[u].box = m /\ call[u].op # "none"  BY DEF IInv, Waiting
<1>3. call[u] # NoCall  BY <1>2 DEF NoCall
<1>. QED  BY <1>1, <1>2, <1>3 DEF IInv, Open

\* do_mbox_open makes new queues only for an entry where nobody waits.
LEMMA OpenKeeps ==
  ASSUME IInv, Typed', NEW t \in Task, NEW n \in Name, do_mbox_open(t, n)
  PROVE  IInv'
<1>1. PICK id \in Mbox :
        /\ handle' = [handle EXCEPT ![t][id] = n]
        /\ \/ name[id] = n /\ UNCHANGED <<boxVars, full, empty>>
           \/ /\ ~ busy[id]
              /\ busy' = [busy EXCEPT ![id] = TRUE] /\ name' = [name EXCEPT ![id] = n]
              /\ index' = [index EXCEPT ![id] = 0] /\ UNCHANGED msg
              /\ full' = [full EXCEPT ![id] = <<>>]
              /\ empty' = [empty EXCEPT ![id] = <<>>]
  BY Opened
<1>2. n # NoName  BY MailboxConstants
<1>3. UNCHANGED <<blocked, call, alive>>  BY DEF do_mbox_open
<1>4. \A u \in Task, m \in Mbox : handle'[u][m] = IF u = t /\ m = id THEN n ELSE handle[u][m]
  BY <1>1 DEF IInv, Typed
<1>5. /\ \A m \in Mbox : name[m] # NoName => busy[m]
      /\ \A u \in Task, m \in Mbox : handle[u][m] # NoName => busy[m]
      /\ \A u \in Task : call[u] # NoCall => call[u].box \in Mbox /\ handle[u][call[u].box] # NoName
  BY DEF IInv, Typed, Open, Request
<1>6. CASE name[id] = n /\ UNCHANGED <<boxVars, full, empty>>
  <2>1. UNCHANGED <<name, busy, index, full, empty>>  BY <1>6 DEF boxVars
  <2>2. Queues' /\ Waiting'  BY <1>3, <2>1 DEF IInv, Queues, Waiting
  <2>3. busy[id]  BY <1>2, <1>5, <1>6
  <2>4. Open'  BY <1>2, <1>3, <1>4, <1>5, <2>1, <2>3 DEF Open
  <2>. QED  BY <2>2, <2>4 DEF IInv
<1>7. CASE /\ ~ busy[id]
           /\ busy' = [busy EXCEPT ![id] = TRUE] /\ name' = [name EXCEPT ![id] = n]
           /\ index' = [index EXCEPT ![id] = 0] /\ UNCHANGED msg
           /\ full' = [full EXCEPT ![id] = <<>>] /\ empty' = [empty EXCEPT ![id] = <<>>]
  <2>1. Range(full[id]) = {} /\ Range(empty[id]) = {}  BY <1>7, WaitersHaveOpen
  <2>2. <<>> \in NoDup(Task) /\ Range(<<>>) = {}  BY DEF NoDup, IsInjective, Range
  <2>3. /\ full' \in [Mbox -> NoDup(Task)] /\ empty' \in [Mbox -> NoDup(Task)]
        /\ \A m \in Mbox : Range(full'[m]) = Range(full[m]) /\ Range(empty'[m]) = Range(empty[m])
    BY <1>7, <2>1, <2>2 DEF IInv, Queues
  <2>4. \A m \in Mbox : m # id => index'[m] = index[m]  BY <1>7 DEF IInv, Typed
  <2>5. Queues'  BY <1>3, <2>3 DEF IInv, Queues
  <2>6. Waiting'  BY <1>3, <2>1, <2>3, <2>4 DEF IInv, Waiting
  <2>7. /\ \A m \in Mbox : m # id => busy'[m] = busy[m] /\ name'[m] = name[m]
        /\ busy'[id]
    BY <1>7 DEF IInv, Typed
  <2>8. \A m \in Mbox : name'[m] # NoName => busy'[m]  BY <1>5, <2>7
  <2>9. \A u \in Task, m \in Mbox : handle'[u][m] # NoName => busy'[m]
    BY <1>4, <1>5, <2>7
  <2>10. \A u \in Task : call'[u] # NoCall => handle'[u][call'[u].box] # NoName
    BY <1>2, <1>3, <1>4, <1>5
  <2>11. Open'  BY <2>8, <2>9, <2>10 DEF Open
  <2>. QED  BY <2>5, <2>6, <2>11 DEF IInv
<1>. QED  BY <1>1, <1>6, <1>7

\* A mailbox is closed when nobody else has it open, so nobody waits in it.
LEMMA CloseKeeps ==
  ASSUME IInv, Typed', ~ CloseShared, NEW t \in Task, NEW m \in Mbox, do_mbox_close(t, m)
  PROVE  IInv'
<1>1. /\ call[t] = NoCall
      /\ \A u \in Task : u # t => handle[u][m] = NoName
      /\ busy' = [busy EXCEPT ![m] = FALSE] /\ index' = [index EXCEPT ![m] = 0]
      /\ name' = [name EXCEPT ![m] = NoName] /\ handle' = [handle EXCEPT ![t][m] = NoName]
      /\ UNCHANGED <<full, empty, blocked, call, alive>>
  BY DEF do_mbox_close, Idle
<1>2. Range(full[m]) = {} /\ Range(empty[m]) = {}  BY <1>1, WaitersHaveOpen
<1>3. \A k \in Mbox : k # m => /\ index'[k] = index[k] /\ name'[k] = name[k] /\ busy'[k] = busy[k]
  BY <1>1 DEF IInv, Typed
<1>4. name'[m] = NoName  BY <1>1 DEF IInv, Typed
<1>5. /\ \A u \in Task, k \in Mbox : k # m => handle'[u][k] = handle[u][k]
      /\ \A u \in Task : handle'[u][m] = NoName
      /\ \A u \in Task \ {t} : handle'[u] = handle[u]
  BY <1>1 DEF IInv, Typed
<1>6. Queues'  BY <1>1 DEF IInv, Queues
<1>7. Waiting'  BY <1>1, <1>2, <1>3 DEF IInv, Waiting
<1>8. Open'  BY <1>1, <1>3, <1>4, <1>5 DEF IInv, Open
<1>. QED  BY <1>6, <1>7, <1>8 DEF IInv

\* The call of a waiter is a request, for the mailbox and the side of its queue only.
LEMMA WaitersCall ==
  ASSUME IInv, NEW m \in Mbox
  PROVE  /\ \A u \in Range(full[m]) : call[u].size \in Nat /\ u \in blocked /\ u \in Task
         /\ \A u \in Range(empty[m]) : call[u].size \in Nat /\ u \in blocked /\ u \in Task
         /\ \A k \in Mbox : Range(full[k]) \cap Range(empty[m]) = {}
         /\ \A k \in Mbox : k # m => /\ Range(full[k]) \cap Range(full[m]) = {}
                                    /\ Range(empty[k]) \cap Range(empty[m]) = {}
<1>1. ASSUME NEW u \in Range(full[m]) \cup Range(empty[m])
      PROVE  call[u].size \in Nat /\ u \in blocked /\ u \in Task
  <2>1. u \in blocked /\ u \in Task /\ call[u] # NoCall  BY WaitersHaveOpen
  <2>2. call[u] \in Request  BY <2>1 DEF IInv, Typed
  <2>. QED  BY <2>1, <2>2, MailboxConstants DEF Request
<1>2. \A k \in Mbox : /\ \A u \in Range(full[k]) : call[u].op = "send" /\ call[u].box = k
                      /\ \A u \in Range(empty[k]) : call[u].op = "recv" /\ call[u].box = k
  BY DEF IInv, Waiting
<1>. QED  BY <1>1, <1>2

\* A task that blocks joins the queue of its call, in which it was not.
LEMMA BlockKeeps ==
  ASSUME IInv, Typed', NEW t \in Task, NEW r \in Request, InCall(t, r), Block(t, r),
         \/ /\ r.op = "send" /\ index[r.box] + r.size > Capacity
            /\ full' = [full EXCEPT ![r.box] = Append(@, t)] /\ UNCHANGED empty
         \/ /\ r.op = "recv" /\ index[r.box] < r.size
            /\ empty' = [empty EXCEPT ![r.box] = Append(@, t)] /\ UNCHANGED full
  PROVE  IInv'
<1>1. r.box \in Mbox /\ r # NoCall
  <2>1. r.op \in {"send", "recv"} /\ NoCall.op = "none"  BY DEF Request, NoCall
  <2>. QED  BY <2>1 DEF Request
<1>2. t \in alive /\ t \notin blocked  BY DEF InCall, Runs
<1>3. handle[t][r.box] # NoName  BY <1>1 DEF InCall, IInv, Open
<1>4. /\ blocked' = blocked \cup {t} /\ call' = [call EXCEPT ![t] = r]
      /\ UNCHANGED <<name, busy, index, handle, alive>>
  BY DEF Block, boxVars
<1>5. call'[t] = r /\ \A u \in Task : u # t => call'[u] = call[u]
  BY <1>4 DEF IInv, Typed
<1>6. \A m \in Mbox : /\ t \notin Range(full[m]) /\ t \notin Range(empty[m])
                      /\ Range(full[m]) \subseteq Task /\ Range(empty[m]) \subseteq Task
  BY <1>2, WaitersHaveOpen
<1>7. Open'  BY <1>3, <1>4, <1>5 DEF IInv, Open
<1>8. CASE /\ r.op = "send" /\ index[r.box] + r.size > Capacity
           /\ full' = [full EXCEPT ![r.box] = Append(@, t)] /\ UNCHANGED empty
  <2>1. /\ Append(full[r.box], t) \in NoDup(Task)
        /\ Range(Append(full[r.box], t)) = Range(full[r.box]) \cup {t}
    BY <1>1, <1>6, AppendNew DEF IInv, Queues
  <2>2. full' \in [Mbox -> NoDup(Task)]  BY <1>8, <2>1 DEF IInv, Queues
  <2>3. \A m \in Mbox : Range(full'[m]) = IF m = r.box THEN Range(full[m]) \cup {t}
                                           ELSE Range(full[m])
    BY <1>8, <2>1 DEF IInv, Queues
  <2>4. Queues'  BY <1>1, <1>2, <1>4, <1>8, <2>2, <2>3 DEF IInv, Queues
  <2>5. ASSUME NEW m \in Mbox, NEW u \in Range(empty'[m])
        PROVE  call'[u].op = "recv" /\ call'[u].box = m /\ index'[m] < call'[u].size
    <3>1. u \in Range(empty[m]) /\ u # t /\ u \in Task  BY <1>6, <1>8
    <3>. QED  BY <1>4, <1>5, <3>1 DEF IInv, Waiting
  <2>6. ASSUME NEW m \in Mbox, NEW u \in Range(full'[m])
        PROVE  call'[u].op = "send" /\ call'[u].box = m /\ index'[m] + call'[u].size > Capacity
    <3>1. CASE u = t
      <4>1. m = r.box  BY <1>6, <2>3, <3>1
      <4>. QED  BY <1>4, <1>5, <1>8, <3>1, <4>1
    <3>2. CASE u # t
      <4>1. u \in Range(full[m]) /\ u \in Task  BY <1>6, <2>3, <3>2
      <4>. QED  BY <1>4, <1>5, <3>2, <4>1 DEF IInv, Waiting
    <3>. QED  BY <3>1, <3>2
  <2>7. Waiting'  BY <2>5, <2>6 DEF Waiting
  <2>. QED  BY <1>7, <2>4, <2>7 DEF IInv
<1>9. CASE /\ r.op = "recv" /\ index[r.box] < r.size
           /\ empty' = [empty EXCEPT ![r.box] = Append(@, t)] /\ UNCHANGED full
  <2>1. /\ Append(empty[r.box], t) \in NoDup(Task)
        /\ Range(Append(empty[r.box], t)) = Range(empty[r.box]) \cup {t}
    BY <1>1, <1>6, AppendNew DEF IInv, Queues
  <2>2. empty' \in [Mbox -> NoDup(Task)]  BY <1>9, <2>1 DEF IInv, Queues
  <2>3. \A m \in Mbox : Range(empty'[m]) = IF m = r.box THEN Range(empty[m]) \cup {t}
                                            ELSE Range(empty[m])
    BY <1>9, <2>1 DEF IInv, Queues
  <2>4. Queues'  BY <1>1, <1>2, <1>4, <1>9, <2>2, <2>3 DEF IInv, Queues
  <2>5. ASSUME NEW m \in Mbox, NEW u \in Range(full'[m])
        PROVE  call'[u].op = "send" /\ call'[u].box = m /\ index'[m] + call'[u].size > Capacity
    <3>1. u \in Range(full[m]) /\ u # t /\ u \in Task  BY <1>6, <1>9
    <3>. QED  BY <1>4, <1>5, <3>1 DEF IInv, Waiting
  <2>6. ASSUME NEW m \in Mbox, NEW u \in Range(empty'[m])
        PROVE  call'[u].op = "recv" /\ call'[u].box = m /\ index'[m] < call'[u].size
    <3>1. CASE u = t
      <4>1. m = r.box  BY <1>6, <2>3, <3>1
      <4>. QED  BY <1>4, <1>5, <1>9, <3>1, <4>1
    <3>2. CASE u # t
      <4>1. u \in Range(empty[m]) /\ u \in Task  BY <1>6, <2>3, <3>2
      <4>. QED  BY <1>4, <1>5, <3>2, <4>1 DEF IInv, Waiting
    <3>. QED  BY <3>1, <3>2
  <2>7. Waiting'  BY <2>5, <2>6 DEF Waiting
  <2>. QED  BY <1>7, <2>4, <2>7 DEF IInv
<1>. QED  BY <1>8, <1>9

\* A call that returns leaves the handles and what the waiters have called.
LEMMA ReturnKeepsOpen ==
  ASSUME IInv, NEW t \in Task, Runs(t), Return(t)
  PROVE  Open' /\ \A u \in blocked : call'[u] = call[u]
<1>1. call' = [call EXCEPT ![t] = NoCall] /\ UNCHANGED <<name, busy, handle, alive>>
  BY DEF Return
<1>2. call'[t] = NoCall /\ \A u \in Task : u # t => call'[u] = call[u]
  BY <1>1 DEF IInv, Typed
<1>3. t \notin blocked /\ blocked \subseteq Task  BY DEF Runs, IInv, Queues
<1>4. Open'  BY <1>1, <1>2 DEF IInv, Open
<1>. QED  BY <1>2, <1>3, <1>4

\* A send blocks for want of room, or adds bytes and wakes every receiver.
LEMMA SendKeeps ==
  ASSUME IInv, Typed', NEW t \in Task, NEW m \in Mbox, NEW n \in Sizes,
         NEW b \in [1 .. n -> Byte], do_mbox_send(t, m, b)
  PROVE  IInv'
<1>1. /\ Len(b) = n /\ Send(m, b) \in Request /\ n \in Nat /\ index[m] \in Nat /\ Capacity \in Nat
      /\ Send(m, b).box = m /\ Send(m, b).op = "send" /\ Send(m, b).size = n
  BY Requests, MailboxConstants DEF IInv, Typed, Send
<1>2. InCall(t, Send(m, b)) /\ Runs(t)  BY DEF do_mbox_send, InCall
<1>3. CASE ~ Fits(m, n)
  <2>1. full' = [full EXCEPT ![m] = Append(@, t)] /\ Block(t, Send(m, b)) /\ UNCHANGED empty
    BY <1>1, <1>3 DEF do_mbox_send
  <2>2. index[m] + n > Capacity  BY <1>1, <1>3 DEF Fits
  <2>. QED  BY <1>1, <1>2, <2>1, <2>2, BlockKeeps
<1>4. CASE Fits(m, n)
  <2>1. /\ index' = [index EXCEPT ![m] = @ + n] /\ Return(t)
        /\ empty' = [empty EXCEPT ![m] = <<>>] /\ blocked' = blocked \ Range(empty[m])
        /\ UNCHANGED full
    BY <1>1, <1>4 DEF do_mbox_send, WakeReceivers
  <2>2. Open' /\ \A u \in blocked : call'[u] = call[u]  BY <1>2, <2>1, ReturnKeepsOpen
  <2>3. alive' = alive  BY <2>1 DEF Return
  <2>4. <<>> \in NoDup(Task) /\ Range(<<>>) = {}  BY DEF NoDup, IsInjective, Range
  <2>5. /\ empty' \in [Mbox -> NoDup(Task)]
        /\ \A k \in Mbox : Range(empty'[k]) = IF k = m THEN {} ELSE Range(empty[k])
        /\ index'[m] = index[m] + n /\ \A k \in Mbox : k # m => index'[k] = index[k]
    BY <2>1, <2>4 DEF IInv, Queues, Typed
  <2>6. /\ \A k \in Mbox : Range(full[k]) \cap Range(empty[m]) = {}
        /\ \A k \in Mbox : k # m => Range(empty[k]) \cap Range(empty[m]) = {}
    BY WaitersCall
  <2>7. Queues'
    <3>1. \A k \in Mbox : Range(full'[k]) \subseteq blocked' /\ Range(empty'[k]) \subseteq blocked'
      BY <2>1, <2>5, <2>6 DEF IInv, Queues
    <3>2. \A u \in blocked' : \E k \in Mbox : u \in Range(full'[k]) \cup Range(empty'[k])
      BY <2>1, <2>5 DEF IInv, Queues
    <3>. QED  BY <2>1, <2>3, <2>5, <3>1, <3>2 DEF IInv, Queues
  <2>8. ASSUME NEW k \in Mbox, NEW u \in Range(full'[k])
        PROVE  call'[u].op = "send" /\ call'[u].box = k /\ index'[k] + call'[u].size > Capacity
    <3>1. u \in Range(full[k]) /\ call'[u] = call[u] /\ call[u].size \in Nat
      BY <2>1, <2>2, WaitersCall
    <3>2. call[u].op = "send" /\ call[u].box = k /\ index[k] + call[u].size > Capacity
      BY <3>1 DEF IInv, Waiting
    <3>3. CASE k = m  BY <1>1, <2>5, <3>1, <3>2, <3>3
    <3>4. CASE k # m  BY <2>5, <3>1, <3>2, <3>4
    <3>. QED  BY <3>3, <3>4
  <2>9. ASSUME NEW k \in Mbox, NEW u \in Range(empty'[k])
        PROVE  call'[u].op = "recv" /\ call'[u].box = k /\ index'[k] < call'[u].size
    <3>1. k # m /\ u \in Range(empty[k])  BY <2>5
    <3>2. call'[u] = call[u]  BY <2>2, <3>1, WaitersCall
    <3>. QED  BY <2>5, <3>1, <3>2 DEF IInv, Waiting
  <2>10. Waiting'  BY <2>8, <2>9 DEF Waiting
  <2>. QED  BY <2>2, <2>7, <2>10 DEF IInv
<1>. QED  BY <1>3, <1>4

\* A receive blocks for want of bytes, or takes bytes out and wakes every sender.
LEMMA RecvKeeps ==
  ASSUME IInv, Typed', NEW t \in Task, NEW m \in Mbox, NEW n \in Sizes, do_mbox_recv(t, m, n)
  PROVE  IInv'
<1>1. /\ Recv(m, n) \in Request /\ n \in Nat \ {0} /\ index[m] \in Nat
      /\ Recv(m, n).box = m /\ Recv(m, n).op = "recv" /\ Recv(m, n).size = n
  BY Requests, MailboxConstants DEF IInv, Typed, Recv
<1>2. InCall(t, Recv(m, n)) /\ Runs(t)  BY DEF do_mbox_recv, InCall
<1>3. CASE index[m] - n < 0
  <2>1. empty' = [empty EXCEPT ![m] = Append(@, t)] /\ Block(t, Recv(m, n)) /\ UNCHANGED full
    BY <1>1, <1>3 DEF do_mbox_recv
  <2>2. index[m] < n  BY <1>1, <1>3
  <2>. QED  BY <1>1, <1>2, <2>1, <2>2, BlockKeeps
<1>4. CASE index[m] - n >= 0
  <2>1. /\ index' = [index EXCEPT ![m] = @ - n] /\ Return(t)
        /\ full' = [full EXCEPT ![m] = <<>>] /\ blocked' = blocked \ Range(full[m])
        /\ UNCHANGED empty
    BY <1>1, <1>4 DEF do_mbox_recv, WakeSenders
  <2>2. Open' /\ \A u \in blocked : call'[u] = call[u]  BY <1>2, <2>1, ReturnKeepsOpen
  <2>3. alive' = alive  BY <2>1 DEF Return
  <2>4. <<>> \in NoDup(Task) /\ Range(<<>>) = {}  BY DEF NoDup, IsInjective, Range
  <2>5. /\ full' \in [Mbox -> NoDup(Task)]
        /\ \A k \in Mbox : Range(full'[k]) = IF k = m THEN {} ELSE Range(full[k])
        /\ index'[m] = index[m] - n /\ \A k \in Mbox : k # m => index'[k] = index[k]
    BY <2>1, <2>4 DEF IInv, Queues, Typed
  <2>6. /\ \A k \in Mbox : Range(full[m]) \cap Range(empty[k]) = {}
        /\ \A k \in Mbox : k # m => Range(full[k]) \cap Range(full[m]) = {}
    BY WaitersCall
  <2>7. Queues'
    <3>1. \A k \in Mbox : Range(full'[k]) \subseteq blocked' /\ Range(empty'[k]) \subseteq blocked'
      BY <2>1, <2>5, <2>6 DEF IInv, Queues
    <3>2. \A u \in blocked' : \E k \in Mbox : u \in Range(full'[k]) \cup Range(empty'[k])
      BY <2>1, <2>5 DEF IInv, Queues
    <3>. QED  BY <2>1, <2>3, <2>5, <3>1, <3>2 DEF IInv, Queues
  <2>8. ASSUME NEW k \in Mbox, NEW u \in Range(empty'[k])
        PROVE  call'[u].op = "recv" /\ call'[u].box = k /\ index'[k] < call'[u].size
    <3>1. u \in Range(empty[k]) /\ call'[u] = call[u] /\ call[u].size \in Nat
      BY <2>1, <2>2, WaitersCall
    <3>2. call[u].op = "recv" /\ call[u].box = k /\ index[k] < call[u].size
      BY <3>1 DEF IInv, Waiting
    <3>3. CASE k = m  BY <1>1, <2>5, <3>1, <3>2, <3>3
    <3>4. CASE k # m  BY <2>5, <3>1, <3>2, <3>4
    <3>. QED  BY <3>3, <3>4
  <2>9. ASSUME NEW k \in Mbox, NEW u \in Range(full'[k])
        PROVE  call'[u].op = "send" /\ call'[u].box = k /\ index'[k] + call'[u].size > Capacity
    <3>1. k # m /\ u \in Range(full[k])  BY <2>5
    <3>2. call'[u] = call[u]  BY <2>2, <3>1, WaitersCall
    <3>. QED  BY <2>5, <3>1, <3>2 DEF IInv, Waiting
  <2>10. Waiting'  BY <2>8, <2>9 DEF Waiting
  <2>. QED  BY <2>2, <2>7, <2>10 DEF IInv
<1>5. index[m] - n < 0 \/ index[m] - n >= 0  BY <1>1
<1>. QED  BY <1>3, <1>4, <1>5

\* A task that goes leaves every queue.
LEMMA GoneKeeps ==
  ASSUME IInv, Typed', NEW t \in Task, Gone(t)
  PROVE  IInv'
<1>1. /\ alive' = alive \ {t} /\ blocked' = blocked \ {t}
      /\ full' = list_del(full, t) /\ empty' = list_del(empty, t)
      /\ call' = [call EXCEPT ![t] = NoCall]
      /\ handle' = [handle EXCEPT ![t] = [m \in Mbox |-> NoName]]
      /\ UNCHANGED <<name, busy, index>>
  BY DEF Gone, boxVars
<1>2. /\ full' \in [Mbox -> NoDup(Task)] /\ empty' \in [Mbox -> NoDup(Task)]
      /\ \A m \in Mbox : /\ Range(full'[m]) = Range(full[m]) \ {t}
                         /\ Range(empty'[m]) = Range(empty[m]) \ {t}
  BY <1>1, Unlinked DEF IInv, Queues
<1>3. /\ call'[t] = NoCall /\ \A u \in Task : u # t => call'[u] = call[u] /\ handle'[u] = handle[u]
      /\ \A m \in Mbox : handle'[t][m] = NoName
  BY <1>1 DEF IInv, Typed
<1>4. Open'  BY <1>1, <1>3 DEF IInv, Open
<1>5. Queues'
  <2>1. \A m \in Mbox : Range(full'[m]) \subseteq blocked' /\ Range(empty'[m]) \subseteq blocked'
    BY <1>1, <1>2 DEF IInv, Queues
  <2>2. \A u \in blocked' : \E m \in Mbox : u \in Range(full'[m]) \cup Range(empty'[m])
    BY <1>1, <1>2 DEF IInv, Queues
  <2>. QED  BY <1>1, <1>2, <2>1, <2>2 DEF IInv, Queues
<1>6. ASSUME NEW m \in Mbox, NEW u \in Range(full[m]) \cup Range(empty[m]), u # t
      PROVE  call'[u] = call[u]
  BY <1>3, <1>6, WaitersHaveOpen
<1>7. Waiting'  BY <1>1, <1>2, <1>6 DEF IInv, Waiting
<1>. QED  BY <1>4, <1>5, <1>7 DEF IInv

\* Every step, as long as nobody closes a mailbox that others have open.
LEMMA NextOK == ~ CloseShared /\ IInv /\ [Next]_vars => IInv'
<1> SUFFICES ASSUME ~ CloseShared, IInv, [Next]_vars  PROVE IInv'
  OBVIOUS
<1>1. Typed'  BY NextTyped DEF IInv
<1>2. CASE UNCHANGED vars
  <2>1. UNCHANGED <<name, busy, index, full, empty, blocked, call, handle, alive>>
    BY <1>2 DEF vars, boxVars, taskVars
  <2>2. Queues' /\ Open' /\ Waiting'  BY <2>1 DEF IInv, Queues, Open, Waiting
  <2>. QED  BY <1>1, <2>2 DEF IInv
<1>3. CASE Next
  <2>1. PICK t \in Task : \/ \E n \in Name : do_mbox_open(t, n)
                          \/ \E m \in Mbox : do_mbox_close(t, m)
                          \/ Sending(t) \/ Receiving(t) \/ Gone(t)
    BY <1>3 DEF Next
  <2>2. CASE \E n \in Name : do_mbox_open(t, n)  BY <1>1, <2>2, OpenKeeps
  <2>3. CASE \E m \in Mbox : do_mbox_close(t, m)  BY <1>1, <2>3, CloseKeeps
  <2>4. CASE Sending(t)  BY <1>1, <2>4, SendKeeps DEF Sending
  <2>5. CASE Receiving(t)  BY <1>1, <2>5, RecvKeeps DEF Receiving
  <2>6. CASE Gone(t)  BY <1>1, <2>6, GoneKeeps
  <2>. QED  BY <2>1, <2>2, <2>3, <2>4, <2>5, <2>6
<1>. QED  BY <1>2, <1>3

\* No task sleeps in a mailbox that has what it wants: the loops of do_mbox_send and
\* do_mbox_recv miss no wake-up, for any number of tasks and mailboxes.
THEOREM NeverMissed ==
  ASSUME ~ CloseShared
  PROVE  Spec => []NoLostWakeup
<1>1. IInv /\ [Next]_vars => IInv'  BY NextOK
<1>. QED  BY <1>1, InitOK, IInvImplies, PTL DEF Spec

\* A sender and a receiver wait for each other only if their lengths do not go
\* together into the buffer, with one byte to spare.
THEOREM BlockOnlyWhenTooLong ==
  ASSUME ~ CloseShared
  PROVE  Spec => []MutualBlock
<1>1. IInv /\ [Next]_vars => IInv'  BY NextOK
<1>. QED  BY <1>1, InitOK, IInvImplies, PTL DEF Spec


-----------------------------------------------------------------------------
(* Tasks meet by name. *)

\* A handle is the name its mailbox has now, and no two mailboxes have a name.
Named ==
  /\ \A t \in Task, m \in Mbox : handle[t][m] # NoName => name[m] = handle[t][m]
  /\ \A m, k \in Mbox : name[m] # NoName /\ name[m] = name[k] => m = k

\* A name that do_mbox_open gives to an entry was no entry's.
LEMMA OpenKeepsNames ==
  ASSUME Typed, Open, Named, NEW t \in Task, NEW n \in Name, do_mbox_open(t, n)
  PROVE  Named'
<1>1. PICK found : found = {m \in Mbox : name[m] = n}  OBVIOUS
<1>2. n # NoName /\ (found # {} \/ Free # {})  BY <1>1, MailboxConstants DEF do_mbox_open
<1>3. CASE found # {}
  <2>1. First(found) \in found  BY <1>1, <1>3, FirstIn
  <2>2. handle' = [handle EXCEPT ![t][First(found)] = n] /\ name' = name
    BY <1>1, <1>3 DEF do_mbox_open, boxVars
  <2>3. First(found) \in Mbox /\ name[First(found)] = n  BY <1>1, <2>1
  <2>. QED  BY <2>2, <2>3 DEF Named, Typed
<1>4. CASE found = {}
  <2>1. First(Free) \in Free  BY <1>2, <1>4, FirstIn DEF Free
  <2>2. First(Free) \in Mbox /\ ~ busy[First(Free)]  BY <2>1 DEF Free
  <2>3. /\ handle' = [handle EXCEPT ![t][First(Free)] = n]
        /\ name' = [name EXCEPT ![First(Free)] = n]
    BY <1>1, <1>4 DEF do_mbox_open
  <2>4. \A u \in Task : handle[u][First(Free)] = NoName  BY <2>2 DEF Open
  <2>5. \A k \in Mbox : name[k] # n  BY <1>1, <1>4
  <2>6. \A u \in Task, m \in Mbox : handle'[u][m] # NoName => name'[m] = handle'[u][m]
    BY <2>2, <2>3, <2>4 DEF Named, Typed
  <2>7. \A m, k \in Mbox : name'[m] # NoName /\ name'[m] = name'[k] => m = k
    BY <2>2, <2>3, <2>5 DEF Named, Typed
  <2>. QED  BY <2>6, <2>7 DEF Named
<1>. QED  BY <1>3, <1>4

\* Nobody else has a mailbox that is closed, so no handle loses its name.
LEMMA CloseKeepsNames ==
  ASSUME ~ CloseShared, Typed, Named, NEW t \in Task, NEW m \in Mbox, do_mbox_close(t, m)
  PROVE  Named'
<1>1. /\ \A u \in Task \ {t} : handle[u][m] = NoName
      /\ name' = [name EXCEPT ![m] = NoName] /\ handle' = [handle EXCEPT ![t][m] = NoName]
  BY DEF do_mbox_close
<1>2. \A u \in Task : handle'[u][m] = NoName  BY <1>1 DEF Typed
<1>3. \A u \in Task, k \in Mbox : k # m => handle'[u][k] = handle[u][k] /\ name'[k] = name[k]
  BY <1>1 DEF Typed
<1>4. name'[m] = NoName  BY <1>1 DEF Typed
<1>. QED  BY <1>2, <1>3, <1>4 DEF Named

\* The other calls leave the names, and the handles but for those of a task that goes.
LEMMA NextKeepsNames ==
  ASSUME ~ CloseShared, Typed, Open, Named, [Next]_vars
  PROVE  Named'
<1>1. ASSUME NEW t \in Task, UNCHANGED <<name, handle>>  PROVE Named'
  BY <1>1 DEF Named
<1>2. CASE UNCHANGED vars  BY <1>2, Named DEF vars, boxVars, taskVars, Named
<1>3. CASE Next
  <2>1. PICK t \in Task : \/ \E n \in Name : do_mbox_open(t, n)
                          \/ \E m \in Mbox : do_mbox_close(t, m)
                          \/ Sending(t) \/ Receiving(t) \/ Gone(t)
    BY <1>3 DEF Next
  <2>2. CASE \E n \in Name : do_mbox_open(t, n)  BY <2>2, OpenKeepsNames
  <2>3. CASE \E m \in Mbox : do_mbox_close(t, m)  BY <2>3, CloseKeepsNames
  <2>4. CASE Sending(t)
    BY <2>4, <1>1 DEF Sending, do_mbox_send, Block, Return, boxVars
  <2>5. CASE Receiving(t)
    BY <2>5, <1>1 DEF Receiving, do_mbox_recv, Block, Return, boxVars
  <2>6. CASE Gone(t)
    <3>1. name' = name /\ handle' = [handle EXCEPT ![t] = [m \in Mbox |-> NoName]]
      BY <2>6 DEF Gone, boxVars
    <3>. QED  BY <3>1 DEF Named, Typed
  <2>. QED  BY <2>1, <2>2, <2>3, <2>4, <2>5, <2>6
<1>. QED  BY <1>2, <1>3

\* Two programs that open the same name are in one mailbox, and two that open
\* different names never share one, as long as nobody closes what others have open.
THEOREM MeetByName ==
  ASSUME ~ CloseShared
  PROVE  Spec => []Rendezvous
<1>1. IInv /\ [Next]_vars => IInv'  BY NextOK
<1>2. Init => Named  BY DEF Init, Named
<1>3. IInv /\ Named /\ [Next]_vars => Named'  BY NextKeepsNames DEF IInv
<1>4. Named => Rendezvous  BY DEF Named, Rendezvous
<1>. QED  BY <1>1, <1>2, <1>3, <1>4, InitOK, PTL DEF Spec
=============================================================================
