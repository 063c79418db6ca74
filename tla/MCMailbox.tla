----------------------------- MODULE MCMailbox -----------------------------
(***************************************************************************)
(* Programs like those of test/mailbox.c: some tasks send for ever and     *)
(* some receive for ever, through one mailbox that all of them have open.  *)
(***************************************************************************)
EXTENDS Mailbox, TLC

CONSTANTS Sender, Receiver

ASSUME Roles == Sender \cap Receiver = {} /\ Sender \cup Receiver = Task

\* Neither the tasks nor the names of the mail run differ in what they may do.
Interchangeable == Permutations(Task) \cup Permutations(Name)

TheName == CHOOSE n \in Name : TRUE

LiveInit ==
  /\ name = [m \in Mbox |-> IF m = 0 THEN TheName ELSE NoName]
  /\ busy = [m \in Mbox |-> m = 0]
  /\ msg = [m \in Mbox |-> [i \in Cell |-> ZeroByte]] /\ index = [m \in Mbox |-> 0]
  /\ full = [m \in Mbox |-> <<>>] /\ empty = [m \in Mbox |-> <<>>]
  /\ blocked = {}
  /\ call = [t \in Task |-> NoCall]
  /\ handle = [t \in Task |-> [m \in Mbox |-> name[m]]]
  /\ alive = Task
  /\ got = <<>>

LiveNext == (\E t \in Sender : Sending(t)) \/ (\E t \in Receiver : Receiving(t))

\* The scheduler dispatches every ready task again and again (ReadyTasksRun of
\* module Tasks), and these programs do nothing but call.
LiveSpec == /\ LiveInit /\ [][LiveNext]_vars
            /\ \A t \in Sender : WF_vars(Sending(t))
            /\ \A t \in Receiver : WF_vars(Receiving(t))

\* The only receiver gets all it waits for, although senders may overtake each
\* other without end.
ReceiverServed == \A t \in Receiver : call[t] # NoCall ~> call[t] = NoCall
=============================================================================
