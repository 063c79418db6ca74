----------------------------- MODULE ByteQueue -----------------------------
(***************************************************************************)
(* What the mailboxes of the kernel promise: each is a first-in first-out  *)
(* queue of at most Capacity bytes.  A message is put in whole or not at   *)
(* all, and a receiver gets the number of bytes it asked for, whatever the *)
(* messages they came in.                                                  *)
(***************************************************************************)
EXTENDS Naturals, Sequences

CONSTANTS Mbox, Byte, Capacity

VARIABLES bytes,   \* the bytes in each mailbox, the oldest first
          got      \* what the last receiver to finish has got

Init == bytes = [m \in Mbox |-> <<>>] /\ got = <<>>

Put(m, b) == /\ Len(bytes[m]) + Len(b) <= Capacity
             /\ bytes' = [bytes EXCEPT ![m] = @ \o b]
             /\ UNCHANGED got

Get(m, n) == /\ n <= Len(bytes[m])
             /\ got' = SubSeq(bytes[m], 1, n)
             /\ bytes' = [bytes EXCEPT ![m] = SubSeq(@, n + 1, Len(@))]

\* A mailbox that is opened for the first time, or closed, is empty.
Clear(m) == bytes' = [bytes EXCEPT ![m] = <<>>] /\ UNCHANGED got

Next == \E m \in Mbox : \/ \E n \in 1 .. Capacity : Get(m, n) \/ \E b \in [1 .. n -> Byte] : Put(m, b)
                        \/ Clear(m)

Spec == Init /\ [][Next]_<<bytes, got>>
=============================================================================
