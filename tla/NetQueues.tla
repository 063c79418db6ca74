------------------------------ MODULE NetQueues ------------------------------
(***************************************************************************)
(* The network calls of drivers/net.c with the card they drive through     *)
(* drivers/emacps/xemacps_main.c.                                          *)
(*                                                                         *)
(* With net_poll_mode = 0, as it is at first, a call spins in the kernel,  *)
(* which stays locked, until the card is done; only the card moves         *)
(* meanwhile.  With 1, which programs ask for, the caller waits in a queue *)
(* that nothing wakes: irq_table has no entry for the card and the calls   *)
(* of recv_check and send_check are commented out, so only do_kill takes a *)
(* task from the queues.                                                   *)
(***************************************************************************)
EXTENDS Lists

CONSTANTS
    Task,
    PER_RECV,   \* frames a descriptor ring is armed for
    Requests,   \* frames a call asks for
    MaxDuring,  \* bound on the frames that arrive while EmacPsRecv writes the ring
    MaxLost,    \* bound on the dropped frames that are counted, per call
    MaxSends    \* bound on the frames that are sent

ASSUME NetOK ==
    /\ PER_RECV \in Nat \ {0} /\ Requests \subseteq Nat \ {0}
    /\ MaxDuring \in Nat /\ MaxLost \in Nat /\ MaxSends \in Nat

VARIABLES
    net_poll_mode,
    recv_queue, send_queue,
    call,       \* the call that spins
    ring,       \* the receiver: enabled, its descriptors, and the one it is at
    armed,      \* the descriptors EmacPsRecv has written
    during,     \* and the frames that arrived meanwhile
    rx_buffers,
    FramesRx,
    tx,         \* the transmitter: tx_buffer, started, and TXSR's complete bit
    arrived,    \* history: the frames that arrived since a do_net_recv began
    lost,       \* and those of them the card dropped
    sends,      \* history: the number of frames handed to do_net_send
    sent,       \* history: what the card transmitted
    unattended  \* history: the kinds of calls that did not wait for the card

vars == <<net_poll_mode, recv_queue, send_queue, call, ring, armed, during, rx_buffers, FramesRx, tx,
          arrived, lost, sends, sent, unattended>>
receiver == <<ring, armed, during, rx_buffers, FramesRx, arrived, lost>>
transmitter == <<tx, sends, sent>>
queues == <<recv_queue, send_queue>>

RingSize == 2 * PER_RECV
Desc == 0 .. (RingSize - 1)
NoCall == [kind |-> "none", want |-> 0, out |-> <<>>]
Waiting(t) == t \in Range(recv_queue) \cup Range(send_queue)
Unlinked(q, t) == IF t \in Range(q) THEN Without(q, t) ELSE q
MayCall(t) == call = NoCall /\ ~Waiting(t)

(***************************************************************************)
(* Receiving                                                               *)
(***************************************************************************)

(* EmacPsRecv writes the descriptors one after the other: the first n get  *)
(* a buffer each, the last of them wraps, and the rest wrap and have none. *)
(* The receiver should be off meanwhile; but                               *)
(* (Reg & XEMACPS_NWCTRL_RXEN_MASK) == TRUE compares 4 with 1, so once on  *)
(* it stays on, and the card, which takes the queue's base only when it is *)
(* off, goes on where it was.                                              *)
Unwrapped(n, i)  == [used |-> FALSE, len |-> 0, wrap |-> i >= n, buffer |-> i < n]
NotCleared(n, i) == [ring.desc[i] EXCEPT !.wrap = i >= n - 1, !.buffer = i < n]
Descriptor(n, i) == [used |-> FALSE, len |-> 0, wrap |-> i >= n - 1, buffer |-> i < n]

Chunk(left) == IF left <= PER_RECV THEN left ELSE PER_RECV
ThisChunk == Chunk(call.want - Len(call.out))

(* A frame has the number it came at since the last call began; 0 stands   *)
(* for what earlier calls left in rx_buffers.  In interrupt mode the       *)
(* caller joins recv_queue when the ring is written, which nobody sees     *)
(* before the kernel is unlocked.                                          *)
do_net_recv(t, n) ==
    /\ MayCall(t)
    /\ call' = [kind |-> "arm", want |-> n, out |-> <<>>]
    /\ armed' = 0 /\ during' = 0
    /\ arrived' = 0 /\ lost' = 0 /\ rx_buffers' = [i \in Desc |-> 0]
    /\ IF net_poll_mode = 1
         THEN recv_queue' = Append(recv_queue, t) /\ unattended' = unattended \cup {"recv"}
         ELSE UNCHANGED <<recv_queue, unattended>>
    /\ UNCHANGED <<net_poll_mode, send_queue, ring, FramesRx, transmitter>>

ArmsDescriptor ==
    /\ call.kind = "arm" /\ armed < RingSize
    /\ ring' = [ring EXCEPT !.desc[armed] = Descriptor(ThisChunk, armed)]
    /\ armed' = armed + 1
    /\ UNCHANGED <<net_poll_mode, queues, call, during, rx_buffers, FramesRx, arrived, lost,
                   transmitter, unattended>>

StartsReceiver ==
    /\ call.kind = "arm" /\ armed = RingSize
    /\ ring' = [ring EXCEPT !.on = TRUE, !.at = IF ring.on THEN @ ELSE 0]
    /\ call' = IF net_poll_mode = 1 THEN NoCall ELSE [call EXCEPT !.kind = "recv"]
    /\ UNCHANGED <<net_poll_mode, queues, armed, during, rx_buffers, FramesRx, arrived, lost,
                   transmitter, unattended>>

(* EmacPsWaitRecv: the descriptors are looked at in turn,                  *)
SeesFrame ==
    /\ call.kind = "recv" /\ FramesRx # ThisChunk
    /\ ring.desc[FramesRx].used
    /\ FramesRx' = FramesRx + 1
    /\ UNCHANGED <<net_poll_mode, queues, call, ring, armed, during, rx_buffers, arrived, lost,
                   transmitter, unattended>>

(* and when all are full the frames are copied, each with its length.  The *)
(* next chunk arms the ring again.                                         *)
Copied == call.out \o [i \in 1 .. ThisChunk |-> <<rx_buffers[i - 1], ring.desc[i - 1].len>>]

KeepsCount ==
    /\ call.kind = "recv" /\ FramesRx = ThisChunk
    /\ call' = [call EXCEPT !.out = Copied, !.kind = IF Len(Copied) < call.want THEN "arm" ELSE "done"]
    /\ IF Len(Copied) < call.want THEN armed' = 0 /\ during' = 0 ELSE UNCHANGED <<armed, during>>
    /\ UNCHANGED <<net_poll_mode, queues, ring, rx_buffers, FramesRx, arrived, lost, transmitter, unattended>>
TakesChunk ==
    /\ call.kind = "recv" /\ FramesRx = ThisChunk
    /\ FramesRx' = 0
    /\ call' = [call EXCEPT !.out = Copied, !.kind = IF Len(Copied) < call.want THEN "arm" ELSE "done"]
    /\ IF Len(Copied) < call.want THEN armed' = 0 /\ during' = 0 ELSE UNCHANGED <<armed, during>>
    /\ UNCHANGED <<net_poll_mode, queues, ring, rx_buffers, arrived, lost, transmitter, unattended>>

(* The card stores a frame where it is in the ring, or drops it: with the  *)
(* receiver off, or at a descriptor the kernel has not given it.           *)
Takes == ring.on /\ ~ring.desc[ring.at].used

FrameArrives ==
    /\ IF call.kind = "arm" THEN during < MaxDuring /\ during' = during + 1 ELSE UNCHANGED during
    /\ \/ /\ Takes
          /\ arrived' = arrived + 1
          /\ rx_buffers' = IF ring.desc[ring.at].buffer
                             THEN [rx_buffers EXCEPT ![ring.at] = arrived + 1] ELSE rx_buffers
          /\ ring' = [ring EXCEPT !.desc[ring.at] = [@ EXCEPT !.used = TRUE, !.len = arrived + 1],
                                  !.at = IF ring.desc[ring.at].wrap THEN 0 ELSE @ + 1]
          /\ UNCHANGED lost
       \/ /\ ~Takes
          /\ IF lost < MaxLost THEN lost' = lost + 1 /\ arrived' = arrived + 1
             ELSE UNCHANGED <<lost, arrived>>
          /\ UNCHANGED <<rx_buffers, ring>>
    /\ UNCHANGED <<net_poll_mode, queues, call, armed, FramesRx, transmitter, unattended>>

(***************************************************************************)
(* Sending                                                                 *)
(***************************************************************************)
do_net_send(t) ==
    /\ MayCall(t) /\ sends < MaxSends
    /\ sends' = sends + 1
    /\ tx' = [tx EXCEPT !.buffer = sends + 1, !.started = TRUE]
    /\ IF net_poll_mode = 1
         THEN /\ send_queue' = Append(send_queue, t)
              /\ unattended' = unattended \cup {"send"}
              /\ UNCHANGED call
         ELSE /\ call' = [NoCall EXCEPT !.kind = "send"]
              /\ UNCHANGED <<send_queue, unattended>>
    /\ UNCHANGED <<net_poll_mode, recv_queue, receiver, sent>>

FrameGoes ==
    /\ tx.started
    /\ sent' = Append(sent, tx.buffer)
    /\ tx' = [tx EXCEPT !.started = FALSE, !.complete = TRUE]
    /\ UNCHANGED <<net_poll_mode, queues, call, receiver, sends, unattended>>

(* EmacPsWaitSend clears the bit it waited for.                            *)
KeepsBit ==
    /\ call.kind = "send" /\ tx.complete
    /\ call' = [call EXCEPT !.kind = "done"]
    /\ UNCHANGED <<net_poll_mode, queues, receiver, transmitter, unattended>>
EmacPsWaitSend ==
    /\ call.kind = "send" /\ tx.complete
    /\ tx' = [tx EXCEPT !.complete = FALSE]
    /\ call' = [call EXCEPT !.kind = "done"]
    /\ UNCHANGED <<net_poll_mode, queues, receiver, sends, sent, unattended>>

(***************************************************************************)
(* The system                                                              *)
(***************************************************************************)
Returns ==
    /\ call.kind = "done"
    /\ call' = NoCall
    /\ UNCHANGED <<net_poll_mode, queues, receiver, transmitter, unattended>>

do_net_irq_mode(mode) ==
    /\ call = NoCall
    /\ net_poll_mode' = mode
    /\ UNCHANGED <<queues, call, receiver, transmitter, unattended>>

(* What do_kill does to a task that waits here: list_del.                  *)
Killed(t) ==
    /\ call = NoCall /\ Waiting(t)
    /\ recv_queue' = Unlinked(recv_queue, t)
    /\ send_queue' = Unlinked(send_queue, t)
    /\ UNCHANGED <<net_poll_mode, call, receiver, transmitter, unattended>>

Init ==
    /\ net_poll_mode = 0
    /\ recv_queue = <<>> /\ send_queue = <<>>
    /\ call = NoCall
    /\ ring = [on |-> FALSE, at |-> 0,
               desc |-> [i \in Desc |-> [used |-> FALSE, len |-> 0, wrap |-> FALSE, buffer |-> FALSE]]]
    /\ armed = 0 /\ during = 0
    /\ rx_buffers = [i \in Desc |-> 0]
    /\ FramesRx = 0
    /\ tx = [buffer |-> 0, started |-> FALSE, complete |-> FALSE]
    /\ arrived = 0 /\ lost = 0 /\ sends = 0 /\ sent = <<>> /\ unattended = {}

Kernel == ArmsDescriptor \/ StartsReceiver \/ SeesFrame \/ TakesChunk \/ EmacPsWaitSend \/ Returns

Next ==
    \/ Kernel
    \/ FrameArrives
    \/ FrameGoes
    \/ \E t \in Task : do_net_send(t) \/ Killed(t) \/ \E n \in Requests : do_net_recv(t, n)
    \/ \E mode \in {0, 1} : do_net_irq_mode(mode)

Spec == Init /\ [][Next]_vars

(* A spinning call goes on, the card transmits what it was started for,    *)
(* and frames arrive.                                                      *)
FairSpec == Spec /\ WF_vars(Kernel) /\ WF_vars(FrameGoes) /\ WF_vars(FrameArrives)

(***************************************************************************)
(* Properties                                                              *)
(***************************************************************************)

Calls == [kind : {"none", "arm", "recv", "send", "done"}, want : Requests \cup {0}, out : Seq(Nat \X Nat)]
Rings == [on : BOOLEAN, at : Desc, desc : [Desc -> [used : BOOLEAN, len : Nat, wrap : BOOLEAN, buffer : BOOLEAN]]]

(* The variables have their types; a task is in a queue once.              *)
TypeOK ==
    /\ net_poll_mode \in {0, 1}
    /\ \A q \in {recv_queue, send_queue} : q \in Seq(Task) /\ IsInjective(q)
    /\ call \in Calls /\ ring \in Rings
    /\ armed \in 0 .. RingSize /\ during \in 0 .. MaxDuring
    /\ rx_buffers \in [Desc -> Nat] /\ FramesRx \in 0 .. PER_RECV
    /\ tx \in [buffer : 0 .. MaxSends, started : BOOLEAN, complete : BOOLEAN]
    /\ arrived \in Nat /\ lost \in 0 .. MaxLost /\ sends \in 0 .. MaxSends
    /\ sent \in Seq(1 .. MaxSends) /\ unattended \subseteq {"recv", "send"}

(* What do_net_recv has copied so far arrived while it waited: in order,   *)
(* each frame with its own length, without a gap inside a chunk; and when  *)
(* it returns it has as many as it was asked for.  The card fills the ring *)
(* all the while, between two chunks and two calls too.  A call in         *)
(* interrupt mode ends that: it leaves the card somewhere in its ring.     *)
RecvInOrder ==
    LET out == call.out
    IN "recv" \notin unattended =>
        /\ \A i \in DOMAIN out : out[i][1] = out[i][2] /\ out[i][1] > 0
        /\ \A i \in 1 .. (Len(out) - 1) :
             IF i % PER_RECV = 0 THEN out[i][1] < out[i + 1][1] ELSE out[i + 1][1] = out[i][1] + 1
        /\ call.kind = "done" => Len(out) = call.want

(* The card never comes to a descriptor without a buffer, whose address is *)
(* 0, although the ring is written under it; the next chunk may be longer  *)
(* or shorter than the last.  It is so because the descriptors that remain *)
(* wrap (xemacps_main.c:638, `to show ring mode'), as long as at most one  *)
(* frame arrives while the ring is written; with two, the card can be at   *)
(* a descriptor that the last call left without a buffer and this one      *)
(* gives one, since the receiver is not off (xemacps_main.c:605).          *)
WithinBuffers ==
    "recv" \notin unattended => \A i \in Desc : ring.desc[i].used => ring.desc[i].buffer

(* A do_net_send that waited returns after its frame went out, and frames  *)
(* go out once and in order.  A call in interrupt mode ends that: it       *)
(* leaves the complete bit for the next to find, and tx_buffer for the     *)
(* next to overwrite.                                                      *)
SentInOrder ==
    "send" \notin unattended =>
        /\ sent = [i \in 1 .. Len(sent) |-> i]
        /\ call.kind # "send" => Len(sent) = sends

(* Calls that spin come back, and the kernel with them: a send because the *)
(* card completes what it was given, a receive as long as frames arrive.   *)
CallsReturn == call.kind \in {"arm", "recv", "send"} ~> call = NoCall
=============================================================================
