----------------------------- MODULE NetProofs -----------------------------
(***************************************************************************)
(* The network calls, for any number of tasks and frames and rings of any  *)
(* length.  Typed and Counting hold whatever the programs do.  As long as  *)
(* every call waits for the card, Sending says where a frame can be        *)
(* between do_net_send and the wire, and Receiving how far the card and    *)
(* the kernel have got in the ring: the first descriptors are written for  *)
(* a chunk of n, and the card has filled the first k of them.  Receiving   *)
(* needs that at most one frame arrives while the ring is written.         *)
(***************************************************************************)
EXTENDS NetQueues, ListsTheorems

\* The call in progress, and the end of the ring: its last descriptor wraps.
Counting ==
  /\ call.kind = "none" => call = NoCall
  /\ call.kind = "send" => call = [NoCall EXCEPT !.kind = "send"]
  /\ IF call.kind \in {"arm", "recv"} THEN Len(call.out) < call.want /\ FramesRx <= ThisChunk
     ELSE FramesRx = 0
  /\ call.kind = "arm" => FramesRx = 0 /\ (net_poll_mode = 1 => "recv" \in unattended)
  /\ call.kind = "recv" => net_poll_mode # 1
  /\ call.kind = "done" => Len(call.out) = call.want
  /\ ring.on \/ armed = RingSize => ring.desc[RingSize - 1].wrap
  /\ tx.started => tx.buffer > 0

\* The last frame is on its way while its do_net_send waits, and out before.
Sending ==
  "send" \notin unattended =>
    /\ sent = [i \in 1 .. Len(sent) |-> i]
    /\ IF call.kind = "send"
         THEN \/ tx.started /\ ~ tx.complete /\ sends = Len(sent) + 1 /\ tx.buffer = sends
              \/ ~ tx.started /\ tx.complete /\ sends = Len(sent)
         ELSE ~ tx.started /\ ~ tx.complete /\ sends = Len(sent)

\* Of the descriptors written for a chunk of n frames the card has filled the
\* first k, with frames in a row.
Filled(n, k) ==
  /\ ring.at = IF k = n THEN 0 ELSE k
  /\ \A i \in Desc : i < armed => /\ ring.desc[i].wrap <=> i >= n - 1
                                  /\ ring.desc[i].buffer <=> i < n
                                  /\ ring.desc[i].used <=> i < k
  /\ \A i \in Desc : i < k => /\ rx_buffers[i] = ring.desc[i].len
                              /\ ring.desc[i].len \in 1 .. arrived
  /\ \A i, j \in Desc : j = i + 1 /\ j < k => ring.desc[j].len = ring.desc[i].len + 1
  /\ \A i \in Desc : k = i + 1 /\ k < n => ring.desc[i].len = arrived

\* Those not yet written are as the chunk before left them: the card has filled
\* some at the front, the first at least when it is on.
Before ==
  \E m \in 0 .. PER_RECV :
    (ring.on <=> m > 0) /\ \A i \in Desc : i >= armed => (ring.desc[i].used <=> i < m)

\* What was copied before arrived before what the ring holds.
Copying(n, k) ==
  /\ n = ThisChunk /\ FramesRx <= k
  /\ Len(call.out) % PER_RECV = 0
  /\ \A i \in DOMAIN call.out : call.out[i][1] <= arrived /\ (k > 0 => call.out[i][1] < ring.desc[0].len)

InRing(n, k) ==
  /\ k <= n /\ Filled(n, k)
  /\ CASE call.kind = "arm"  -> /\ Copying(n, k) /\ Before
                                /\ k <= during /\ (k > 0 => armed > 0 /\ ring.on)
       [] call.kind = "recv" -> armed = RingSize /\ ring.on /\ Copying(n, k)
       [] OTHER              -> armed = RingSize /\ ring.on /\ k = n

Receiving ==
  "recv" \notin unattended =>
    /\ IF ring.on \/ call.kind = "arm"
         THEN \E n \in 1 .. PER_RECV, k \in 0 .. PER_RECV : InRing(n, k)
         ELSE ring.at = 0 /\ call.kind # "recv" /\ \A i \in Desc : ~ ring.desc[i].used
    /\ \A i \in Desc : ring.desc[i].used => ring.desc[i].buffer
    /\ RecvInOrder

IInv == TypeOK /\ Counting /\ Sending

-----------------------------------------------------------------------------
(* Lemmas on the operators. *)

\* The constants are numbers.
LEMMA NetConstants ==
  /\ PER_RECV \in Nat \ {0} /\ Requests \subseteq Nat \ {0} /\ MaxLost \in Nat /\ MaxSends \in Nat
  /\ MaxDuring \in Nat /\ RingSize \in Nat /\ PER_RECV < RingSize
  /\ Desc = {i \in Nat : i < RingSize} /\ 0 \in Desc /\ RingSize - 1 \in Desc
BY NetOK DEF NetOK, RingSize, Desc

\* Division with remainder, and the remainder after one chunk more.
LEMMA Remainder ==
  ASSUME NEW a \in Nat, NEW b \in Nat \ {0}
  PROVE  a = b * (a \div b) + (a % b) /\ a \div b \in Int /\ a % b \in 0 .. b - 1
OBVIOUS

LEMMA MultipleBelow ==
  ASSUME NEW b \in Nat \ {0}, NEW m \in Int, b * m \in 0 .. b - 1
  PROVE  m = 0
<1>1. CASE m >= 1
  <2>1. b * m >= b * 1  BY <1>1
  <2>. QED  BY <2>1
<1>2. CASE m <= -1
  <2>1. b * m <= b * (-1)  BY <1>2
  <2>. QED  BY <2>1
<1>. QED  BY <1>1, <1>2

LEMMA OneChunkMore ==
  ASSUME NEW a \in Nat, NEW b \in Nat \ {0}, a % b = 0
  PROVE  (a + b) % b = 0
<1>. DEFINE q == a \div b  p == (a + b) \div b  r == (a + b) % b
<1>1. a = b * q /\ q \in Int  BY Remainder
<1>2. a + b = b * p + r /\ p \in Int /\ r \in 0 .. b - 1  BY Remainder
<1>. HIDE DEF q, p, r
<1>3. r = b * (q + 1 - p)  BY <1>1, <1>2
<1>4. q + 1 - p = 0  BY <1>1, <1>2, <1>3, MultipleBelow
<1>5. r = 0  BY <1>1, <1>2, <1>3, <1>4
<1>. QED  BY <1>5 DEF r

\* A chunk is not longer than what is left, and shorter than the ring only at
\* the end.
LEMMA ChunkOK ==
  ASSUME NEW left \in Nat \ {0}
  PROVE  /\ Chunk(left) \in 1 .. PER_RECV /\ Chunk(left) <= left
         /\ Chunk(left) # left => Chunk(left) = PER_RECV
BY NetConstants DEF Chunk

\* The chunk of the call in progress.
LEMMA ThisChunkOK ==
  ASSUME TypeOK, Counting, call.kind \in {"arm", "recv"}
  PROVE  /\ Len(call.out) \in Nat /\ call.want \in Nat /\ call.want - Len(call.out) \in Nat \ {0}
         /\ ThisChunk \in 1 .. PER_RECV /\ Len(call.out) + ThisChunk <= call.want
         /\ Len(call.out) + ThisChunk # call.want => ThisChunk = PER_RECV
<1>1. Len(call.out) \in Nat /\ call.want \in Nat
  <2>1. call.out \in Seq(Nat \X Nat) /\ call.want \in Requests \cup {0}  BY DEF TypeOK, Calls, Rings
  <2>2. Len(call.out) \in Nat  BY <2>1
  <2>3. Requests \cup {0} \subseteq Nat  BY NetConstants
  <2>4. call.want \in Nat  BY <2>1, <2>3
  <2>. QED  BY <2>2, <2>4
<1>2. call.want - Len(call.out) \in Nat \ {0}  BY <1>1 DEF Counting
<1>. QED  BY <1>1, <1>2, ChunkOK, NetConstants DEF ThisChunk

\* Copying a chunk appends the frames in the ring.
LEMMA CopiedOK ==
  ASSUME TypeOK, Counting, call.kind = "recv"
  PROVE  /\ Copied \in Seq(Nat \X Nat) /\ Len(Copied) = Len(call.out) + ThisChunk
         /\ \A i \in 1 .. Len(call.out) : Copied[i] = call.out[i]
         /\ \A i \in 1 .. ThisChunk :
               Copied[Len(call.out) + i] = <<rx_buffers[i - 1], ring.desc[i - 1].len>>
<1>1. ThisChunk \in 1 .. PER_RECV /\ Len(call.out) \in Nat  BY ThisChunkOK
<1>. DEFINE new == [i \in 1 .. ThisChunk |-> <<rx_buffers[i - 1], ring.desc[i - 1].len>>]
<1>2. \A i \in 1 .. ThisChunk : i - 1 \in Desc  BY <1>1, NetConstants DEF Desc
<1>3. \A i \in 1 .. ThisChunk : <<rx_buffers[i - 1], ring.desc[i - 1].len>> \in Nat \X Nat
  BY <1>2 DEF TypeOK, Calls, Rings
<1>4. ThisChunk \in Nat  BY <1>1, NetConstants
<1>5. new \in Seq(Nat \X Nat) /\ Len(new) = ThisChunk
  <2>1. new \in [1 .. ThisChunk -> Nat \X Nat]  BY <1>3
  <2>. HIDE DEF new
  <2>. QED  BY <1>4, <2>1
<1>6. call.out \in Seq(Nat \X Nat)  BY DEF TypeOK, Calls, Rings
<1>7. Copied = call.out \o new  BY DEF Copied
<1>. HIDE DEF new
<1>8. /\ call.out \o new \in Seq(Nat \X Nat) /\ Len(call.out \o new) = Len(call.out) + Len(new)
      /\ \A i \in 1 .. Len(call.out) + Len(new) :
            (call.out \o new)[i] = IF i <= Len(call.out) THEN call.out[i] ELSE new[i - Len(call.out)]
  BY <1>5, <1>6, ConcatProperties
<1>9. \A i \in 1 .. ThisChunk : (call.out \o new)[Len(call.out) + i] = new[i]
  BY <1>1, <1>4, <1>5, <1>8
<1>10. \A i \in 1 .. ThisChunk : new[i] = <<rx_buffers[i - 1], ring.desc[i - 1].len>>  BY DEF new
<1>11. \A i \in 1 .. Len(call.out) : (call.out \o new)[i] = call.out[i]  BY <1>1, <1>4, <1>5, <1>8
<1>. QED  BY <1>5, <1>7, <1>8, <1>9, <1>10, <1>11

\* Writing a descriptor leaves the others alone.
LEMMA ArmsOK ==
  ASSUME TypeOK, Counting, ArmsDescriptor
  PROVE  /\ armed \in Desc /\ ThisChunk \in 1 .. PER_RECV
         /\ ring' \in Rings /\ ring'.on = ring.on /\ ring'.at = ring.at
         /\ \A i \in Desc \ {armed} : ring'.desc[i] = ring.desc[i]
         /\ ~ ring'.desc[armed].used
         /\ ring'.desc[armed].wrap <=> armed >= ThisChunk - 1
         /\ ring'.desc[armed].buffer <=> armed < ThisChunk
<1>1. call.kind = "arm" /\ armed < RingSize
      /\ ring' = [ring EXCEPT !.desc[armed] = Descriptor(ThisChunk, armed)]
  BY DEF ArmsDescriptor
<1>2. armed \in Desc  BY <1>1, NetConstants DEF TypeOK
<1>3. ThisChunk \in 1 .. PER_RECV  BY <1>1, ThisChunkOK
<1>4. armed \in Nat /\ ThisChunk \in Nat  BY <1>2, <1>3, NetConstants
<1>. DEFINE d == [used |-> FALSE, len |-> 0, wrap |-> armed >= ThisChunk - 1, buffer |-> armed < ThisChunk]
<1>5. d \in [used : BOOLEAN, len : Nat, wrap : BOOLEAN, buffer : BOOLEAN]  BY <1>4
<1>6. ring' = [ring EXCEPT !.desc[armed] = d]  BY <1>1 DEF Descriptor
<1>7. ~ d.used /\ (d.wrap <=> armed >= ThisChunk - 1) /\ (d.buffer <=> armed < ThisChunk)  OBVIOUS
<1>. HIDE DEF d
<1>8. ring \in Rings  BY DEF TypeOK
<1>9. ring' \in Rings /\ ring'.on = ring.on /\ ring'.at = ring.at /\ ring'.desc[armed] = d
      /\ \A i \in Desc \ {armed} : ring'.desc[i] = ring.desc[i]
  BY <1>2, <1>5, <1>6, <1>8 DEF Rings
<1>. QED  BY <1>2, <1>3, <1>7, <1>9

\* Queues keep their elements apart.
LEMMA QueueOK ==
  ASSUME NEW q \in Seq(Task), IsInjective(q), NEW t \in Task
  PROVE  /\ Unlinked(q, t) \in Seq(Task) /\ IsInjective(Unlinked(q, t))
         /\ t \notin Range(q) => Append(q, t) \in Seq(Task) /\ IsInjective(Append(q, t))
<1>1. q \in NoDup(Task)  BY DEF NoDup
<1>2. Unlinked(q, t) \in NoDup(Task)
  <2>1. CASE t \in Range(q)  BY <1>1, <2>1, WithoutOne DEF Unlinked
  <2>2. CASE t \notin Range(q)  BY <1>1, <2>2 DEF Unlinked
  <2>. QED  BY <2>1, <2>2
<1>3. t \notin Range(q) => Append(q, t) \in NoDup(Task)  BY <1>1, AppendNew
<1>. QED  BY <1>2, <1>3 DEF NoDup

-----------------------------------------------------------------------------
(* Types, and where the call and the ring are. *)

LEMMA InitTyped == Init => TypeOK /\ Counting
<1>. SUFFICES ASSUME Init PROVE TypeOK /\ Counting  OBVIOUS
<1>1. 0 \in Desc  BY NetConstants
<1>2. IsInjective(<<>>)  BY DEF IsInjective
<1>3. NoCall \in Calls
  BY DEF NoCall, Calls
<1>4. TypeOK  BY <1>1, <1>2, <1>3, NetConstants DEF Init, TypeOK, Calls, Rings
<1>5. Counting  BY NetConstants DEF Init, Counting, NoCall
<1>. QED  BY <1>4, <1>5

LEMMA RecvTyped ==
  ASSUME TypeOK, Counting, NEW t \in Task, NEW n \in Requests, do_net_recv(t, n)
  PROVE  TypeOK' /\ Counting'
<1>1. n \in Nat \ {0}  BY NetConstants
<1>2. Chunk(n) \in 1 .. PER_RECV  BY <1>1, ChunkOK
<1>3. call = NoCall /\ t \notin Range(recv_queue)  BY DEF do_net_recv, MayCall, Waiting
<1>4. /\ recv_queue \in Seq(Task) /\ IsInjective(recv_queue)
      /\ send_queue \in Seq(Task) /\ IsInjective(send_queue)
  BY DEF TypeOK
<1>5. recv_queue' \in Seq(Task) /\ IsInjective(recv_queue')
  BY <1>3, <1>4, QueueOK DEF do_net_recv
<1>6. call' = [kind |-> "arm", want |-> n, out |-> <<>>]  BY DEF do_net_recv
<1>7. armed' = 0 /\ during' = 0 /\ UNCHANGED <<net_poll_mode, send_queue, ring, FramesRx, tx, sends, sent>>
  BY DEF do_net_recv, transmitter
<1>8. FramesRx = 0  BY <1>3 DEF Counting, NoCall
<1>9. TypeOK'
  <2>1. <<>> \in Seq(Nat \X Nat)  OBVIOUS
  <2>2. call' \in Calls  BY <1>6, <2>1 DEF Calls
  <2>3. rx_buffers' \in [Desc -> Nat] /\ arrived' \in Nat /\ lost' \in 0 .. MaxLost
    BY NetConstants DEF do_net_recv
  <2>4. unattended' \subseteq {"recv", "send"}  BY DEF TypeOK, do_net_recv
  <2>5. armed' \in 0 .. RingSize /\ during' \in 0 .. MaxDuring  BY <1>7, NetConstants
  <2>. QED  BY <1>4, <1>5, <1>7, <2>2, <2>3, <2>4, <2>5 DEF TypeOK
<1>10. Counting'
  <2>1. Len(call'.out) = 0 /\ call'.want = n /\ call'.kind = "arm"  BY <1>6
  <2>2. ThisChunk' = Chunk(n)  BY <1>1, <2>1 DEF ThisChunk, Chunk
  <2>3. net_poll_mode' = 1 => "recv" \in unattended'  BY <1>7 DEF do_net_recv
  <2>4. armed' # RingSize  BY <1>7, NetConstants
  <2>. QED  BY <1>1, <1>2, <1>7, <1>8, <2>1, <2>2, <2>3, <2>4 DEF Counting
<1>. QED  BY <1>9, <1>10

LEMMA ArmsTyped ==
  ASSUME TypeOK, Counting, ArmsDescriptor
  PROVE  TypeOK' /\ Counting'
<1>1. /\ call.kind = "arm" /\ armed' = armed + 1 /\ ThisChunk' = ThisChunk
      /\ UNCHANGED <<net_poll_mode, recv_queue, send_queue, call, during, rx_buffers, FramesRx, arrived,
                     lost, tx, sends, sent, unattended>>
  BY DEF ArmsDescriptor, queues, transmitter, ThisChunk
<1>2. armed' \in 0 .. RingSize  BY <1>1, ArmsOK, NetConstants
<1>3. TypeOK'  BY <1>1, <1>2, ArmsOK DEF TypeOK
<1>4. ring'.on \/ armed' = RingSize => ring'.desc[RingSize - 1].wrap
  <2>1. CASE armed = RingSize - 1
    <3>1. armed \in Nat /\ ThisChunk \in 1 .. PER_RECV /\ armed >= ThisChunk - 1
      BY <2>1, ArmsOK, NetConstants
    <3>. QED  BY <2>1, <3>1, ArmsOK
  <2>2. CASE armed # RingSize - 1
    <3>1. ring'.desc[RingSize - 1] = ring.desc[RingSize - 1] /\ ring'.on = ring.on
      BY <2>2, ArmsOK, NetConstants
    <3>2. armed' # RingSize  BY <1>1, <2>2, ArmsOK, NetConstants
    <3>. QED  BY <3>1, <3>2 DEF Counting
  <2>. QED  BY <2>1, <2>2
<1>5. Counting'  BY <1>1, <1>4 DEF Counting
<1>. QED  BY <1>3, <1>5

LEMMA StartsTyped ==
  ASSUME TypeOK, Counting, StartsReceiver
  PROVE  TypeOK' /\ Counting'
<1>1. /\ call.kind = "arm" /\ armed = RingSize /\ FramesRx = 0
      /\ UNCHANGED <<net_poll_mode, recv_queue, send_queue, armed, during, rx_buffers, FramesRx, arrived,
                     lost, tx, sends, sent, unattended>>
  BY DEF StartsReceiver, queues, transmitter, Counting
<1>2. ring' \in Rings /\ ring'.desc = ring.desc
  BY NetConstants DEF StartsReceiver, TypeOK, Rings
<1>3. call' = NoCall \/ (call' = [call EXCEPT !.kind = "recv"] /\ net_poll_mode # 1)  BY DEF StartsReceiver
<1>4. NoCall \in Calls /\ [call EXCEPT !.kind = "recv"] \in Calls
  <2>1. NoCall \in Calls  BY DEF NoCall, Calls
  <2>2. call \in Calls  BY DEF TypeOK
  <2>. QED  BY <2>1, <2>2 DEF Calls
<1>5. TypeOK'  BY <1>1, <1>2, <1>3, <1>4 DEF TypeOK
<1>6. CASE call' = NoCall
  <2>1. call'.kind = "none"  BY <1>6 DEF NoCall
  <2>. QED  BY <1>1, <1>2, <1>5, <1>6, <2>1 DEF Counting
<1>7. CASE call' = [call EXCEPT !.kind = "recv"] /\ net_poll_mode # 1
  <2>1. call'.kind = "recv" /\ call'.out = call.out /\ call'.want = call.want /\ ThisChunk' = ThisChunk
    BY <1>7 DEF TypeOK, Calls, ThisChunk
  <2>. QED  BY <1>1, <1>2, <1>5, <1>7, <2>1 DEF Counting
<1>. QED  BY <1>3, <1>6, <1>7

LEMMA SeesTyped ==
  ASSUME TypeOK, Counting, SeesFrame
  PROVE  TypeOK' /\ Counting'
<1>1. ThisChunk \in 1 .. PER_RECV /\ ThisChunk' = ThisChunk
  BY ThisChunkOK DEF SeesFrame, ThisChunk
<1>2. FramesRx' \in 0 .. PER_RECV /\ FramesRx' <= ThisChunk
  <2>1. FramesRx \in Nat  BY NetConstants DEF TypeOK, Calls, Rings
  <2>2. FramesRx <= ThisChunk /\ FramesRx # ThisChunk /\ FramesRx' = FramesRx + 1
    BY DEF SeesFrame, Counting
  <2>. QED  BY <1>1, <2>1, <2>2, NetConstants
<1>3. UNCHANGED <<net_poll_mode, recv_queue, send_queue, call, ring, armed, during, rx_buffers, arrived,
                  lost, tx, sends, sent, unattended>>
  BY DEF SeesFrame, queues, transmitter
<1>4. TypeOK'  BY <1>2, <1>3 DEF TypeOK, Calls, Rings
<1>5. Counting'  BY <1>1, <1>2, <1>3 DEF Counting, SeesFrame
<1>. QED  BY <1>4, <1>5

LEMMA TakesTyped ==
  ASSUME TypeOK, Counting, TakesChunk
  PROVE  TypeOK' /\ Counting'
<1>1. call.kind = "recv" /\ FramesRx = ThisChunk /\ FramesRx' = 0  BY DEF TakesChunk
<1>2. /\ Len(call.out) \in Nat /\ call.want \in Nat
      /\ ThisChunk \in 1 .. PER_RECV /\ Len(call.out) + ThisChunk <= call.want
  BY <1>1, ThisChunkOK
<1>3. Copied \in Seq(Nat \X Nat) /\ Len(Copied) = Len(call.out) + ThisChunk  BY <1>1, CopiedOK
<1>4. UNCHANGED <<net_poll_mode, recv_queue, send_queue, ring, rx_buffers, arrived, lost,
                  tx, sends, sent, unattended>>
  BY DEF TakesChunk, queues, transmitter
<1>5. call.want \in Requests \cup {0}  BY DEF TypeOK, Calls
<1>6. /\ armed' \in 0 .. RingSize /\ during' \in 0 .. MaxDuring
      /\ armed' = RingSize => armed = RingSize
  <2>1. armed \in 0 .. RingSize /\ during \in 0 .. MaxDuring  BY DEF TypeOK
  <2>2. (armed' = 0 /\ during' = 0) \/ UNCHANGED <<armed, during>>  BY DEF TakesChunk
  <2>3. RingSize \in Nat \ {0} /\ MaxDuring \in Nat  BY NetConstants
  <2>. QED  BY <2>1, <2>2, <2>3
<1>7. call' = [kind |-> IF Len(Copied) < call.want THEN "arm" ELSE "done", want |-> call.want,
              out |-> Copied]
  BY DEF TakesChunk, TypeOK, Calls
<1>8. call' \in Calls  BY <1>3, <1>5, <1>7 DEF Calls
<1>9. FramesRx' \in 0 .. PER_RECV  BY <1>1, NetConstants
<1>10. TypeOK'  BY <1>4, <1>6, <1>8, <1>9 DEF TypeOK
<1>11. CASE Len(Copied) < call.want
  <2>1. call'.kind = "arm" /\ call'.out = Copied /\ call'.want = call.want  BY <1>7, <1>11
  <2>2. call.want - Len(Copied) \in Nat \ {0}  BY <1>2, <1>3, <1>11, NetConstants
  <2>3. ThisChunk' \in 1 .. PER_RECV
    <3>1. ThisChunk' = Chunk(call.want - Len(Copied))  BY <2>1 DEF ThisChunk, Chunk
    <3>. QED  BY <2>2, <3>1, ChunkOK
  <2>4. FramesRx' <= ThisChunk'  BY <1>1, <2>3, NetConstants
  <2>5. net_poll_mode' # 1
    BY <1>1, <1>4 DEF Counting
  <2>. QED  BY <1>1, <1>4, <1>6, <1>10, <1>11, <2>1, <2>4, <2>5 DEF Counting
<1>12. CASE ~ (Len(Copied) < call.want)
  <2>1. call'.kind = "done" /\ call'.out = Copied /\ call'.want = call.want  BY <1>7, <1>12
  <2>2. Len(Copied) = call.want  BY <1>2, <1>3, <1>12, NetConstants
  <2>. QED  BY <1>1, <1>4, <1>6, <1>10, <2>1, <2>2 DEF Counting
<1>. QED  BY <1>11, <1>12

\* The frames that arrive while the ring is written are counted.
LEMMA DuringOK ==
  ASSUME TypeOK, FrameArrives
  PROVE  /\ during \in Nat /\ during' \in 0 .. MaxDuring /\ during' >= during
         /\ call.kind = "arm" => during < MaxDuring /\ during' = during + 1
<1>1. during \in 0 .. MaxDuring  BY DEF TypeOK
<1>2. IF call.kind = "arm" THEN during < MaxDuring /\ during' = during + 1 ELSE during' = during
  BY DEF FrameArrives
<1>3. MaxDuring \in Nat  BY NetConstants
<1>. QED  BY <1>1, <1>2, <1>3

LEMMA ArrivesTyped ==
  ASSUME TypeOK, Counting, FrameArrives
  PROVE  TypeOK' /\ Counting'
<1>1. UNCHANGED <<net_poll_mode, recv_queue, send_queue, call, armed, FramesRx, tx, sends, sent, unattended>>
  BY DEF FrameArrives, queues, transmitter
<1>2. /\ ring' \in Rings
      /\ rx_buffers' \in [Desc -> Nat] /\ arrived' \in Nat /\ lost' \in 0 .. MaxLost
      /\ ring'.on = ring.on /\ \A i \in Desc : ring'.desc[i].wrap = ring.desc[i].wrap
  <2>1. CASE Takes
    <3>1. ring.desc[RingSize - 1].wrap  BY <2>1 DEF Counting, Takes
    <3>2. ring.at \in Desc /\ arrived + 1 \in Nat  BY DEF TypeOK, Calls, Rings
    <3>3. 0 \in Desc /\ (~ ring.desc[ring.at].wrap => ring.at + 1 \in Desc)
      BY <3>1, <3>2, NetConstants
    <3>4. ring' = [ring EXCEPT !.desc[ring.at] = [@ EXCEPT !.used = TRUE, !.len = arrived + 1],
                               !.at = IF ring.desc[ring.at].wrap THEN 0 ELSE @ + 1]
      BY <2>1 DEF FrameArrives
    <3>5. ring'.at \in Desc /\ ring'.on = ring.on /\ ring'.on \in BOOLEAN
      BY <3>3, <3>4 DEF TypeOK, Calls, Rings
    <3>. DEFINE d == [ring.desc[ring.at] EXCEPT !.used = TRUE, !.len = arrived + 1]
    <3>6. ring'.desc = [ring.desc EXCEPT ![ring.at] = d]
      BY <3>2, <3>4 DEF TypeOK, Rings
    <3>7. ring' = [on |-> ring'.on, at |-> ring'.at, desc |-> ring'.desc]  BY <3>4 DEF TypeOK, Calls, Rings
    <3>8. d \in [used : BOOLEAN, len : Nat, wrap : BOOLEAN, buffer : BOOLEAN]
      <4>1. ring.desc[ring.at] \in [used : BOOLEAN, len : Nat, wrap : BOOLEAN, buffer : BOOLEAN]
        BY <3>2 DEF TypeOK, Rings
      <4>. QED  BY <3>2, <4>1
    <3>9. ring'.desc \in [Desc -> [used : BOOLEAN, len : Nat, wrap : BOOLEAN, buffer : BOOLEAN]]
      BY <3>6, <3>8 DEF TypeOK, Calls, Rings
    <3>10. \A i \in Desc : ring'.desc[i].wrap = ring.desc[i].wrap  BY <3>2, <3>6 DEF TypeOK, Calls, Rings
    <3>11. rx_buffers' \in [Desc -> Nat] /\ arrived' \in Nat /\ lost' \in 0 .. MaxLost
      <4>1. arrived' = arrived + 1 /\ lost' = lost
            /\ \/ rx_buffers' = rx_buffers
               \/ rx_buffers' = [rx_buffers EXCEPT ![ring.at] = arrived + 1]
        BY <2>1 DEF FrameArrives
      <4>2. rx_buffers \in [Desc -> Nat] /\ lost \in 0 .. MaxLost  BY DEF TypeOK
      <4>3. [rx_buffers EXCEPT ![ring.at] = arrived + 1] \in [Desc -> Nat]  BY <3>2, <4>2
      <4>4. rx_buffers' \in [Desc -> Nat]  BY <4>1, <4>2, <4>3
      <4>. QED  BY <3>2, <4>1, <4>2, <4>4
    <3>12. ring' \in Rings  BY <3>5, <3>7, <3>9 DEF Rings
    <3>. QED  BY <3>5, <3>10, <3>11, <3>12
  <2>2. CASE ~ Takes
    <3>1. UNCHANGED <<rx_buffers, ring>>  BY <2>2 DEF FrameArrives
    <3>2. \/ UNCHANGED <<lost, arrived>>
          \/ lost < MaxLost /\ lost' = lost + 1 /\ arrived' = arrived + 1
      BY <2>2 DEF FrameArrives
    <3>3. arrived' \in Nat /\ lost' \in 0 .. MaxLost  BY <3>2, NetConstants DEF TypeOK
    <3>. QED  BY <3>1, <3>3 DEF TypeOK, Rings
  <2>. QED  BY <2>1, <2>2
<1>3. TypeOK'  BY <1>1, <1>2, DuringOK DEF TypeOK, Calls, Rings
<1>4. ThisChunk' = ThisChunk  BY <1>1 DEF ThisChunk
<1>5. Counting'  BY <1>1, <1>2, <1>4, NetConstants DEF Counting
<1>. QED  BY <1>3, <1>5

LEMMA SendTyped ==
  ASSUME TypeOK, Counting, NEW t \in Task, do_net_send(t)
  PROVE  TypeOK' /\ Counting'
<1>1. UNCHANGED <<net_poll_mode, recv_queue, ring, armed, during, rx_buffers, FramesRx, arrived, lost, sent>>
  BY DEF do_net_send, receiver
<1>2. call = NoCall /\ t \notin Range(send_queue) /\ FramesRx = 0
  BY DEF do_net_send, MayCall, Waiting, Counting, NoCall
<1>3. /\ recv_queue \in Seq(Task) /\ IsInjective(recv_queue)
      /\ send_queue \in Seq(Task) /\ IsInjective(send_queue)
  BY DEF TypeOK, Calls, Rings
<1>4. send_queue' \in Seq(Task) /\ IsInjective(send_queue')
  BY <1>2, <1>3, QueueOK DEF do_net_send
<1>5. call' \in {NoCall, [NoCall EXCEPT !.kind = "send"]}  BY <1>2 DEF do_net_send
<1>6. call' \in Calls
  <2>1. \A k \in {"none", "send"} : [kind |-> k, want |-> 0, out |-> <<>>] \in Calls  BY DEF Calls
  <2>. QED  BY <1>5, <2>1 DEF NoCall
<1>7. sends' \in 1 .. MaxSends /\ tx'.buffer = sends' /\ tx' \in [buffer : 0 .. MaxSends,
        started : BOOLEAN, complete : BOOLEAN] /\ unattended' \subseteq {"recv", "send"}
  <2>1. sends' = sends + 1 /\ sends \in 0 .. MaxSends /\ sends < MaxSends
    BY DEF do_net_send, TypeOK
  <2>2. sends' \in 1 .. MaxSends  BY <2>1, NetConstants
  <2>3. tx' = [tx EXCEPT !.buffer = sends', !.started = TRUE]  BY <2>1 DEF do_net_send
  <2>4. sends' \in 0 .. MaxSends  BY <2>2, NetConstants
  <2>5. unattended' \subseteq {"recv", "send"}  BY DEF do_net_send, TypeOK
  <2>. QED  BY <2>2, <2>3, <2>4, <2>5 DEF TypeOK
<1>8. TypeOK'  BY <1>1, <1>3, <1>4, <1>6, <1>7, NetConstants DEF TypeOK, Calls, Rings
<1>9. Counting'  BY <1>1, <1>2, <1>5, <1>7, NetConstants DEF Counting, NoCall
<1>. QED  BY <1>8, <1>9

LEMMA OtherTyped ==
  ASSUME TypeOK, Counting,
         \/ FrameGoes \/ EmacPsWaitSend \/ Returns
         \/ \E mode \in {0, 1} : do_net_irq_mode(mode)
         \/ \E t \in Task : Killed(t)
         \/ UNCHANGED vars
  PROVE  TypeOK' /\ Counting'
<1>1. UNCHANGED <<ring, armed, during, rx_buffers, FramesRx, arrived, lost, sends, unattended>>
  BY DEF FrameGoes, EmacPsWaitSend, Returns, do_net_irq_mode, Killed, receiver, transmitter, vars
<1>2. /\ recv_queue' \in Seq(Task) /\ IsInjective(recv_queue')
      /\ send_queue' \in Seq(Task) /\ IsInjective(send_queue')
  <2>1. /\ recv_queue \in Seq(Task) /\ IsInjective(recv_queue)
        /\ send_queue \in Seq(Task) /\ IsInjective(send_queue)
    BY DEF TypeOK, Calls, Rings
  <2>2. ASSUME NEW t \in Task, Killed(t)
        PROVE  recv_queue' = Unlinked(recv_queue, t) /\ send_queue' = Unlinked(send_queue, t)
    BY <2>2 DEF Killed
  <2>3. CASE \E t \in Task : Killed(t)  BY <2>1, <2>2, <2>3, QueueOK
  <2>4. CASE ~ \E t \in Task : Killed(t)
    BY <2>1, <2>4 DEF FrameGoes, EmacPsWaitSend, Returns, do_net_irq_mode, queues, vars
  <2>. QED  BY <2>3, <2>4
<1>3. net_poll_mode' \in {0, 1}
  BY DEF FrameGoes, EmacPsWaitSend, Returns, do_net_irq_mode, Killed, vars, TypeOK, Calls, Rings
<1>4. \/ UNCHANGED call
      \/ call.kind = "done" /\ call' = NoCall
      \/ call.kind = "send" /\ call' = [call EXCEPT !.kind = "done"]
  BY DEF FrameGoes, EmacPsWaitSend, Returns, do_net_irq_mode, Killed, vars
<1>5. call' \in Calls
  <2>1. NoCall \in Calls  BY DEF NoCall, Calls
  <2>2. [call EXCEPT !.kind = "done"] \in Calls /\ call \in Calls  BY DEF TypeOK, Calls
  <2>. QED  BY <1>4, <2>1, <2>2
<1>6. /\ tx' \in [buffer : 0 .. MaxSends, started : BOOLEAN, complete : BOOLEAN]
      /\ tx'.buffer = tx.buffer /\ (tx'.started => tx.started)
  BY DEF FrameGoes, EmacPsWaitSend, Returns, do_net_irq_mode, Killed, vars, TypeOK, Calls, Rings, transmitter
<1>7. sent' \in Seq(1 .. MaxSends)
  <2>1. sent' = sent \/ (tx.started /\ sent' = Append(sent, tx.buffer))
    <3>1. CASE FrameGoes  BY <3>1 DEF FrameGoes
    <3>2. CASE EmacPsWaitSend  BY <3>2 DEF EmacPsWaitSend
    <3>3. CASE ~ FrameGoes /\ ~ EmacPsWaitSend
      BY <3>3 DEF Returns, do_net_irq_mode, Killed, vars, transmitter
    <3>. QED  BY <3>1, <3>2, <3>3
  <2>2. tx.started => tx.buffer \in 1 .. MaxSends
    <3>1. tx.buffer \in 0 .. MaxSends /\ MaxSends \in Nat  BY NetConstants DEF TypeOK
    <3>2. tx.started => tx.buffer > 0  BY DEF Counting
    <3>. QED  BY <3>1, <3>2
  <2>3. sent \in Seq(1 .. MaxSends)  BY DEF TypeOK
  <2>4. tx.started => Append(sent, tx.buffer) \in Seq(1 .. MaxSends)  BY <2>2, <2>3, AppendProperties
  <2>. QED  BY <2>1, <2>3, <2>4
<1>8. TypeOK'  BY <1>1, <1>2, <1>3, <1>5, <1>6, <1>7 DEF TypeOK, Calls, Rings
<1>9. Counting'
  <2>0. UNCHANGED net_poll_mode \/ (call = NoCall /\ UNCHANGED call)
    BY DEF FrameGoes, EmacPsWaitSend, Returns, do_net_irq_mode, Killed, vars
  <2>1. CASE UNCHANGED call  BY <1>1, <1>6, <2>0, <2>1 DEF Counting, ThisChunk, NoCall
  <2>2. CASE call.kind = "done" /\ call' = NoCall  BY <1>1, <1>6, <2>2 DEF Counting, NoCall
  <2>3. CASE call.kind = "send" /\ call' = [call EXCEPT !.kind = "done"]
    <3>1. call'.out = <<>> /\ call'.want = 0 /\ call'.kind = "done"  BY <2>3 DEF Counting, NoCall
    <3>. QED  BY <1>1, <1>6, <2>3, <3>1 DEF Counting
  <2>. QED  BY <1>4, <2>1, <2>2, <2>3
<1>. QED  BY <1>8, <1>9

\* Every step keeps the types.
LEMMA NextTyped == TypeOK /\ Counting /\ [Next]_vars => TypeOK' /\ Counting'
<1>. SUFFICES ASSUME TypeOK, Counting, [Next]_vars PROVE TypeOK' /\ Counting'  OBVIOUS
<1>1. CASE Kernel  BY <1>1, ArmsTyped, StartsTyped, SeesTyped, TakesTyped, OtherTyped DEF Kernel
<1>2. CASE FrameArrives  BY <1>2, ArrivesTyped
<1>3. CASE FrameGoes  BY <1>3, OtherTyped
<1>4. CASE \E t \in Task : do_net_send(t)  BY <1>4, SendTyped
<1>5. CASE \E t \in Task : Killed(t)  BY <1>5, OtherTyped
<1>6. CASE \E t \in Task : \E n \in Requests : do_net_recv(t, n)  BY <1>6, RecvTyped
<1>7. CASE \E mode \in {0, 1} : do_net_irq_mode(mode)  BY <1>7, OtherTyped
<1>8. CASE UNCHANGED vars  BY <1>8, OtherTyped
<1>. QED  BY <1>1, <1>2, <1>3, <1>4, <1>5, <1>6, <1>7, <1>8 DEF Next

-----------------------------------------------------------------------------
(* Sending. *)

LEMMA InitSending == Init => Sending
BY DEF Init, Sending, NoCall

LEMMA NextSending == TypeOK /\ Counting /\ Sending /\ [Next]_vars => Sending'
<1>. SUFFICES ASSUME TypeOK, Counting, Sending, [Next]_vars PROVE Sending'  OBVIOUS
<1>. SUFFICES ASSUME "send" \notin unattended' PROVE Sending'  BY DEF Sending
<1>1. "send" \notin unattended
  BY DEF Next, vars, Kernel, ArmsDescriptor, StartsReceiver, SeesFrame, TakesChunk, EmacPsWaitSend, Returns, FrameArrives, FrameGoes,
         do_net_send, Killed, do_net_recv, do_net_irq_mode
<1>2. sent \in Seq(1 .. MaxSends) /\ Len(sent) \in Nat /\ sends \in Nat /\ MaxSends \in Nat
  BY NetConstants DEF TypeOK
<1>3. CASE UNCHANGED <<tx, sends, sent>> /\ (call'.kind = "send" <=> call.kind = "send")
  BY <1>1, <1>3 DEF Sending
<1>4. CASE FrameGoes
  <2>1. tx.started /\ sent' = Append(sent, tx.buffer) /\ UNCHANGED <<call, sends>>
        /\ ~ tx'.started /\ tx'.complete
    BY <1>4 DEF FrameGoes, TypeOK
  <2>2. call.kind = "send" /\ sends = Len(sent) + 1 /\ tx.buffer = sends  BY <1>1, <2>1 DEF Sending
  <2>3. sent = [i \in 1 .. Len(sent) |-> i]  BY <1>1 DEF Sending
  <2>4. Len(sent') = Len(sent) + 1  BY <1>2, <2>1
  <2>5. sent' = [i \in 1 .. Len(sent') |-> i]
    <3>1. \A i \in 1 .. Len(sent) : sent[i] = i  BY <2>3
    <3>2. \A i \in 1 .. Len(sent) + 1 : sent'[i] = i  BY <1>2, <2>1, <2>2, <3>1
    <3>3. sent' \in Seq(Nat)  BY <1>2, <2>1, <2>2
    <3>. QED  BY <2>4, <3>2, <3>3
  <2>. QED  BY <2>1, <2>2, <2>4, <2>5 DEF Sending
<1>5. CASE EmacPsWaitSend
  <2>1. call.kind = "send" /\ tx.complete /\ UNCHANGED <<sends, sent>> /\ ~ tx'.complete
        /\ tx'.started = tx.started /\ call'.kind = "done"
    BY <1>5 DEF EmacPsWaitSend, TypeOK, Calls
  <2>. QED  BY <1>1, <2>1 DEF Sending
<1>6. ASSUME NEW t \in Task, do_net_send(t) PROVE Sending'
  <2>1. call = NoCall /\ sends' = sends + 1 /\ sent' = sent  BY <1>6 DEF do_net_send, MayCall
  <2>2. tx'.started /\ tx'.buffer = sends' /\ tx'.complete = tx.complete
    BY <1>6 DEF do_net_send, TypeOK
  <2>3. net_poll_mode # 1  BY <1>6 DEF do_net_send
  <2>4. call'.kind = "send"  BY <1>6, <2>3 DEF do_net_send, NoCall
  <2>5. ~ tx.complete /\ sends = Len(sent)  BY <1>1, <2>1 DEF Sending, NoCall
  <2>. QED  BY <1>1, <2>1, <2>2, <2>4, <2>5 DEF Sending
<1>7. CASE SeesFrame \/ FrameArrives \/ (\E t \in Task : Killed(t)) \/ UNCHANGED vars
           \/ \E mode \in {0, 1} : do_net_irq_mode(mode)
  BY <1>3, <1>7 DEF SeesFrame, FrameArrives, Killed, do_net_irq_mode, vars, transmitter
<1>8. CASE TakesChunk
  <2>1. call.kind = "recv" /\ call'.kind \in {"arm", "done"} /\ UNCHANGED <<tx, sends, sent>>
    BY <1>8 DEF TakesChunk, transmitter, TypeOK, Calls
  <2>. QED  BY <1>3, <2>1
<1>9. CASE Returns
  BY <1>3, <1>9 DEF Returns, transmitter, NoCall
<1>10. ASSUME NEW t \in Task, NEW n \in Requests, do_net_recv(t, n) PROVE Sending'
  BY <1>3, <1>10 DEF do_net_recv, transmitter, MayCall, NoCall
<1>11. CASE ArmsDescriptor  BY <1>3, <1>11 DEF ArmsDescriptor, transmitter
<1>12. CASE StartsReceiver
  <2>1. call.kind = "arm" /\ call'.kind \in {"none", "recv"} /\ UNCHANGED <<tx, sends, sent>>
    BY <1>12 DEF StartsReceiver, transmitter, TypeOK, Calls, NoCall
  <2>. QED  BY <1>3, <2>1
<1>. QED  BY <1>4, <1>5, <1>6, <1>7, <1>8, <1>9, <1>10, <1>11, <1>12 DEF Next, Kernel

-----------------------------------------------------------------------------
(* Receiving. *)

LEMMA InitReceiving == Init => Receiving
BY DEF Init, Receiving, RecvInOrder, NoCall


\* A call for frames finds the card at the first descriptor.
LEMMA RecvReceiving ==
  ASSUME TypeOK, Counting, Receiving, NEW t \in Task, NEW n \in Requests, do_net_recv(t, n),
         "recv" \notin unattended'
  PROVE  Receiving'
<1>1. n \in Nat \ {0} /\ Chunk(n) \in 1 .. PER_RECV  BY NetConstants, ChunkOK
<1>2. /\ call = NoCall /\ UNCHANGED <<ring, FramesRx, unattended>>
      /\ armed' = 0 /\ during' = 0
      /\ call' = [kind |-> "arm", want |-> n, out |-> <<>>]
  BY DEF do_net_recv, MayCall
<1>3. Len(call'.out) = 0 /\ call'.want = n /\ call'.kind = "arm" /\ DOMAIN call'.out = {}
  BY <1>2
<1>4. ThisChunk' = Chunk(n)  BY <1>1, <1>3 DEF ThisChunk, Chunk
<1>5. FramesRx' = 0 /\ 0 % PER_RECV = 0  BY <1>2, NetConstants DEF Counting, NoCall
<1>6. Copying(Chunk(n), 0)'  BY <1>3, <1>4, <1>5 DEF Copying
<1>7. Chunk(n) \in Nat \ {0} /\ \A i \in Desc : i \in Nat  BY <1>1, NetConstants
<1>8. ring.at = 0 /\ Before'
  <2>1. CASE ring.on
    <3>1. PICK m \in 1 .. PER_RECV, k \in 0 .. PER_RECV : InRing(m, k)
      BY <1>2, <2>1 DEF Receiving
    <3>2. k = m /\ armed = RingSize /\ Filled(m, k)  BY <1>2, <3>1 DEF InRing, NoCall
    <3>3. \A i \in Desc : ring.desc[i].used <=> i < m  BY <3>2, NetConstants DEF Filled
    <3>4. m > 0 /\ m \in 0 .. PER_RECV  BY NetConstants
    <3>. QED  BY <1>2, <2>1, <3>2, <3>3, <3>4 DEF Filled, Before
  <2>2. CASE ~ ring.on
    <3>1. ring.at = 0 /\ \A i \in Desc : ~ ring.desc[i].used
      BY <1>2, <2>2 DEF Receiving, NoCall
    <3>2. \A i \in Desc : ~ (i < 0)  BY <1>7
    <3>3. 0 \in 0 .. PER_RECV /\ ~ (0 > 0)  BY NetConstants
    <3>. QED  BY <1>2, <2>2, <3>1, <3>2, <3>3 DEF Before
  <2>. QED  BY <2>1, <2>2
<1>9. Filled(Chunk(n), 0)'  BY <1>2, <1>7, <1>8 DEF Filled
<1>10. InRing(Chunk(n), 0)' /\ 0 \in 0 .. PER_RECV
  BY <1>2, <1>3, <1>6, <1>7, <1>8, <1>9, NetConstants DEF InRing
<1>11. RecvInOrder'  BY <1>3 DEF RecvInOrder
<1>12. \A i \in Desc : ring'.desc[i].used => ring'.desc[i].buffer  BY <1>2 DEF Receiving
<1>. QED  BY <1>1, <1>3, <1>10, <1>11, <1>12 DEF Receiving

\* The kernel writes the next descriptor, behind what the card has filled.
LEMMA ArmsReceiving ==
  ASSUME MaxDuring <= 1, TypeOK, Counting, Receiving, ArmsDescriptor, "recv" \notin unattended
  PROVE  Receiving'
<1>1. /\ call.kind = "arm" /\ armed' = armed + 1
      /\ UNCHANGED <<call, during, rx_buffers, FramesRx, arrived, unattended, ThisChunk>>
  BY DEF ArmsDescriptor, ThisChunk
<1>2. PICK n \in 1 .. PER_RECV, k \in 0 .. PER_RECV : InRing(n, k)
  BY <1>1 DEF Receiving
<1>3. /\ k <= n /\ Filled(n, k) /\ Copying(n, k) /\ Before /\ k <= during /\ n = ThisChunk
      /\ (k > 0 => armed > 0 /\ ring.on)
  BY <1>1, <1>2 DEF InRing, Copying
<1>4. n \in Nat /\ k \in Nat /\ armed \in Nat /\ armed \in Desc /\ \A i \in Desc : i \in Nat
  BY ArmsOK, NetConstants
<1>5. k <= armed
  <2>1. during <= 1 /\ during \in Nat  BY NetConstants DEF TypeOK
  <2>. QED  BY <1>3, <1>4, <2>1
<1>6. Filled(n, k)'
  <2>1. \A i \in Desc : i < armed' => /\ ring'.desc[i].wrap <=> i >= n - 1
                                      /\ ring'.desc[i].buffer <=> i < n
                                      /\ ring'.desc[i].used <=> i < k
    <3>1. ASSUME NEW i \in Desc, i < armed, i # armed
          PROVE  /\ ring'.desc[i].wrap <=> i >= n - 1
                 /\ ring'.desc[i].buffer <=> i < n
                 /\ ring'.desc[i].used <=> i < k
      <4>1. ring'.desc[i] = ring.desc[i]  BY <3>1, ArmsOK
      <4>. QED  BY <1>3, <3>1, <4>1 DEF Filled
    <3>2. /\ ring'.desc[armed].wrap <=> armed >= n - 1
          /\ ring'.desc[armed].buffer <=> armed < n
          /\ ring'.desc[armed].used <=> armed < k
      BY <1>3, <1>4, <1>5, ArmsOK
    <3>3. \A i \in Desc : i < armed + 1 => i = armed \/ (i < armed /\ i # armed)  BY <1>4
    <3>. QED  BY <1>1, <3>1, <3>2, <3>3
  <2>2. \A i \in Desc : i < k => ring'.desc[i] = ring.desc[i]  BY <1>4, <1>5, ArmsOK
  <2>3. \A i, j \in Desc : j = i + 1 /\ j < k => i < k  BY <1>4
  <2>4. \A i \in Desc : k = i + 1 => i < k  BY <1>4
  <2>. QED  BY <1>1, <1>3, <2>1, <2>2, <2>3, <2>4, ArmsOK DEF Filled
<1>7. Before'
  <2>1. \A i \in Desc : i >= armed' => i >= armed /\ ring'.desc[i] = ring.desc[i]
    BY <1>1, <1>4, ArmsOK
  <2>. QED  BY <1>3, <2>1, ArmsOK DEF Before
<1>8. Copying(n, k)'
  <2>1. k > 0 => ring'.desc[0] = ring.desc[0]  BY <1>3, <1>4, NetConstants, ArmsOK
  <2>. QED  BY <1>1, <1>3, <2>1 DEF Copying
<1>9. InRing(n, k)'  BY <1>1, <1>3, <1>4, <1>6, <1>7, <1>8, ArmsOK DEF InRing
<1>10. \A i \in Desc : ring'.desc[i].used => ring'.desc[i].buffer
  BY ArmsOK DEF Receiving
<1>11. RecvInOrder'  BY <1>1 DEF Receiving, RecvInOrder
<1>. QED  BY <1>1, <1>9, <1>10, <1>11 DEF Receiving

\* With the whole ring written the receiver is on, from the first descriptor.
LEMMA StartsReceiving ==
  ASSUME TypeOK, Counting, Receiving, StartsReceiver, "recv" \notin unattended
  PROVE  Receiving'
<1>1. /\ call.kind = "arm" /\ armed = RingSize /\ net_poll_mode # 1
      /\ UNCHANGED <<armed, during, rx_buffers, FramesRx, arrived, unattended>>
      /\ call' = [call EXCEPT !.kind = "recv"]
  BY DEF StartsReceiver, Counting
<1>2. call'.kind = "recv" /\ call'.out = call.out /\ call'.want = call.want /\ ThisChunk' = ThisChunk
  BY <1>1 DEF ThisChunk, TypeOK, Calls
<1>3. PICK n \in 1 .. PER_RECV, k \in 0 .. PER_RECV : InRing(n, k)
  BY <1>1 DEF Receiving
<1>4. k <= n /\ Filled(n, k) /\ Copying(n, k)  BY <1>1, <1>3 DEF InRing
<1>5. ring.on \/ ring.at = 0
  <2>1. CASE ~ ring.on /\ k = 0
    <3>1. n # 0  BY NetConstants
    <3>. QED  BY <1>4, <2>1, <3>1 DEF Filled
  <2>2. CASE ~ ring.on /\ k # 0
    <3>1. k > 0  BY <2>2, NetConstants
    <3>. QED  BY <1>1, <1>3, <2>2, <3>1 DEF InRing
  <2>. QED  BY <2>1, <2>2
<1>6. ring'.on /\ ring'.at = ring.at /\ ring'.desc = ring.desc
  BY <1>5 DEF StartsReceiver, TypeOK, Rings
<1>7. Filled(n, k)'  BY <1>1, <1>4, <1>6 DEF Filled
<1>8. Copying(n, k)'  BY <1>1, <1>2, <1>4, <1>6 DEF Copying
<1>9. InRing(n, k)'  BY <1>1, <1>2, <1>4, <1>6, <1>7, <1>8 DEF InRing
<1>10. RecvInOrder'  BY <1>1, <1>2 DEF Receiving, RecvInOrder
<1>. QED  BY <1>6, <1>9, <1>10 DEF Receiving

\* The kernel counts no frame the card has not written.
LEMMA SeesReceiving ==
  ASSUME TypeOK, Counting, Receiving, SeesFrame, "recv" \notin unattended
  PROVE  Receiving'
<1>1. UNCHANGED <<call, ring, armed, during, rx_buffers, arrived, unattended, ThisChunk>>
  BY DEF SeesFrame, ThisChunk
<1>2. call.kind = "recv" /\ ring.desc[FramesRx].used /\ FramesRx' = FramesRx + 1  BY DEF SeesFrame
<1>3. PICK n \in 1 .. PER_RECV, k \in 0 .. PER_RECV : InRing(n, k)
  BY <1>2 DEF Receiving
<1>4. k <= n /\ Filled(n, k) /\ Copying(n, k) /\ armed = RingSize /\ ring.on  BY <1>2, <1>3 DEF InRing
<1>5. n \in Nat /\ k \in Nat /\ FramesRx \in Desc /\ FramesRx < RingSize  BY NetConstants DEF TypeOK
<1>6. FramesRx < k  BY <1>2, <1>4, <1>5 DEF Filled
<1>7. FramesRx' <= k  BY <1>2, <1>5, <1>6, NetConstants
<1>8. Filled(n, k)'  BY <1>1, <1>4 DEF Filled
<1>9. Copying(n, k)'  BY <1>1, <1>4, <1>7 DEF Copying
<1>10. RecvInOrder'  BY <1>1 DEF Receiving, RecvInOrder
<1>11. InRing(n, k)'  BY <1>1, <1>2, <1>4, <1>8, <1>9 DEF InRing
<1>. QED  BY <1>1, <1>4, <1>10, <1>11 DEF Receiving

\* The card fills the next descriptor, or drops the frame.
LEMMA DropsReceiving ==
  ASSUME MaxDuring <= 1, TypeOK, Counting, Receiving, FrameArrives, "recv" \notin unattended, ~ Takes
  PROVE  Receiving'
<1>1. UNCHANGED <<call, armed, FramesRx, unattended, ThisChunk, ring, rx_buffers>>
  BY DEF FrameArrives, ThisChunk
<1>2. RecvInOrder'  BY <1>1 DEF Receiving, RecvInOrder
<1>3. arrived \in Nat /\ arrived' \in {arrived, arrived + 1}  BY DEF FrameArrives, TypeOK
<1>4. CASE ~ (ring.on \/ call.kind = "arm")  BY <1>1, <1>2, <1>4 DEF Receiving
<1>5. CASE ring.on \/ call.kind = "arm"
  <2>1. PICK n \in 1 .. PER_RECV, k \in 0 .. PER_RECV : InRing(n, k)
    BY <1>5 DEF Receiving
  <2>2. n \in Nat /\ k \in Nat /\ n <= PER_RECV /\ n # 0 /\ \A i \in Desc : i \in Nat
    BY NetConstants
  <2>3. k = n \/ k = 0
    <3>1. CASE call.kind = "arm"
      <4>1. during = 0  BY <3>1, DuringOK, NetConstants
      <4>. QED  BY <2>1, <2>2, <3>1, <4>1 DEF InRing
    <3>2. CASE call.kind # "arm"
      <4>1. ring.on /\ armed = RingSize /\ k <= n /\ Filled(n, k)  BY <1>5, <2>1, <3>2 DEF InRing
      <4>2. ring.desc[ring.at].used /\ ring.at \in Desc /\ ring.at < RingSize
        BY <4>1, NetConstants DEF Takes, TypeOK, Rings
      <4>3. ring.at < k  BY <4>1, <4>2 DEF Filled
      <4>. QED  BY <2>2, <4>1, <4>3 DEF Filled
    <3>. QED  BY <3>1, <3>2
  <2>4. \A i \in Desc : ring.desc[i].len \in Nat  BY DEF TypeOK, Rings
  <2>5. Filled(n, k)'
    <3>1. \A i \in Desc : ~ (k = i + 1 /\ k < n)  BY <2>2, <2>3
    <3>2. Filled(n, k)  BY <2>1 DEF InRing
    <3>3. \A i \in Desc : ring.desc[i].len \in 1 .. arrived => ring.desc[i].len \in 1 .. arrived'
      BY <1>3, <2>4
    <3>. QED  BY <1>1, <3>1, <3>2, <3>3 DEF Filled
  <2>6. Copying(n, k) => Copying(n, k)'
    <3>1. \A i \in DOMAIN call.out : call.out[i][1] \in Nat  BY DEF TypeOK, Calls
    <3>. QED  BY <1>1, <1>3, <3>1 DEF Copying
  <2>7. Before => Before'  BY <1>1 DEF Before
  <2>8. k <= during => k <= during'  BY <2>2, DuringOK, NetConstants
  <2>9. InRing(n, k)'  BY <1>1, <2>1, <2>5, <2>6, <2>7, <2>8 DEF InRing
  <2>. QED  BY <1>1, <1>2, <1>5, <2>9 DEF Receiving
<1>. QED  BY <1>4, <1>5

LEMMA ArrivesReceiving ==
  ASSUME MaxDuring <= 1, TypeOK, Counting, Receiving, FrameArrives, "recv" \notin unattended, Takes
  PROVE  Receiving'
<1>1. UNCHANGED <<call, armed, FramesRx, unattended, ThisChunk>>  BY DEF FrameArrives, ThisChunk
<1>2. RecvInOrder'  BY <1>1 DEF Receiving, RecvInOrder
<1>3. arrived \in Nat /\ arrived' = arrived + 1  BY DEF FrameArrives, TypeOK
<1>4. ring.on /\ ~ ring.desc[ring.at].used /\ ring.at \in Desc  BY DEF Takes, TypeOK, Rings
<1>5. PICK n \in 1 .. PER_RECV, k \in 0 .. PER_RECV : InRing(n, k)
  BY <1>4 DEF Receiving
<1>6. n \in Nat /\ k \in Nat /\ n # 0 /\ n <= PER_RECV /\ k <= n /\ PER_RECV \in Nat
      /\ Filled(n, k) /\ armed \in 0 .. RingSize /\ \A i \in Desc : i \in Nat /\ i < RingSize
  <2>1. k <= n /\ Filled(n, k)  BY <1>5 DEF InRing
  <2>2. armed \in 0 .. RingSize  BY DEF TypeOK
  <2>. QED  BY <2>1, <2>2, NetConstants
\* It finds room where the kernel has written the ring, but for what it filled.
<1>7. k < n /\ ring.at = k /\ k < armed
  <2>1. CASE call.kind = "arm"
    <3>1. during = 0 /\ k <= during  BY <1>5, <2>1, DuringOK, NetConstants DEF InRing
    <3>2. k = 0 /\ k < n  BY <1>6, <3>1
    <3>3. ring.at = 0  BY <1>6, <3>2 DEF Filled
    <3>4. armed # 0
      <4>. SUFFICES ASSUME armed = 0 PROVE FALSE  OBVIOUS
      <4>1. PICK m \in 0 .. PER_RECV :
               (ring.on <=> m > 0) /\ \A i \in Desc : i >= armed => (ring.desc[i].used <=> i < m)
        BY <1>5, <2>1 DEF InRing, Before
      <4>. QED  BY <1>4, <1>6, <3>3, <4>1
    <3>. QED  BY <1>6, <3>2, <3>3, <3>4
  <2>2. CASE call.kind # "arm"
    <3>1. armed = RingSize  BY <1>5, <2>2 DEF InRing
    <3>2. ring.at >= k  BY <1>4, <1>6, <3>1 DEF Filled
    <3>. QED  BY <1>4, <1>6, <3>1, <3>2 DEF Filled
  <2>. QED  BY <2>1, <2>2
<1>8. k \in Desc /\ k + 1 \in 0 .. n /\ ring.desc[k].buffer /\ (ring.desc[k].wrap <=> k >= n - 1)
  BY <1>4, <1>6, <1>7 DEF Filled
<1>9. /\ rx_buffers' = [rx_buffers EXCEPT ![k] = arrived + 1]
      /\ ring' = [ring EXCEPT !.desc[k] = [@ EXCEPT !.used = TRUE, !.len = arrived + 1],
                              !.at = IF ring.desc[k].wrap THEN 0 ELSE @ + 1]
  BY <1>7, <1>8 DEF FrameArrives
<1>10. /\ ring'.on /\ ring'.at = IF k + 1 = n THEN 0 ELSE k + 1
       /\ rx_buffers'[k] = arrived + 1 /\ ring'.desc[k].used /\ ring'.desc[k].len = arrived + 1
       /\ (ring'.desc[k].wrap <=> k >= n - 1) /\ ring'.desc[k].buffer
  <2>1. ring.desc[k].wrap <=> k + 1 = n  BY <1>6, <1>7, <1>8
  <2>. QED  BY <1>4, <1>7, <1>8, <1>9, <2>1 DEF TypeOK, Rings
<1>11. \A i \in Desc \ {k} : rx_buffers'[i] = rx_buffers[i] /\ ring'.desc[i] = ring.desc[i]
  BY <1>8, <1>9 DEF TypeOK, Rings
<1>12. \A i \in Desc : ring.desc[i].len \in Nat  BY DEF TypeOK, Rings
<1>13. Filled(n, k + 1)'
  <2>1. \A i \in Desc : i < armed => /\ ring'.desc[i].wrap <=> i >= n - 1
                                     /\ ring'.desc[i].buffer <=> i < n
                                     /\ ring'.desc[i].used <=> i < k + 1
    <3>1. \A i \in Desc \ {k} : i < armed => /\ ring'.desc[i].wrap <=> i >= n - 1
                                             /\ ring'.desc[i].buffer <=> i < n
                                             /\ ring'.desc[i].used <=> i < k + 1
      BY <1>6, <1>11 DEF Filled
    <3>. QED  BY <1>6, <1>7, <1>10, <3>1
  <2>2. \A i \in Desc : i < k + 1 => /\ rx_buffers'[i] = ring'.desc[i].len
                                     /\ ring'.desc[i].len \in 1 .. arrived'
    BY <1>3, <1>6, <1>10, <1>11, <1>12 DEF Filled
  <2>3. ASSUME NEW i \in Desc, NEW j \in Desc, j = i + 1, j < k + 1
        PROVE  ring'.desc[j].len = ring'.desc[i].len + 1
    <3>1. CASE j < k  BY <1>6, <1>11, <2>3, <3>1 DEF Filled
    <3>2. CASE j = k
      <4>1. k = i + 1 /\ i # k  BY <1>6, <2>3, <3>2
      <4>2. ring.desc[i].len = arrived /\ ring'.desc[i] = ring.desc[i]
        BY <1>6, <1>7, <1>11, <4>1 DEF Filled
      <4>. QED  BY <1>10, <3>2, <4>2
    <3>. QED  BY <1>6, <2>3, <3>1, <3>2
  <2>4. \A i \in Desc : k + 1 = i + 1 /\ k + 1 < n => ring'.desc[i].len = arrived'
    BY <1>3, <1>6, <1>10
  <2>. QED  BY <1>1, <1>10, <2>1, <2>2, <2>3, <2>4 DEF Filled
<1>14. call.kind \in {"arm", "recv"} /\ Copying(n, k)
  BY <1>5, <1>6, <1>7 DEF InRing
<1>15. Copying(n, k + 1)'
  <2>1. \A i \in DOMAIN call.out : call.out[i][1] \in Nat  BY DEF TypeOK, Calls
  <2>2. 0 \in Desc  BY NetConstants
  <2>3. ASSUME NEW i \in DOMAIN call.out
        PROVE  call.out[i][1] <= arrived' /\ call.out[i][1] < ring'.desc[0].len
    <3>1. call.out[i][1] <= arrived  BY <1>14 DEF Copying
    <3>2. CASE k = 0  BY <1>3, <1>10, <2>1, <3>1, <3>2
    <3>3. CASE k > 0  BY <1>3, <1>11, <1>14, <2>1, <2>2, <3>1, <3>3 DEF Copying
    <3>. QED  BY <1>6, <3>2, <3>3
  <2>4. FramesRx <= k + 1  BY <1>6, <1>14, NetConstants DEF Copying, TypeOK
  <2>. QED  BY <1>1, <1>14, <2>3, <2>4 DEF Copying
<1>16. InRing(n, k + 1)' /\ k + 1 \in 0 .. PER_RECV
  <2>1. k + 1 <= n /\ k + 1 \in 0 .. PER_RECV  BY <1>6, <1>7
  <2>2. CASE call.kind = "arm"
    <3>1. during = 0 /\ during' = 1 /\ k <= during  BY <1>5, <2>2, DuringOK, NetConstants DEF InRing
    <3>2. k + 1 <= during' /\ armed > 0  BY <1>6, <1>7, <3>1
    <3>3. Before'
      <4>1. Before /\ \A i \in Desc : i >= armed => ring'.desc[i] = ring.desc[i]
        BY <1>5, <1>6, <1>7, <1>11, <2>2 DEF InRing
      <4>. QED  BY <1>1, <1>4, <1>10, <4>1 DEF Before
    <3>. QED  BY <1>1, <1>10, <1>13, <1>15, <2>1, <2>2, <3>2, <3>3 DEF InRing
  <2>3. CASE call.kind = "recv"
    <3>1. armed = RingSize  BY <1>5, <2>3 DEF InRing
    <3>. QED  BY <1>1, <1>10, <1>13, <1>15, <2>1, <2>3, <3>1 DEF InRing
  <2>. QED  BY <1>14, <2>2, <2>3
<1>17. \A i \in Desc : ring'.desc[i].used => ring'.desc[i].buffer  BY <1>10, <1>11 DEF Receiving
<1>. QED  BY <1>2, <1>10, <1>16, <1>17 DEF Receiving

\* A chunk is copied when the card is back at the first descriptor.
LEMMA TakesReceiving ==
  ASSUME TypeOK, Counting, Receiving, TakesChunk, "recv" \notin unattended
  PROVE  Receiving'
<1>1. /\ call.kind = "recv" /\ FramesRx = ThisChunk /\ FramesRx' = 0
      /\ UNCHANGED <<ring, rx_buffers, arrived, unattended>>
  BY DEF TakesChunk
<1>2. PICK n \in 1 .. PER_RECV, k \in 0 .. PER_RECV : InRing(n, k)
  BY <1>1 DEF Receiving
<1>3. k <= n /\ Filled(n, k) /\ Copying(n, k) /\ armed = RingSize /\ ring.on  BY <1>1, <1>2 DEF InRing
<1>4. /\ Len(call.out) \in Nat /\ call.want \in Nat
      /\ ThisChunk \in 1 .. PER_RECV /\ Len(call.out) + ThisChunk <= call.want
      /\ Len(call.out) + ThisChunk # call.want => ThisChunk = PER_RECV
  BY <1>1, ThisChunkOK
<1>5. k = n /\ n = ThisChunk /\ n \in Nat /\ n # 0 /\ PER_RECV \in Nat /\ n <= PER_RECV
  BY <1>1, <1>3, NetConstants DEF Copying
<1>6. ring.at = 0 /\ ring.on  BY <1>3, <1>5 DEF Filled
<1>. DEFINE m == Len(call.out)
<1>7. /\ Copied \in Seq(Nat \X Nat) /\ Len(Copied) = m + n
      /\ \A i \in 1 .. m : Copied[i] = call.out[i]
      /\ \A i \in 1 .. n : Copied[m + i] = <<rx_buffers[i - 1], ring.desc[i - 1].len>>
  BY <1>1, <1>5, CopiedOK
<1>8. m \in Nat /\ DOMAIN call.out = 1 .. m /\ DOMAIN Copied = 1 .. m + n
      /\ \A i \in 1 .. m : call.out[i] \in Nat \X Nat
  BY <1>4, <1>5, <1>7 DEF TypeOK, Calls
<1>. HIDE DEF m
\* What the chunk adds.
<1>9. \A i \in 1 .. n : i - 1 \in Desc /\ i - 1 < k /\ ring.desc[i - 1].len \in Nat
  <2>1. \A i \in 1 .. n : i - 1 \in Desc /\ i - 1 < k  BY <1>5, NetConstants
  <2>. QED  BY <2>1 DEF TypeOK, Rings
<1>10. \A i \in 1 .. n : /\ Copied[m + i][1] = Copied[m + i][2] /\ Copied[m + i][1] = ring.desc[i - 1].len
                        /\ Copied[m + i][1] \in 1 .. arrived
  <2>1. ASSUME NEW i \in 1 .. n
        PROVE  rx_buffers[i - 1] = ring.desc[i - 1].len /\ ring.desc[i - 1].len \in 1 .. arrived
    BY <1>3, <1>9, <2>1 DEF Filled
  <2>2. ASSUME NEW i \in 1 .. n
        PROVE  Copied[m + i][1] = rx_buffers[i - 1] /\ Copied[m + i][2] = ring.desc[i - 1].len
    <3>1. Copied[m + i] = <<rx_buffers[i - 1], ring.desc[i - 1].len>>  BY <1>7, <2>2
    <3>. HIDE DEF Copied
    <3>. QED  BY <3>1
  <2>. QED  BY <2>1, <2>2
<1>11. \A i \in 1 .. n - 1 : Copied[m + (i + 1)][1] = Copied[m + i][1] + 1
  <2>1. ASSUME NEW i \in 1 .. n - 1
        PROVE  Copied[m + (i + 1)][1] = Copied[m + i][1] + 1
    <3>1. i \in 1 .. n /\ i + 1 \in 1 .. n /\ (i + 1) - 1 = (i - 1) + 1 /\ i \in Nat  BY <1>5
    <3>2. Copied[m + (i + 1)][1] = ring.desc[(i + 1) - 1].len /\ Copied[m + i][1] = ring.desc[i - 1].len
      BY <1>10, <3>1
    <3>3. ring.desc[(i + 1) - 1].len = ring.desc[i - 1].len + 1
      BY <1>3, <1>9, <3>1 DEF Filled
    <3>. QED  BY <3>2, <3>3
  <2>. QED  BY <2>1
<1>12. \A i \in 1 .. m : /\ Copied[i][1] = Copied[i][2] /\ Copied[i][1] > 0 /\ Copied[i][1] \in Nat
                        /\ Copied[i][1] <= arrived /\ Copied[i][1] < Copied[m + 1][1]
  <2>1. ASSUME NEW i \in 1 .. m
        PROVE  /\ call.out[i][1] = call.out[i][2] /\ call.out[i][1] > 0
               /\ call.out[i][1] <= arrived /\ call.out[i][1] < ring.desc[0].len
    <3>1. i \in DOMAIN call.out  BY <1>8
    <3>2. call.out[i][1] = call.out[i][2] /\ call.out[i][1] > 0
      BY <3>1 DEF Receiving, RecvInOrder
    <3>. QED  BY <1>3, <1>5, <3>1, <3>2 DEF Copying
  <2>2. Copied[m + 1][1] = ring.desc[0].len
    <3>1. 1 \in 1 .. n /\ 1 - 1 = 0  BY <1>5
    <3>. QED  BY <1>10, <3>1
  <2>. QED  BY <1>7, <1>8, <2>1, <2>2
<1>13. m % PER_RECV = 0  BY <1>3 DEF Copying, m
<1>14. \A i \in 1 .. m + n - 1 :
         IF i % PER_RECV = 0 THEN Copied[i][1] < Copied[i + 1][1]
         ELSE Copied[i + 1][1] = Copied[i][1] + 1
  <2>1. ASSUME NEW i \in 1 .. m + n - 1
        PROVE  IF i % PER_RECV = 0 THEN Copied[i][1] < Copied[i + 1][1]
               ELSE Copied[i + 1][1] = Copied[i][1] + 1
    <3>1. CASE i < m
      <4>1. i \in 1 .. m - 1 /\ i \in 1 .. m /\ i + 1 \in 1 .. m  BY <1>5, <1>8, <3>1
      <4>2. Copied[i] = call.out[i] /\ Copied[i + 1] = call.out[i + 1]  BY <1>7, <4>1
      <4>3. i \in 1 .. (Len(call.out) - 1)  BY <4>1 DEF m
      <4>4. IF i % PER_RECV = 0 THEN call.out[i][1] < call.out[i + 1][1]
            ELSE call.out[i + 1][1] = call.out[i][1] + 1
        BY <4>3 DEF Receiving, RecvInOrder
      <4>. QED  BY <4>2, <4>4
    <3>2. CASE i = m
      <4>1. i \in 1 .. m  BY <3>2, <1>8
      <4>. QED  BY <1>12, <1>13, <3>2, <4>1
    <3>3. CASE i > m
      <4>1. i - m \in 1 .. n - 1 /\ i - m \in 1 .. n /\ m + (i - m) = i /\ m + ((i - m) + 1) = i + 1
            /\ i - m + 1 \in 1 .. n
        BY <1>5, <1>8, <3>3
      <4>2. Copied[i + 1][1] = Copied[i][1] + 1  BY <1>11, <4>1
      <4>3. Copied[i][1] \in Nat  BY <1>10, <4>1
      <4>. QED  BY <4>2, <4>3
    <3>. QED  BY <1>5, <1>8, <3>1, <3>2, <3>3
  <2>. QED  BY <2>1
<1>15. \A i \in 1 .. m + n : /\ Copied[i][1] = Copied[i][2] /\ Copied[i][1] > 0
                             /\ Copied[i][1] <= arrived
  <2>1. ASSUME NEW i \in 1 .. m + n
        PROVE  Copied[i][1] = Copied[i][2] /\ Copied[i][1] > 0 /\ Copied[i][1] <= arrived
    <3>1. CASE i <= m  BY <1>8, <1>12, <3>1
    <3>2. CASE i > m
      <4>1. i - m \in 1 .. n /\ m + (i - m) = i  BY <1>5, <1>8, <3>2
      <4>2. arrived \in Nat  BY DEF TypeOK
      <4>. QED  BY <1>10, <4>1, <4>2
    <3>. QED  BY <1>5, <1>8, <3>1, <3>2
  <2>. QED  BY <2>1
<1>16. call'.out = Copied /\ call'.want = call.want
       /\ call'.kind = IF m + n < call.want THEN "arm" ELSE "done"
  BY <1>7 DEF TakesChunk, TypeOK, Calls
<1>17. RecvInOrder'
  <2>1. call'.kind = "done" => Len(call'.out) = call'.want
    BY <1>4, <1>5, <1>7, <1>16 DEF m
  <2>2. \A i \in DOMAIN call'.out : call'.out[i][1] = call'.out[i][2] /\ call'.out[i][1] > 0
    BY <1>8, <1>15, <1>16
  <2>3. \A i \in 1 .. (Len(call'.out) - 1) :
          IF i % PER_RECV = 0 THEN call'.out[i][1] < call'.out[i + 1][1]
          ELSE call'.out[i + 1][1] = call'.out[i][1] + 1
    <3>1. call'.out = Copied /\ Len(Copied) = m + n  BY <1>7, <1>16
    <3>2. Len(call'.out) - 1 = m + n - 1  BY <1>5, <1>8, <3>1
    <3>3. ASSUME NEW i \in 1 .. m + n - 1
          PROVE  IF i % PER_RECV = 0 THEN call'.out[i][1] < call'.out[i + 1][1]
                 ELSE call'.out[i + 1][1] = call'.out[i][1] + 1
      <4>1. CASE i % PER_RECV = 0
        <5>1. Copied[i][1] < Copied[i + 1][1]  BY <1>14, <4>1
        <5>. QED  BY <3>1, <4>1, <5>1
      <4>2. CASE i % PER_RECV # 0
        <5>1. Copied[i + 1][1] = Copied[i][1] + 1  BY <1>14, <4>2
        <5>. QED  BY <3>1, <4>2, <5>1
      <4>. QED  BY <4>1, <4>2
    <3>. QED  BY <3>2, <3>3
  <2>. QED  BY <2>1, <2>2, <2>3 DEF RecvInOrder
<1>18. \A i \in Desc : ring'.desc[i].used => ring'.desc[i].buffer  BY <1>1 DEF Receiving
<1>19. CASE m + n < call.want
  <2>1. call.want - (m + n) \in Nat \ {0} /\ n = PER_RECV  BY <1>4, <1>5, <1>8, <1>19 DEF m
  <2>2. PICK c \in 1 .. PER_RECV : c = Chunk(call.want - (m + n))  BY <2>1, ChunkOK
  <2>3. armed' = 0 /\ during' = 0 /\ call'.kind = "arm"  BY <1>7, <1>16, <1>19 DEF TakesChunk
  <2>4. c \in Nat /\ c # 0 /\ \A i \in Desc : i \in Nat /\ i < RingSize  BY NetConstants
  <2>5. Filled(c, 0)'  BY <1>1, <1>6, <2>3, <2>4 DEF Filled
  <2>6. Before'
    <3>1. \A i \in Desc : ring.desc[i].used <=> i < n  BY <1>3, <1>5, <2>4 DEF Filled
    <3>2. n > 0 /\ n \in 0 .. PER_RECV  BY <1>5
    <3>. QED  BY <1>1, <1>6, <3>1, <3>2 DEF Before
  <2>7. Copying(c, 0)'
    <3>1. ThisChunk' = c
      <4>1. ThisChunk' = Chunk(call'.want - Len(call'.out))  BY DEF ThisChunk, Chunk
      <4>2. call'.want - Len(call'.out) = call.want - (m + n)  BY <1>7, <1>16
      <4>. QED  BY <2>2, <4>1, <4>2
    <3>2. Len(call'.out) % PER_RECV = 0
      <4>1. (m + PER_RECV) % PER_RECV = 0  BY <1>8, <1>13, OneChunkMore, NetConstants
      <4>. QED  BY <1>7, <1>16, <2>1, <4>1
    <3>. QED  BY <1>1, <1>8, <1>15, <1>16, <3>1, <3>2 DEF Copying
  <2>8. InRing(c, 0)' /\ 0 \in 0 .. PER_RECV
    BY <2>3, <2>4, <2>5, <2>6, <2>7, NetConstants DEF InRing
  <2>. QED  BY <1>17, <1>18, <2>3, <2>8 DEF Receiving
<1>20. CASE ~ (m + n < call.want)
  <2>1. call'.kind = "done" /\ UNCHANGED armed  BY <1>7, <1>16, <1>20 DEF TakesChunk
  <2>2. Filled(n, k)'  BY <1>1, <1>3, <2>1 DEF Filled
  <2>3. InRing(n, k)'  BY <1>1, <1>3, <1>5, <2>1, <2>2 DEF InRing
  <2>. QED  BY <1>1, <1>6, <1>17, <1>18, <2>1, <2>3 DEF Receiving
<1>. QED  BY <1>19, <1>20

LEMMA OtherReceiving ==
  ASSUME TypeOK, Counting, Receiving, "recv" \notin unattended,
         UNCHANGED <<ring, armed, during, rx_buffers, FramesRx, arrived>>,
         \/ UNCHANGED call
         \/ {call.kind, call'.kind} \cap {"arm", "recv"} = {} /\ call'.out = <<>> /\ call'.want = 0
  PROVE  Receiving'
<1>1. RecvInOrder'  BY DEF Receiving, RecvInOrder
<1>2. \A n, k : Filled(n, k) => Filled(n, k)'  BY DEF Filled
<1>3. \A n, k : call' = call /\ Copying(n, k) => Copying(n, k)'  BY DEF Copying, ThisChunk
<1>4. \A n, k : InRing(n, k) => InRing(n, k)'  BY <1>2, <1>3 DEF InRing, Before
<1>. QED  BY <1>1, <1>4 DEF Receiving

LEMMA NextReceiving ==
  ASSUME MaxDuring <= 1, TypeOK, Counting, Receiving, [Next]_vars
  PROVE  Receiving'
<1>. SUFFICES ASSUME "recv" \notin unattended' PROVE Receiving'  BY DEF Receiving
<1>1. "recv" \notin unattended
  BY DEF Next, vars, Kernel, ArmsDescriptor, StartsReceiver, SeesFrame, TakesChunk, EmacPsWaitSend, Returns, FrameArrives, FrameGoes,
         do_net_send, Killed, do_net_recv, do_net_irq_mode
<1>2. CASE ArmsDescriptor \/ StartsReceiver \/ SeesFrame \/ TakesChunk \/ FrameArrives
  BY <1>1, <1>2, ArmsReceiving, StartsReceiving, SeesReceiving, TakesReceiving, DropsReceiving,
     ArrivesReceiving
<1>3. CASE FrameGoes \/ (\E t \in Task : Killed(t)) \/ (\E mode \in {0, 1} : do_net_irq_mode(mode))
           \/ UNCHANGED vars
  BY <1>1, <1>3, OtherReceiving DEF FrameGoes, Killed, do_net_irq_mode, vars, receiver
<1>4. CASE EmacPsWaitSend
  <2>1. call = [NoCall EXCEPT !.kind = "send"] /\ call' = [call EXCEPT !.kind = "done"]
        /\ UNCHANGED <<ring, armed, during, rx_buffers, FramesRx, arrived>>
    BY <1>4 DEF EmacPsWaitSend, Counting, receiver
  <2>. QED  BY <1>1, <2>1, OtherReceiving DEF NoCall
<1>5. CASE Returns
  BY <1>1, <1>5, OtherReceiving DEF Returns, receiver, NoCall
<1>6. ASSUME NEW t \in Task, do_net_send(t) PROVE Receiving'
  <2>1. call = NoCall /\ call' \in {NoCall, [NoCall EXCEPT !.kind = "send"]}
        /\ UNCHANGED <<ring, armed, during, rx_buffers, FramesRx, arrived>>
    BY <1>6 DEF do_net_send, MayCall, receiver
  <2>. QED  BY <1>1, <2>1, OtherReceiving DEF NoCall
<1>7. ASSUME NEW t \in Task, NEW n \in Requests, do_net_recv(t, n) PROVE Receiving'
  BY <1>7, RecvReceiving
<1>. QED  BY <1>2, <1>3, <1>4, <1>5, <1>6, <1>7 DEF Next, Kernel

-----------------------------------------------------------------------------
(* The theorems. *)

LEMMA Invariant == Spec => []IInv
<1>1. Init => IInv  BY InitTyped, InitSending DEF IInv
<1>2. IInv /\ [Next]_vars => IInv'  BY NextTyped, NextSending DEF IInv
<1>. QED  BY <1>1, <1>2, PTL DEF Spec

LEMMA ReceivingInvariant ==
  ASSUME MaxDuring <= 1
  PROVE  Spec => []Receiving
<1>1. Init => Receiving  BY InitReceiving
<1>2. IInv /\ Receiving /\ [Next]_vars => Receiving'  BY NextReceiving DEF IInv
<1>. QED  BY <1>1, <1>2, Invariant, PTL DEF Spec

\* The variables of the network calls have their types, in both modes and
\* however many frames arrive while EmacPsRecv writes the ring.
THEOREM NetTyped == Spec => []TypeOK
<1>1. IInv => TypeOK  BY DEF IInv
<1>. QED  BY <1>1, Invariant, PTL

\* What do_net_recv returns arrived in that order, each frame with its length,
\* although the receiver runs while EmacPsRecv rewrites the ring, if no two
\* frames arrive meanwhile.
THEOREM FramesInOrder ==
  ASSUME MaxDuring <= 1
  PROVE  Spec => []RecvInOrder
<1>1. Receiving => RecvInOrder  BY DEF Receiving, RecvInOrder
<1>. QED  BY <1>1, ReceivingInvariant, PTL

\* The card stays within the descriptors that have buffers, with the same
\* hypothesis; with two frames it need not.
THEOREM CardWithinBuffers ==
  ASSUME MaxDuring <= 1
  PROVE  Spec => []WithinBuffers
<1>1. Receiving => WithinBuffers  BY DEF Receiving, WithinBuffers
<1>. QED  BY <1>1, ReceivingInvariant, PTL

\* Frames go out once and in order, and before the call that sends them returns.
THEOREM FramesSentInOrder == Spec => []SentInOrder
<1>1. IInv => SentInOrder  BY DEF IInv, Sending, SentInOrder
<1>. QED  BY <1>1, Invariant, PTL
=============================================================================
