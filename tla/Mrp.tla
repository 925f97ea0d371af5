-------------------------------- MODULE Mrp --------------------------------
(***************************************************************************)
(* The Modest Reliable Protocol (mrp/src): one direction of a pair of      *)
(* MrpStreams over a network that loses, duplicates and reorders packets.  *)
(* The sender's half is the send_buffer window, the receiver's half the    *)
(* receive_buffer window and the merge buffer that reassembles fragmented  *)
(* messages.  A header carries either a seqnum or an ack_num, never both,  *)
(* so the two directions of a pair of streams do not touch each other.     *)
(*                                                                         *)
(* A BufferWindow is modelled by its left bound and the set of packets it  *)
(* holds.  Timers are not modelled: try_resend may find any subset of the  *)
(* buffered packets due.  A failing send closure leaves the stream as it   *)
(* was and is a stuttering step.                                           *)
(***************************************************************************)
EXTENDS Naturals, Sequences, FiniteSets

CONSTANTS Capacity,     \* capacity_limit of both windows
          Sizes,        \* numbers of fragments a message may have
          MaxSeqnum     \* bound: seqnums the sender may use

ASSUME CapacityAssumption == Capacity \in Nat \ {0}
ASSUME SizesAssumption == Sizes \subseteq Nat \ {0}
ASSUME MaxSeqnumAssumption == MaxSeqnum \in Nat

VARIABLES
  sendLeft,    \* send_buffer.left_bounds()
  sendNext,    \* next_seqnum(): max_seen_seqnum() + 1 of send_buffer
  sendBuf,     \* packets in send_buffer: sent and not acknowledged
  recvLeft,    \* receive_buffer.left_bounds(): the next expected seqnum
  recvBuf,     \* packets in receive_buffer: received out of order
  shouldAck,   \* should_ack of the receiver
  merge,       \* merge_buffer and merge_end_seqnum of the receiver
  data,        \* data packets in the network
  acks,        \* ack_nums in the network
  submitted,   \* history: the messages try_send / try_send_fragmented took
  delivered    \* history: the messages receive_and_merge returned

senderVars == <<sendLeft, sendNext, sendBuf>>
receiverVars == <<recvLeft, recvBuf, shouldAck, merge, delivered>>
vars == <<senderVars, receiverVars, data, acks, submitted>>

(* A payload is <<message number, fragment number>>; num = 0 stands for a  *)
(* header without num_packets (the code treats Some(0) the same way).      *)
Payload == (Nat \ {0}) \X (Nat \ {0})
Packet == [seq : Nat \ {0}, num : Nat, payload : Payload]
MergeState == [buf : Seq(Payload), want : Nat, end : Nat]

Seqnums(buf) == {p.seq : p \in buf}

(* Deviation: the sender counts its seqnums from 0. *)
InitFromZero ==
  /\ sendLeft = 0 /\ sendNext = 0 /\ sendBuf = {}
  /\ recvLeft = 1 /\ recvBuf = {} /\ shouldAck = FALSE
  /\ merge = [buf |-> <<>>, want |-> 0, end |-> 0]
  /\ data = {} /\ acks = {}
  /\ submitted = <<>> /\ delivered = <<>>

Init ==
  /\ sendLeft = 1 /\ sendNext = 1 /\ sendBuf = {}
  /\ recvLeft = 1 /\ recvBuf = {} /\ shouldAck = FALSE
  /\ merge = [buf |-> <<>>, want |-> 0, end |-> 0]
  /\ data = {} /\ acks = {}
  /\ submitted = <<>> /\ delivered = <<>>

-----------------------------------------------------------------------------
(* The sender.                                                             *)

Fragments(n) == [i \in 1..n |-> <<Len(submitted) + 1, i>>]

(* Deviation: a fragmented message uses up one seqnum only. *)
EnqueueAsOne(packets, message) ==
  /\ sendBuf' = sendBuf \cup packets
  /\ sendNext' = sendNext + 1
  /\ data' = data \cup packets
  /\ submitted' = Append(submitted, message)
  /\ UNCHANGED <<sendLeft, receiverVars, acks>>

Enqueue(packets, message) ==
  /\ sendBuf' = sendBuf \cup packets
  /\ sendNext' = sendNext + Len(message)
  /\ data' = data \cup packets
  /\ submitted' = Append(submitted, message)
  /\ UNCHANGED <<sendLeft, receiverVars, acks>>

(* Deviation: one packet more than the window holds is let through. *)
TrySendOneMore ==
  /\ sendNext - sendLeft # Capacity + 1
  /\ sendNext <= MaxSeqnum
  /\ Enqueue({[seq |-> sendNext, num |-> 0, payload |-> Fragments(1)[1]]},
             Fragments(1))

(* try_send: refused when the send window is full. *)
TrySend ==
  /\ sendNext - sendLeft # Capacity
  /\ sendNext <= MaxSeqnum
  /\ Enqueue({[seq |-> sendNext, num |-> 0, payload |-> Fragments(1)[1]]},
             Fragments(1))

(* try_send_fragmented: all the fragments or none; the first one carries   *)
(* the number of packets to append.                                        *)
TrySendFragmented(n) ==
  /\ sendNext - sendLeft + n < Capacity
  /\ sendNext + n - 1 <= MaxSeqnum
  /\ Enqueue({[seq |-> sendNext + i - 1, num |-> IF i = 1 THEN n ELSE 0,
               payload |-> Fragments(n)[i]] : i \in 1..n},
             Fragments(n))

(* try_resend: retransmit the due packets (here: any of them). *)
TryResend ==
  /\ \E due \in SUBSET sendBuf : data' = data \cup due
  /\ UNCHANGED <<senderVars, receiverVars, acks, submitted>>

(* Deviation: an acknowledgement also covers the seqnum it expects next. *)
UpdateSendWindowInclusive(ack) ==
  IF ack > sendNext \/ ack < sendLeft
  THEN UNCHANGED senderVars
  ELSE /\ sendLeft' = ack + 1
       /\ sendBuf' = {p \in sendBuf : p.seq > ack}
       /\ UNCHANGED sendNext

(* update_send_window: impossible and old acknowledgements are ignored. *)
UpdateSendWindow(ack) ==
  IF ack > sendNext \/ ack < sendLeft
  THEN UNCHANGED senderVars
  ELSE /\ sendLeft' = ack
       /\ sendBuf' = {p \in sendBuf : p.seq >= ack}
       /\ UNCHANGED sendNext

-----------------------------------------------------------------------------
(* The receiver.                                                           *)

(* BufferWindow::put: a packet with the same seqnum is replaced. *)
Put(buf, p) == {q \in buf : q.seq # p.seq} \cup {p}

(* BufferWindow::drain_front: n is the left bound after the leading run of *)
(* present packets is taken out.                                           *)
Drains(buf, n) ==
  n \notin Seqnums(buf) /\ \A i \in recvLeft .. n - 1 : i \in Seqnums(buf)

(* One iteration of merge_packets.  out: the messages completed so far;    *)
(* err: the call returned an error and lost the rest of its batch.         *)
Merging(m) == m.want # 0
Abandoned(m, p) == ~Merging(m) /\ p.seq <= m.end

StartMerge(m, p) ==
  CASE p.num <= 1        -> [m EXCEPT !.out = Append(@, <<p.payload>>)]
    [] p.num > Capacity  -> [m EXCEPT !.err = TRUE]
    [] OTHER             -> [m EXCEPT !.buf = <<p.payload>>, !.want = p.num,
                                      !.end = p.seq + p.num - 1]

(* Deviation: the merge waits for one fragment more than announced. *)
PushMergeLate(m, p) ==
  CASE p.num # 0 -> [m EXCEPT !.buf = <<>>, !.want = 0, !.err = TRUE]
    [] p.num = 0 /\ Len(m.buf) = m.want ->
         [m EXCEPT !.buf = <<>>, !.want = 0,
                   !.out = Append(@, Append(m.buf, p.payload))]
    [] OTHER -> [m EXCEPT !.buf = Append(@, p.payload)]

PushMerge(m, p) ==
  CASE p.num # 0 -> [m EXCEPT !.buf = <<>>, !.want = 0, !.err = TRUE]
    [] p.num = 0 /\ Len(m.buf) + 1 = m.want ->
         [m EXCEPT !.buf = <<>>, !.want = 0,
                   !.out = Append(@, Append(m.buf, p.payload))]
    [] OTHER -> [m EXCEPT !.buf = Append(@, p.payload)]

MergeStep(m, p) ==
  CASE m.err \/ Abandoned(m, p) -> m
    [] ~m.err /\ Merging(m)      -> PushMerge(m, p)
    [] OTHER                     -> StartMerge(m, p)

(* merge_packets over the released packets, in seqnum order from `left'. *)
MergePackets(left, released) ==
  LET At(i) == CHOOSE p \in released : p.seq = left + i - 1
      Run[i \in 0 .. Cardinality(released)] ==
        IF i = 0
        THEN [buf |-> merge.buf, want |-> merge.want, end |-> merge.end,
              out |-> <<>>, err |-> FALSE]
        ELSE MergeStep(Run[i - 1], At(i))
  IN  Run[Cardinality(released)]

(* A packet inside the window: the leading run of packets is released.     *)
Release(p) ==
  LET buf == Put(recvBuf, p)
  IN  \E left \in recvLeft .. recvLeft + Capacity :
        LET m == MergePackets(recvLeft, {q \in buf : q.seq < left})
        IN  /\ Drains(buf, left)
            /\ recvLeft' = left
            /\ recvBuf' = {q \in buf : q.seq >= left}
            /\ shouldAck' = (shouldAck \/ left > recvLeft)
            /\ merge' = [buf |-> m.buf, want |-> m.want, end |-> m.end]
            /\ delivered' = delivered \o (IF m.err THEN <<>> ELSE m.out)

InReceiveWindow(p) == p.seq >= recvLeft /\ p.seq <= recvLeft + Capacity - 1

(* update_receiver_window followed by merge_packets (receive_and_merge):   *)
(* a packet from before the window is acknowledged again, one from after   *)
(* it is refused with ReceiveWindowFull.                                   *)
UpdateReceiverWindow(p) ==
  \/ /\ p.seq < recvLeft
     /\ shouldAck' = TRUE
     /\ UNCHANGED <<recvLeft, recvBuf, merge, delivered>>
  \/ p.seq > recvLeft + Capacity - 1 /\ UNCHANGED receiverVars
  \/ InReceiveWindow(p) /\ Release(p)

(* try_send_ack: polled; sends the next expected seqnum if one is owed. *)
TrySendAck ==
  /\ shouldAck
  /\ acks' = acks \cup {recvLeft}
  /\ shouldAck' = FALSE
  /\ UNCHANGED <<senderVars, recvLeft, recvBuf, merge, delivered, data, submitted>>

-----------------------------------------------------------------------------
(* The network: a packet arrives and may arrive again, or is lost.         *)

ReceiveData(p) ==
  /\ p \in data
  /\ UpdateReceiverWindow(p)
  /\ data' \in {data, data \ {p}}
  /\ UNCHANGED <<senderVars, acks, submitted>>

ReceiveAck(ack) ==
  /\ ack \in acks
  /\ UpdateSendWindow(ack)
  /\ acks' \in {acks, acks \ {ack}}
  /\ UNCHANGED <<receiverVars, data, submitted>>

LoseData == /\ \E p \in data : data' = data \ {p}
            /\ UNCHANGED <<senderVars, receiverVars, acks, submitted>>

LoseAck == /\ \E ack \in acks : acks' = acks \ {ack}
           /\ UNCHANGED <<senderVars, receiverVars, data, submitted>>

Next ==
  \/ TrySend
  \/ \E n \in Sizes : TrySendFragmented(n)
  \/ TryResend
  \/ TrySendAck
  \/ \E p \in data : ReceiveData(p)
  \/ \E ack \in acks : ReceiveAck(ack)
  \/ LoseData
  \/ LoseAck

Spec == Init /\ [][Next]_vars

(* group_call.rs calls try_send_ack and try_resend from every tick; a      *)
(* packet that is sent again and again finally arrives.                    *)
ResendAll == data' = data \cup sendBuf /\ TryResend
Fairness ==
  /\ WF_vars(TrySendAck)
  /\ WF_vars(ResendAll)
  /\ \A s \in 1..MaxSeqnum :
       SF_vars(\E p \in data : p.seq = s /\ ReceiveData(p))
  /\ \A ack \in 1..MaxSeqnum + 1 : SF_vars(ReceiveAck(ack))

FairSpec == Spec /\ Fairness

-----------------------------------------------------------------------------
TypeOK ==
  /\ sendLeft \in Nat \ {0} /\ sendNext \in Nat \ {0} /\ recvLeft \in Nat \ {0}
  /\ sendBuf \in SUBSET Packet /\ recvBuf \in SUBSET Packet
  /\ shouldAck \in BOOLEAN
  /\ data \in SUBSET Packet /\ acks \in SUBSET (Nat \ {0})
  /\ submitted \in Seq(Seq(Payload))

(* The receiver never has to refuse a packet of a conforming sender with   *)
(* ReceiveWindowFull: whatever is in flight, however late it is, lies      *)
(* before the end of the receive window.                                   *)
NoWindowOverflow == \A p \in data : p.seq <= recvLeft + Capacity - 1

(* The sender only forgets (update_send_window) what the receiver has      *)
(* already released in order, so no loss can make a hole permanent.        *)
NothingForgotten ==
  /\ sendLeft <= recvLeft /\ recvLeft <= sendNext
  /\ \A s \in recvLeft .. sendNext - 1 : s \in Seqnums(sendBuf)

(* Two packets with the same seqnum are the same packet, wherever they     *)
(* are, so replacing a buffered duplicate (BufferWindow::put) is harmless. *)
SeqnumsUnique ==
  \A p, q \in sendBuf \cup recvBuf \cup data : p.seq = q.seq => p = q

(* The stream implements reliable, ordered, exactly-once delivery of whole *)
(* messages, and delivers everything submitted under Fairness.             *)
Stream == INSTANCE ReliableStream WITH
  Message <- {[i \in 1..n |-> <<k, i>>] : n \in Sizes \cup {1}, k \in 1..MaxSeqnum}
Reliable == Stream!Spec
=============================================================================
