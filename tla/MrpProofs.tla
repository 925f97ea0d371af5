----------------------------- MODULE MrpProofs -----------------------------
(***************************************************************************)
(* The windows of an MRP stream never lose or refuse a packet, for every   *)
(* capacity, every set of message sizes and any number of packets.         *)
(*                                                                         *)
(* The invariant relates the two ends: the sender's window ends at most    *)
(* Capacity after its start, its start trails the receiver's next expected *)
(* seqnum because every acknowledgement in flight does, and the packets in *)
(* flight were all taken from the one sequence the sender numbered.        *)
(***************************************************************************)
EXTENDS Mrp, TLAPS

(* The two ends of the window agree (try_send's is_full test and the       *)
(* acknowledgement test of update_send_window).                            *)
WindowInv ==
  /\ sendLeft <= recvLeft
  /\ recvLeft <= sendNext
  /\ sendNext <= sendLeft + Capacity

(* An acknowledgement never claims more than was released in order. *)
AckInv == \A ack \in acks : ack <= recvLeft

(* Packets are numbered below next_seqnum(). *)
NumberedInv == \A p \in sendBuf \cup recvBuf \cup data : p.seq < sendNext

(* The send buffer holds exactly the window. *)
BufferedInv ==
  \A s \in Nat : sendLeft <= s /\ s < sendNext => \E p \in sendBuf : p.seq = s

IInv == TypeOK /\ WindowInv /\ AckInv /\ NumberedInv /\ BufferedInv /\ SeqnumsUnique

USE CapacityAssumption, SizesAssumption, MaxSeqnumAssumption

(* The invariant holds of two fresh streams and an empty network. *)
LEMMA InitIInv == Init => IInv
<1>. SUFFICES ASSUME Init PROVE IInv
  OBVIOUS
<1>1. TypeOK
  <2>1. <<>> \in Seq(Seq(Payload)) /\ submitted = <<>>
    BY DEF Init
  <2>2. /\ sendLeft = 1 /\ sendNext = 1 /\ recvLeft = 1 /\ shouldAck = FALSE
        /\ sendBuf = {} /\ recvBuf = {} /\ data = {} /\ acks = {}
    BY DEF Init
  <2>3. sendLeft \in Nat \ {0} /\ sendNext \in Nat \ {0} /\ recvLeft \in Nat \ {0}
    BY <2>2
  <2>4. shouldAck \in BOOLEAN
    BY Zenon, <2>2
  <2>5. /\ sendBuf \in SUBSET Packet /\ recvBuf \in SUBSET Packet
        /\ data \in SUBSET Packet /\ acks \in SUBSET (Nat \ {0})
    BY <2>2
  <2>. QED
    BY <2>1, <2>3, <2>4, <2>5 DEF TypeOK
<1>2. WindowInv /\ AckInv /\ NumberedInv /\ BufferedInv /\ SeqnumsUnique
  BY DEF Init, WindowInv, AckInv, NumberedInv, BufferedInv, SeqnumsUnique
<1>. QED
  BY <1>1, <1>2 DEF IInv

(* Appending freshly numbered packets to the send buffer and the network   *)
(* keeps the invariant (try_send and try_send_fragmented).                 *)
LEMMA EnqueueIInv ==
  ASSUME IInv, NEW n \in Nat \ {0}, sendNext + n <= sendLeft + Capacity,
         NEW packets \in SUBSET Packet,
         \A i \in Nat : sendNext <= i /\ i < sendNext + n
                          => \E p \in packets : p.seq = i,
         \A p \in packets : sendNext <= p.seq /\ p.seq < sendNext + n,
         \A p, q \in packets : p.seq = q.seq => p = q,
         sendNext' = sendNext + n, sendBuf' = sendBuf \cup packets,
         data' = data \cup packets, submitted' \in Seq(Seq(Payload)),
         UNCHANGED <<sendLeft, receiverVars, acks>>
  PROVE  IInv'
<1>. USE DEF IInv
<1>0. recvLeft' = recvLeft /\ recvBuf' = recvBuf /\ shouldAck' = shouldAck
      /\ sendLeft' = sendLeft /\ acks' = acks
  BY DEF receiverVars
<1>1. TypeOK'
  BY <1>0 DEF TypeOK
<1>2. WindowInv' /\ AckInv'
  BY <1>0 DEF WindowInv, AckInv, TypeOK
<1>3. NumberedInv'
  BY <1>0 DEF NumberedInv, TypeOK, Packet
<1>4. BufferedInv'
  <2>. SUFFICES ASSUME NEW s \in Nat, sendLeft <= s, s < sendNext + n
                PROVE  \E p \in sendBuf \cup packets : p.seq = s
    BY <1>0 DEF BufferedInv
  <2>1. CASE s < sendNext
    BY <2>1 DEF BufferedInv
  <2>2. CASE sendNext <= s
    BY <2>2
  <2>. QED
    BY <2>1, <2>2 DEF TypeOK
<1>5. SeqnumsUnique'
  <2>1. \A p \in sendBuf \cup recvBuf \cup data : p.seq < sendNext /\ p.seq \in Nat
    BY DEF NumberedInv, TypeOK, Packet
  <2>2. \A p \in packets : sendNext <= p.seq /\ p.seq \in Nat
    BY DEF Packet
  <2>. QED
    BY <1>0, <2>1, <2>2 DEF SeqnumsUnique, TypeOK
<1>. QED
  BY <1>1, <1>2, <1>3, <1>4, <1>5

(* The fragments of the next message are payloads. *)
LEMMA FragmentsType ==
  ASSUME TypeOK, NEW n \in Nat \ {0}
  PROVE  /\ Fragments(n) \in Seq(Payload) /\ Len(Fragments(n)) = n
         /\ \A i \in 1..n : Fragments(n)[i] \in Payload
<1>1. Len(submitted) + 1 \in Nat \ {0}
  BY DEF TypeOK
<1>2. \A i \in 1..n : <<Len(submitted) + 1, i>> \in Payload
  BY <1>1 DEF Payload
<1>. QED
  BY <1>2 DEF Fragments

(* Every step of the stream and of the network keeps the invariant. *)
LEMMA NextIInv == IInv /\ [Next]_vars => IInv'
<1>. SUFFICES ASSUME IInv, [Next]_vars PROVE IInv'
  OBVIOUS
<1>. USE DEF IInv
<1>1. CASE TrySend
  <2>. DEFINE packet == [seq |-> sendNext, num |-> 0, payload |-> Fragments(1)[1]]
  <2>0. 1 \in Nat \ {0}
    OBVIOUS
  <2>1. /\ Fragments(1) \in Seq(Payload) /\ Len(Fragments(1)) = 1
        /\ Fragments(1)[1] \in Payload
    <3>1. \A n \in Nat \ {0} : /\ Fragments(n) \in Seq(Payload) /\ Len(Fragments(n)) = n
                                /\ \A i \in 1..n : Fragments(n)[i] \in Payload
      BY FragmentsType
    <3>2. PICK n \in Nat \ {0} : n = 1
      BY <2>0
    <3>3. 1 \in 1..n
      BY <3>2
    <3>. QED
      BY Zenon, <3>1, <3>2, <3>3
  <2>2. /\ sendNext' = sendNext + 1 /\ sendBuf' = sendBuf \cup {packet}
        /\ data' = data \cup {packet} /\ submitted' = Append(submitted, Fragments(1))
        /\ UNCHANGED <<sendLeft, receiverVars, acks>>
    BY Zenon, <1>1, <2>1 DEF TrySend, Enqueue
  <2>3. sendNext + 1 <= sendLeft + Capacity
    BY <1>1 DEF TrySend, WindowInv, TypeOK
  <2>4. packet \in Packet /\ packet.seq = sendNext
    BY <2>1 DEF Packet, TypeOK
  <2>5. submitted' \in Seq(Seq(Payload))
    BY <2>1, <2>2 DEF TypeOK
  <2>. HIDE DEF packet
  <2>6. \A i \in Nat : sendNext <= i /\ i < sendNext + 1 => \E p \in {packet} : p.seq = i
    BY <2>4 DEF TypeOK
  <2>7. \A p \in {packet} : sendNext <= p.seq /\ p.seq < sendNext + 1
    BY <2>4 DEF TypeOK
  <2>8. {packet} \in SUBSET Packet /\ \A p, q \in {packet} : p.seq = q.seq => p = q
    BY <2>4
  <2>. DEFINE packets == {packet}
              one == 1
  <2>9. /\ one \in Nat \ {0} /\ sendNext + one <= sendLeft + Capacity
        /\ packets \in SUBSET Packet
        /\ \A i \in Nat : sendNext <= i /\ i < sendNext + one => \E p \in packets : p.seq = i
        /\ \A p \in packets : sendNext <= p.seq /\ p.seq < sendNext + one
        /\ \A p, q \in packets : p.seq = q.seq => p = q
        /\ sendNext' = sendNext + one /\ sendBuf' = sendBuf \cup packets
        /\ data' = data \cup packets
    BY <2>0, <2>2, <2>3, <2>6, <2>7, <2>8
  <2>. HIDE DEF packets, one, IInv
  <2>. QED
    BY Zenon, <2>2, <2>5, <2>9, EnqueueIInv
<1>2. ASSUME NEW n \in Sizes, TrySendFragmented(n) PROVE IInv'
  <2>. DEFINE packet(i) == [seq |-> sendNext + i - 1, num |-> IF i = 1 THEN n ELSE 0,
                            payload |-> Fragments(n)[i]]
              packets == {packet(i) : i \in 1..n}
  <2>0. n \in Nat \ {0}
    OBVIOUS
  <2>1. /\ Fragments(n) \in Seq(Payload) /\ Len(Fragments(n)) = n
        /\ \A i \in 1..n : Fragments(n)[i] \in Payload
    BY <2>0, FragmentsType
  <2>2. /\ sendNext' = sendNext + n /\ sendBuf' = sendBuf \cup packets
        /\ data' = data \cup packets /\ submitted' = Append(submitted, Fragments(n))
        /\ UNCHANGED <<sendLeft, receiverVars, acks>>
    BY <1>2, <2>1 DEF TrySendFragmented, Enqueue
  <2>3. sendNext + n <= sendLeft + Capacity
    BY <1>2, <2>0 DEF TrySendFragmented, TypeOK
  <2>4. \A i \in 1..n : packet(i) \in Packet /\ packet(i).seq = sendNext + i - 1
    BY <2>0, <2>1 DEF Packet, TypeOK
  <2>5. submitted' \in Seq(Seq(Payload))
    BY <2>1, <2>2 DEF TypeOK
  <2>. HIDE DEF packet
  <2>6. packets \in SUBSET Packet
    BY <2>4
  <2>7. \A i \in Nat : sendNext <= i /\ i < sendNext + n => \E p \in packets : p.seq = i
    <3>. SUFFICES ASSUME NEW i \in Nat, sendNext <= i, i < sendNext + n
                  PROVE  \E p \in packets : p.seq = i
      OBVIOUS
    <3>1. i - sendNext + 1 \in 1..n /\ sendNext + (i - sendNext + 1) - 1 = i
      BY <2>0 DEF TypeOK
    <3>. QED
      BY <2>4, <3>1
  <2>8. \A p \in packets : sendNext <= p.seq /\ p.seq < sendNext + n
    BY <2>0, <2>4 DEF TypeOK
  <2>9. \A p, q \in packets : p.seq = q.seq => p = q
    <3>. SUFFICES ASSUME NEW i \in 1..n, NEW j \in 1..n, packet(i).seq = packet(j).seq
                  PROVE  packet(i) = packet(j)
      OBVIOUS
    <3>1. i = j
      BY <2>0, <2>4 DEF TypeOK
    <3>. QED
      BY <3>1
  <2>. HIDE DEF packets, IInv
  <2>. QED
    BY Zenon, <2>0, <2>2, <2>3, <2>5, <2>6, <2>7, <2>8, <2>9, EnqueueIInv
<1>3. CASE TryResend
  <2>1. PICK due \in SUBSET sendBuf : data' = data \cup due
    BY <1>3 DEF TryResend
  <2>2. UNCHANGED <<sendLeft, sendNext, sendBuf, recvLeft, recvBuf, shouldAck, acks, submitted>>
    BY <1>3 DEF TryResend, senderVars, receiverVars
  <2>3. TypeOK'
    BY <2>1, <2>2 DEF TypeOK
  <2>4. WindowInv' /\ AckInv' /\ BufferedInv'
    BY <2>2 DEF WindowInv, AckInv, BufferedInv
  <2>5. NumberedInv' /\ SeqnumsUnique'
    BY <2>1, <2>2 DEF NumberedInv, SeqnumsUnique
  <2>. QED
    BY <2>3, <2>4, <2>5
<1>4. CASE TrySendAck
  <2>1. UNCHANGED <<sendLeft, sendNext, sendBuf, recvLeft, recvBuf, data, submitted>>
        /\ acks' = acks \cup {recvLeft} /\ shouldAck' = FALSE
    BY <1>4 DEF TrySendAck, senderVars
  <2>2. TypeOK'
    BY Zenon, <2>1 DEF TypeOK
  <2>3. WindowInv' /\ AckInv' /\ NumberedInv' /\ BufferedInv' /\ SeqnumsUnique'
    BY <2>1 DEF WindowInv, AckInv, NumberedInv, BufferedInv, SeqnumsUnique, TypeOK
  <2>. QED
    BY <2>2, <2>3
<1>5. ASSUME NEW p \in data, ReceiveData(p) PROVE IInv'
  <2>1. /\ UNCHANGED <<sendLeft, sendNext, sendBuf, acks, submitted>>
        /\ data' \subseteq data
    BY <1>5 DEF ReceiveData, senderVars
  <2>2. p \in Packet /\ p.seq \in Nat /\ p.seq < sendNext
    BY DEF TypeOK, NumberedInv, Packet
  <2>3. CASE UNCHANGED <<recvLeft, recvBuf>> /\ shouldAck' \in BOOLEAN
    <3>1. TypeOK'
      BY <2>1, <2>3 DEF TypeOK
    <3>2. WindowInv' /\ AckInv' /\ BufferedInv'
      BY <2>1, <2>3 DEF WindowInv, AckInv, BufferedInv
    <3>3. NumberedInv' /\ SeqnumsUnique'
      BY <2>1, <2>3 DEF NumberedInv, SeqnumsUnique
    <3>. QED
      BY <3>1, <3>2, <3>3
  <2>4. CASE InReceiveWindow(p) /\ Release(p)
    <3>. DEFINE buf == Put(recvBuf, p)
    <3>1. buf \subseteq recvBuf \cup {p}
      BY DEF Put
    <3>2. PICK left \in recvLeft .. recvLeft + Capacity :
            /\ Drains(buf, left) /\ recvLeft' = left
            /\ recvBuf' = {q \in buf : q.seq >= left}
            /\ shouldAck' = (shouldAck \/ left > recvLeft)
      BY <2>4 DEF Release
    <3>3. \A q \in buf : q \in Packet /\ q.seq \in Nat /\ q.seq < sendNext
      BY <2>2, <3>1 DEF TypeOK, NumberedInv, Packet
    <3>. HIDE DEF buf
    <3>4. left \in Nat \ {0} /\ recvLeft <= left
      BY DEF TypeOK
    <3>5. left <= sendNext
      <4>1. CASE left = recvLeft
        BY <4>1 DEF WindowInv
      <4>2. CASE left # recvLeft
        <5>1. left - 1 \in recvLeft .. left - 1
          BY <3>4, <4>2 DEF TypeOK
        <5>2. PICK q \in buf : q.seq = left - 1
          BY <3>2, <5>1 DEF Drains, Seqnums
        <5>. QED
          BY <3>3, <3>4, <5>2 DEF TypeOK
      <4>. QED
        BY <4>1, <4>2
    <3>6. recvBuf' \subseteq recvBuf \cup data
      BY <3>1, <3>2
    <3>7. TypeOK'
      BY <2>1, <3>2, <3>4, <3>6 DEF TypeOK
    <3>8. WindowInv' /\ AckInv'
      BY <2>1, <3>2, <3>4, <3>5 DEF WindowInv, AckInv, TypeOK
    <3>9. NumberedInv' /\ BufferedInv' /\ SeqnumsUnique'
      BY <2>1, <3>6 DEF NumberedInv, BufferedInv, SeqnumsUnique
    <3>. QED
      BY <3>7, <3>8, <3>9
  <2>5. \/ UNCHANGED <<recvLeft, recvBuf>> /\ shouldAck' \in BOOLEAN
        \/ InReceiveWindow(p) /\ Release(p)
    BY Zenon, <1>5 DEF ReceiveData, UpdateReceiverWindow, receiverVars, TypeOK
  <2>. QED
    BY <2>3, <2>4, <2>5
<1>6. ASSUME NEW ack \in acks, ReceiveAck(ack) PROVE IInv'
  <2>1. /\ UNCHANGED <<recvLeft, recvBuf, shouldAck, data, submitted>>
        /\ acks' \subseteq acks
    BY <1>6 DEF ReceiveAck, receiverVars
  <2>2. ack \in Nat \ {0} /\ ack <= recvLeft
    BY DEF TypeOK, AckInv
  <2>3. CASE UNCHANGED senderVars
    <3>1. sendLeft' = sendLeft /\ sendNext' = sendNext /\ sendBuf' = sendBuf
      BY <2>3 DEF senderVars
    <3>2. TypeOK'
      BY <2>1, <3>1 DEF TypeOK
    <3>3. WindowInv' /\ AckInv' /\ BufferedInv'
      BY <2>1, <3>1 DEF WindowInv, AckInv, BufferedInv
    <3>4. NumberedInv' /\ SeqnumsUnique'
      BY <2>1, <3>1 DEF NumberedInv, SeqnumsUnique
    <3>. QED
      BY <3>2, <3>3, <3>4
  <2>4. CASE /\ sendLeft <= ack /\ sendLeft' = ack /\ sendNext' = sendNext
             /\ sendBuf' = {p \in sendBuf : p.seq >= ack}
    <3>1. TypeOK' /\ WindowInv' /\ AckInv'
      BY <2>1, <2>2, <2>4 DEF TypeOK, WindowInv, AckInv
    <3>2. NumberedInv' /\ SeqnumsUnique'
      BY <2>1, <2>4 DEF NumberedInv, SeqnumsUnique
    <3>3. ASSUME NEW s \in Nat, ack <= s, s < sendNext
          PROVE  \E p \in sendBuf' : p.seq = s
      <4>1. sendLeft <= s
        BY <2>2, <2>4, <3>3 DEF TypeOK
      <4>2. PICK p \in sendBuf : p.seq = s
        BY <3>3, <4>1 DEF BufferedInv
      <4>. QED
        BY <2>4, <3>3, <4>2
    <3>4. BufferedInv'
      BY <2>4, <3>3 DEF BufferedInv
    <3>. QED
      BY <3>1, <3>2, <3>4
  <2>5. \/ UNCHANGED senderVars
        \/ /\ sendLeft <= ack /\ sendLeft' = ack /\ sendNext' = sendNext
           /\ sendBuf' = {p \in sendBuf : p.seq >= ack}
    BY <1>6, <2>2 DEF ReceiveAck, UpdateSendWindow, TypeOK
  <2>. QED
    BY <2>3, <2>4, <2>5
<1>7. CASE LoseData
  <2>1. UNCHANGED <<sendLeft, sendNext, sendBuf, recvLeft, recvBuf, shouldAck, acks, submitted>>
        /\ data' \subseteq data
    BY <1>7 DEF LoseData, senderVars, receiverVars
  <2>2. TypeOK'
    BY <2>1 DEF TypeOK
  <2>3. WindowInv' /\ AckInv' /\ BufferedInv'
    BY <2>1 DEF WindowInv, AckInv, BufferedInv
  <2>4. NumberedInv' /\ SeqnumsUnique'
    BY <2>1 DEF NumberedInv, SeqnumsUnique
  <2>. QED
    BY <2>2, <2>3, <2>4
<1>8. CASE LoseAck
  <2>1. UNCHANGED <<sendLeft, sendNext, sendBuf, recvLeft, recvBuf, shouldAck, data, submitted>>
        /\ acks' \subseteq acks
    BY <1>8 DEF LoseAck, senderVars, receiverVars
  <2>2. TypeOK'
    BY <2>1 DEF TypeOK
  <2>3. WindowInv' /\ AckInv' /\ BufferedInv'
    BY <2>1 DEF WindowInv, AckInv, BufferedInv
  <2>4. NumberedInv' /\ SeqnumsUnique'
    BY <2>1 DEF NumberedInv, SeqnumsUnique
  <2>. QED
    BY <2>2, <2>3, <2>4
<1>9. CASE UNCHANGED vars
  BY <1>9 DEF vars, senderVars, receiverVars, TypeOK, WindowInv, AckInv, NumberedInv,
              BufferedInv, SeqnumsUnique
<1>. QED
  BY <1>1, <1>2, <1>3, <1>4, <1>5, <1>6, <1>7, <1>8, <1>9 DEF Next

(* The types of the stream's state are preserved by every operation. *)
THEOREM TypeCorrect == Spec => []TypeOK
<1>. USE DEF IInv
<1>. QED
  BY InitIInv, NextIInv, PTL DEF Spec

(* Whatever the network does, a conforming sender never makes the receiver *)
(* answer ReceiveWindowFull.                                               *)
THEOREM NeverOverflows == Spec => []NoWindowOverflow
<1>1. IInv => NoWindowOverflow
  BY DEF IInv, NoWindowOverflow, NumberedInv, WindowInv, TypeOK, Packet
<1>. QED
  BY <1>1, InitIInv, NextIInv, PTL DEF Spec

(* A packet leaves the send buffer only after the receiver released it.    *)
THEOREM NeverForgets == Spec => []NothingForgotten
<1>1. IInv => NothingForgotten
  BY DEF IInv, NothingForgotten, BufferedInv, WindowInv, TypeOK, Seqnums
<1>. QED
  BY <1>1, InitIInv, NextIInv, PTL DEF Spec

(* A seqnum names one packet for ever. *)
THEOREM SeqnumsNameOnePacket == Spec => []SeqnumsUnique
<1>. USE DEF IInv
<1>. QED
  BY InitIInv, NextIInv, PTL DEF Spec
=============================================================================
