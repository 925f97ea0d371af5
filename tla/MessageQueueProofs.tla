------------------------- MODULE MessageQueueProofs -------------------------
(***************************************************************************)
(* Signaling messages keep flowing, for any calls, candidates and inputs:  *)
(* the queue never stalls, candidates are announced, and an offer does not *)
(* follow the hangup of its call.                                          *)
(*                                                                         *)
(* Threads other than the one that queued a message give it to the         *)
(* application, so the invariant relates what threads are about to push,   *)
(* the order of the queue and what was sent: an offer and a hangup of one  *)
(* call are in that order in the queue, since the manager queues a hangup  *)
(* only for a call in did_send_offer, which is noted after the offer was   *)
(* queued (OrderInv).                                                      *)
(***************************************************************************)
EXTENDS MessageQueue, FiniteSetTheorems, SequenceTheorems, TLAPS

(* A leaf is left to Zenon unless it says otherwise: most are first-order  *)
(* reasoning over sets and functions.                                      *)
USE ZenonT(60)

PC == {"idle", "push", "loop", "store", "drop", "stuck"}

Then == {"idle", "store", "drop", "unlock"}

ThreadState == [pc : PC, msg : Message \cup {NoMessage}, then : Then]

Life == {"unknown", "active", "ended", "dropped"}

Task == [call : Calls, hangup : BOOLEAN]

Live == {c \in Calls : life[c] \in {"active", "ended"}}

Types == TypeOK /\ IsFiniteSet(Live)

Holds(q, m) == \E i \in 1..Len(q) : q[i] = m

(* The offer of a call is in front of its hangup. *)
Ordered(q) ==
  \A c \in Outgoing : \A i, j \in 1..Len(q) :
    q[i] = Msg(c, "Offer") /\ q[j] = Msg(c, "Hangup") => i < j

(* What a thread may be about to push.  The worker of a call is at work    *)
(* only when the call proceeded.                                           *)
PushInv ==
  /\ \A c \in Calls : thread[CallWorker(c)].pc # "idle" => c \in started
  /\ \A c \in Calls : thread[CallWorker(c)].pc = "push" =>
       thread[CallWorker(c)].msg \in {Msg(c, "Offer"), Msg(c, "Answer")}
  /\ \A c \in Calls : thread[ConnWorker(c)].pc = "push" =>
       thread[ConnWorker(c)].msg = Msg(c, "Ice")
  /\ thread[Manager].pc = "push" =>
       \E c \in Calls : thread[Manager].msg \in {Msg(c, "Busy"), Msg(c, "Hangup")}

(* The manager drops a call on behalf of a task. *)
DropInv == "drop" \in {thread[Manager].pc, thread[Manager].then} => tasks # <<>>

(* Nothing has happened to a call that is not known. *)
UnknownInv ==
  \A c \in Calls : life[c] = "unknown" =>
    c \notin started /\ c \notin open /\ buffered[c] = 0

OrderInv ==
  /\ Ordered(queue)
  /\ \A c \in Outgoing :
       /\ c \in didSend => c \in started /\ thread[CallWorker(c)].pc = "idle"
       /\ Holds(queue, Msg(c, "Offer")) => Msg(c, "Hangup") \notin sent
       /\ \/ Holds(queue, Msg(c, "Hangup"))
          \/ Msg(c, "Hangup") \in sent
          \/ thread[Manager].pc = "push" /\ thread[Manager].msg = Msg(c, "Hangup")
          => c \in didSend

StallInv ==
  /\ inFlight => outstanding # <<>>
  /\ queue # <<>> /\ (\A t \in Threads : thread[t].pc \notin {"loop", "stuck"}) =>
       outstanding # <<>>

Inv == PushInv /\ DropInv /\ UnknownInv /\ OrderInv /\ StallInv /\ CandidatesAnnounced

-----------------------------------------------------------------------------
(* Threads.                                                                *)

LEMMA ThreadNames ==
  /\ Manager \in Threads
  /\ \A c \in Calls : CallWorker(c) \in Threads /\ ConnWorker(c) \in Threads
  /\ \A c, d \in Calls :
       /\ CallWorker(c) # Manager /\ ConnWorker(c) # Manager /\ CallWorker(c) # ConnWorker(d)
       /\ CallWorker(c) = CallWorker(d) => c = d
       /\ ConnWorker(c) = ConnWorker(d) => c = d
  /\ \A t \in Threads :
       \/ t = Manager
       \/ \E c \in Calls : t \in {CallWorker(c), ConnWorker(c)}
BY DEF Threads, Manager, CallWorker, ConnWorker

LEMMA Messages ==
  /\ \A c \in Calls, k \in Kind : Msg(c, k) \in Message /\ Msg(c, k).call = c /\ Msg(c, k).kind = k
  /\ \A m \in Message : m.call \in Calls /\ m.kind \in Kind /\ m = Msg(m.call, m.kind)
BY SMT DEF Message, Msg

LEMMA States ==
  /\ Idle \in ThreadState /\ Idle.pc = "idle" /\ Idle.then = "idle"
  /\ Loops \in ThreadState /\ Loops.pc = "loop" /\ Loops.then = "idle"
  /\ \A m \in Message, n \in Then :
       /\ Pushes(m, n) \in ThreadState
       /\ Pushes(m, n).pc = "push" /\ Pushes(m, n).msg = m /\ Pushes(m, n).then = n
  /\ \A s \in ThreadState, p \in PC :
       /\ [s EXCEPT !.pc = p] \in ThreadState
       /\ [s EXCEPT !.pc = p].pc = p /\ [s EXCEPT !.pc = p].then = s.then
       /\ [s EXCEPT !.pc = p, !.msg = NoMessage] \in ThreadState
       /\ [s EXCEPT !.pc = p, !.msg = NoMessage].pc = p
       /\ [s EXCEPT !.pc = p, !.msg = NoMessage].then = s.then
  /\ \A s \in ThreadState : s.pc \in PC /\ s.then \in Then
BY DEF ThreadState, Idle, Loops, Pushes, PC, Then

LEMMA Names ==
  /\ "idle" \in PC /\ "push" \in PC /\ "loop" \in PC /\ "store" \in PC /\ "drop" \in PC
  /\ "stuck" \in PC
  /\ "idle" \in Then /\ "store" \in Then /\ "drop" \in Then /\ "unlock" \in Then
  /\ "Offer" \in Kind /\ "Answer" \in Kind /\ "Ice" \in Kind /\ "Hangup" \in Kind
  /\ "Busy" \in Kind
BY DEF PC, Then, Kind

LEMMA StepState ==
  ASSUME NEW s \in ThreadState, NEW p \in PC
  PROVE  /\ [s EXCEPT !.pc = p] \in ThreadState
         /\ [s EXCEPT !.pc = p].pc = p /\ [s EXCEPT !.pc = p].then = s.then
         /\ [s EXCEPT !.pc = p, !.msg = NoMessage] \in ThreadState
         /\ [s EXCEPT !.pc = p, !.msg = NoMessage].pc = p
         /\ [s EXCEPT !.pc = p, !.msg = NoMessage].then = s.then
BY DEF ThreadState

LEMMA ThreadTypes == TypeOK => thread \in [Threads -> ThreadState]
BY DEF TypeOK, ThreadState, PC, Then

(* What a thread that moves leaves alone. *)
LEMMA Moved ==
  ASSUME Types, NEW t \in Threads, NEW to \in ThreadState, Moves(t, to)
  PROVE  /\ thread' \in [Threads -> ThreadState]
         /\ thread'[t] = to
         /\ \A u \in Threads : u # t => thread'[u] = thread[u]
BY ThreadTypes DEF Moves, Types

LEMMA InputTypes == TypeOK /\ Input => inputs' \in 0..MaxInputs
BY SMT, MessageQueueAssumption DEF TypeOK, Input

-----------------------------------------------------------------------------
(* Queues.                                                                 *)

(* r is what is left of q, in order. *)
Thins(q, r) ==
  /\ r \in Seq(Message)
  /\ q = <<>> => r = <<>>
  /\ \A m \in Message : Holds(r, m) => Holds(q, m)
  /\ Ordered(q) => Ordered(r)

LEMMA ThinsSame ==
  ASSUME NEW q \in Seq(Message)
  PROVE  Thins(q, q) /\ Thins(q, <<>>)
BY SMT DEF Thins, Ordered, Holds

LEMMA ThinsAgain ==
  ASSUME NEW q, NEW r, NEW s, Thins(q, r), Thins(r, s)
  PROVE  Thins(q, s)
BY DEF Thins

LEMMA TailIndex ==
  ASSUME NEW q \in Seq(Message), q # <<>>
  PROVE  /\ Head(q) \in Message /\ Head(q) = q[1] /\ Tail(q) \in Seq(Message)
         /\ Len(q) \in Nat /\ Len(q) >= 1 /\ Len(Tail(q)) = Len(q) - 1
         /\ \A i \in 1..Len(Tail(q)) : i + 1 \in 1..Len(q) /\ Tail(q)[i] = q[i + 1]
         /\ \A i \in 1..Len(q) : i # 1 => i - 1 \in 1..Len(Tail(q)) /\ q[i] = Tail(q)[i - 1]
BY SMT, HeadTailProperties

LEMMA ThinsTail ==
  ASSUME NEW q \in Seq(Message), q # <<>>
  PROVE  /\ Thins(q, Tail(q)) /\ Holds(q, Head(q))
         /\ \A m \in Message : m # Head(q) /\ Holds(q, m) => Holds(Tail(q), m)
<1>1. Tail(q) \in Seq(Message) /\ Len(q) \in Nat
  BY TailIndex
<1>2. \A m \in Message : Holds(Tail(q), m) => Holds(q, m)
  BY SMT, TailIndex DEF Holds
<1>3. ASSUME NEW m \in Message, m # Head(q), Holds(q, m)
      PROVE  Holds(Tail(q), m)
  <2>1. PICK i \in 1..Len(q) : q[i] = m
    BY <1>3 DEF Holds
  <2>2. i # 1
    BY <1>3, <2>1, TailIndex
  <2>3. i - 1 \in 1..Len(Tail(q)) /\ Tail(q)[i - 1] = m
    BY <2>1, <2>2, TailIndex
  <2>. QED
    BY <2>3 DEF Holds
<1>4. Ordered(q) => Ordered(Tail(q))
  <2>. SUFFICES ASSUME Ordered(q), NEW c \in Outgoing,
                       NEW i \in 1..Len(Tail(q)), NEW j \in 1..Len(Tail(q)),
                       Tail(q)[i] = Msg(c, "Offer"), Tail(q)[j] = Msg(c, "Hangup")
                PROVE  i < j
    BY DEF Ordered
  <2>1. i + 1 < j + 1
    BY SMT, TailIndex DEF Ordered
  <2>. QED
    BY SMT, <2>1, <1>1
<1>5. Holds(q, Head(q))
  BY SMT, TailIndex DEF Holds
<1>. QED
  BY <1>1, <1>2, <1>3, <1>4, <1>5 DEF Thins

(* A hangup in front has no offer behind it. *)
LEMMA HeadHangup ==
  ASSUME NEW q \in Seq(Message), q # <<>>, Ordered(q), NEW c \in Outgoing,
         Head(q) = Msg(c, "Hangup")
  PROVE  ~Holds(q, Msg(c, "Offer"))
<1>. SUFFICES ASSUME NEW i \in 1..Len(q), q[i] = Msg(c, "Offer") PROVE FALSE
  BY DEF Holds
<1>1. 1 \in 1..Len(q) /\ q[1] = Msg(c, "Hangup")
  BY SMT, TailIndex
<1>2. i < 1
  BY <1>1 DEF Ordered
<1>. QED
  BY SMT, <1>2

LEMMA AppendIndex ==
  ASSUME NEW q \in Seq(Message), NEW m \in Message
  PROVE  /\ Append(q, m) \in Seq(Message) /\ Append(q, m) # <<>>
         /\ Len(q) \in Nat /\ Len(Append(q, m)) = Len(q) + 1
         /\ Append(q, m)[Len(q) + 1] = m
         /\ \A i \in 1..Len(q) : Append(q, m)[i] = q[i]
BY SMT, AppendProperties

LEMMA AppendHolds ==
  ASSUME NEW q \in Seq(Message), NEW m \in Message
  PROVE  \A n : Holds(Append(q, m), n) <=> Holds(q, n) \/ n = m
<1>1. \A i : i \in 1..Len(q) + 1 <=> i \in 1..Len(q) \/ i = Len(q) + 1
  BY SMT, AppendIndex
<1>. QED
  BY SMT, <1>1, AppendIndex DEF Holds

LEMMA AppendOrdered ==
  ASSUME NEW q \in Seq(Message), NEW m \in Message, Ordered(q),
         \A c \in Outgoing : m = Msg(c, "Offer") => ~Holds(q, Msg(c, "Hangup"))
  PROVE  Ordered(Append(q, m))
<1>. DEFINE r == Append(q, m)
<1>. SUFFICES ASSUME NEW c \in Outgoing, NEW i \in 1..Len(r), NEW j \in 1..Len(r),
                     r[i] = Msg(c, "Offer"), r[j] = Msg(c, "Hangup")
              PROVE  i < j
  BY DEF Ordered
<1>1. i # j
  BY SMT DEF Msg
<1>2. CASE i \in 1..Len(q) /\ j \in 1..Len(q)
  BY SMT, <1>2, AppendIndex DEF Ordered
<1>3. CASE j = Len(q) + 1
  BY SMT, <1>1, <1>3, AppendIndex
<1>4. CASE i = Len(q) + 1 /\ j \in 1..Len(q)
  BY <1>4, AppendIndex DEF Holds
<1>. QED
  BY SMTT(30), <1>2, <1>3, <1>4, AppendIndex

(* What trim_messages leaves. *)
LEMMA Trimmed ==
  ASSUME NEW c \in Calls, NEW q \in Seq(Message), NEW r \in trim_messages(c, q)
  PROVE  /\ Thins(q, r)
         /\ \A m \in Message : m.call # c /\ Holds(q, m) => Holds(r, m)
<1>. DEFINE kept == {i \in DOMAIN q : q[i].call # c \/ q[i].kind \in {"Busy", "Hangup"}}
            n == Cardinality(kept)
<1>1. PICK f \in Bijection(1..n, kept) :
        /\ \A i, j \in DOMAIN f : i < j => f[i] < f[j]
        /\ r = [i \in DOMAIN f |-> q[f[i]]]
  BY DEF trim_messages
<1>2. Len(q) \in Nat /\ DOMAIN q = 1..Len(q) /\ kept \subseteq 1..Len(q)
  BY SMT
<1>3. n \in Nat
  <2>1. IsFiniteSet(1..Len(q))
    <3>1. 1 \in Int /\ Len(q) \in Int
      BY SMT, <1>2
    <3>. QED
      BY <3>1, FS_Interval
  <2>2. IsFiniteSet(kept)
    BY <1>2, <2>1, FS_Subset
  <2>. QED
    BY <2>2, FS_CardinalityType
<1>. HIDE DEF n
<1>4. f \in [1..n -> kept] /\ \A k \in kept : \E i \in 1..n : f[i] = k
  BY DEF Bijection, Injection, Surjection
<1>5. \A i \in 1..n : f[i] \in 1..Len(q) /\ q[f[i]] \in Message
  BY SMT, <1>2, <1>4
<1>6. r \in Seq(Message) /\ Len(r) = n /\ \A i \in 1..n : r[i] = q[f[i]]
  <2>1. r = [i \in 1..n |-> q[f[i]]]
    BY <1>1, <1>4
  <2>. QED
    BY SMT, <1>3, <1>5, <2>1
<1>7. q = <<>> => r = <<>>
  <2>. SUFFICES ASSUME q = <<>> PROVE n = 0
    BY SMT, <1>6
  <2>1. 1..n = {}
    BY SMT, <1>5
  <2>. QED
    BY SMT, <2>1, <1>3
<1>8. \A m \in Message : Holds(r, m) => Holds(q, m)
  BY <1>5, <1>6 DEF Holds
<1>9. \A m \in Message : m.call # c /\ Holds(q, m) => Holds(r, m)
  BY SMTT(30), <1>2, <1>4, <1>6 DEF Holds
<1>10. Ordered(q) => Ordered(r)
  <2>. SUFFICES ASSUME Ordered(q), NEW d \in Outgoing, NEW i \in 1..n, NEW j \in 1..n,
                       r[i] = Msg(d, "Offer"), r[j] = Msg(d, "Hangup")
                PROVE  i < j
    BY <1>6 DEF Ordered
  <2>1. f[i] < f[j]
    BY SMT, <1>5, <1>6 DEF Ordered
  <2>2. ~(j < i)
    BY SMTT(30), <1>1, <1>4, <1>5, <2>1
  <2>3. i # j
    BY SMT, <1>5, <2>1
  <2>. QED
    BY SMT, <1>3, <2>2, <2>3
<1>. QED
  BY <1>6, <1>7, <1>8, <1>9, <1>10 DEF Thins

-----------------------------------------------------------------------------
(* Why the parts of the invariant survive a step.                          *)

LEMMA OrderKept ==
  ASSUME OrderInv, Thins(queue, queue'), UNCHANGED sent, didSend \subseteq didSend',
         \A c \in Outgoing : c \in didSend' => c \in started' /\ thread'[CallWorker(c)].pc = "idle",
         \A c \in Outgoing :
           thread'[Manager].pc = "push" /\ thread'[Manager].msg = Msg(c, "Hangup") =>
             c \in didSend'
  PROVE  OrderInv'
<1>1. \A c \in Outgoing : Msg(c, "Offer") \in Message /\ Msg(c, "Hangup") \in Message
  BY Messages DEF Calls, Kind
<1>. QED
  BY <1>1 DEF OrderInv, Thins

LEMMA AnnouncedKept ==
  ASSUME CandidatesAnnounced,
         \A c \in Calls : buffered'[c] > 0 /\ life'[c] = "active" =>
           \/ thread'[ConnWorker(c)].pc = "push"
           \/ Holds(queue', Msg(c, "Ice"))
           \/ /\ buffered[c] > 0 /\ life[c] = "active"
              /\ Holds(queue, Msg(c, "Ice")) => Holds(queue', Msg(c, "Ice"))
              /\ thread[ConnWorker(c)].pc # "push"
  PROVE  CandidatesAnnounced'
BY DEF CandidatesAnnounced, Holds

-----------------------------------------------------------------------------
(* send_next_message.                                                      *)

LEMMA PushStep ==
  ASSUME Types, Inv, NEW t \in Threads, Push(t)
  PROVE  Types' /\ Inv'
<1>. DEFINE to == [thread[t] EXCEPT !.pc = "loop", !.msg = NoMessage]
            m == thread[t].msg
<1>. USE DEF Push, callVars, connVars, history
<1>1. thread \in [Threads -> ThreadState] /\ thread[t] \in ThreadState /\ queue \in Seq(Message)
  BY ThreadTypes DEF Types, TypeOK
<1>2. to \in ThreadState /\ to.pc = "loop" /\ to.then = thread[t].then
  BY <1>1, StepState, Names
<1>3. /\ m \in Message
      /\ \A c \in Outgoing : m = Msg(c, "Offer") => t = CallWorker(c)
      /\ \A c \in Outgoing : m = Msg(c, "Hangup") => t = Manager
      /\ \A c \in Calls : t = ConnWorker(c) => m = Msg(c, "Ice")
  <2>1. CASE t = Manager
    BY SMTT(30), <2>1, Messages, ThreadNames DEF Inv, PushInv, Kind, Calls
  <2>2. ASSUME NEW c \in Calls, t = CallWorker(c)
        PROVE  /\ m \in {Msg(c, "Offer"), Msg(c, "Answer")}
    BY <2>2 DEF Inv, PushInv
  <2>3. ASSUME NEW c \in Calls, t = ConnWorker(c)
        PROVE  /\ m = Msg(c, "Ice")
    BY <2>3 DEF Inv, PushInv
  <2>4. CASE \E c \in Calls : t = CallWorker(c)
    BY SMTT(30), <2>2, <2>4, Messages, ThreadNames DEF Kind, Calls
  <2>5. CASE \E c \in Calls : t = ConnWorker(c)
    BY SMTT(30), <2>3, <2>5, Messages, ThreadNames DEF Kind, Calls
  <2>. QED
    BY <2>1, <2>4, <2>5, ThreadNames
<1>4. Moves(t, to) /\ queue' = Append(queue, m) /\ thread[t].pc = "push"
  OBVIOUS
<1>. HIDE DEF to, m
<1>5. /\ thread' \in [Threads -> ThreadState] /\ thread'[t] = to
      /\ \A u \in Threads : u # t => thread'[u] = thread[u]
  BY <1>2, <1>4, Moved
<1>6. Types'
  <2>1. queue' \in Seq(Message)
    BY SMT, <1>1, <1>3, <1>4, AppendIndex
  <2>. QED
    BY <1>5, <2>1 DEF Types, TypeOK, ThreadState, PC, Then, Live
<1>7. PushInv' /\ DropInv' /\ UnknownInv'
  BY <1>2, <1>4, <1>5, ThreadNames DEF Inv, PushInv, DropInv, UnknownInv
<1>8. StallInv'
  BY <1>2, <1>5 DEF Inv, StallInv
<1>9. CandidatesAnnounced'
  <2>1. \A n : Holds(queue', n) <=> Holds(queue, n) \/ n = m
    BY SMT, <1>1, <1>3, <1>4, AppendHolds
  <2>2. ASSUME NEW c \in Calls
        PROVE  \/ thread'[ConnWorker(c)].pc = "push"
               \/ Holds(queue', Msg(c, "Ice"))
               \/ thread[ConnWorker(c)].pc # "push"
    BY <1>3, <1>5, <2>1, ThreadNames
  <2>. QED
    BY <2>1, <2>2, AnnouncedKept DEF Inv
<1>10. OrderInv'
  <2>1. \A n : Holds(queue', n) <=> Holds(queue, n) \/ n = m
    BY SMT, <1>1, <1>3, <1>4, AppendHolds
  <2>2. \A c \in Outgoing : m = Msg(c, "Offer") => c \notin didSend
    BY <1>3, <1>4 DEF Inv, OrderInv
  <2>3. \A c \in Outgoing : m = Msg(c, "Hangup") => c \in didSend
    BY <1>3, <1>4 DEF Inv, OrderInv, m
  <2>4. Ordered(queue')
    BY <1>1, <1>3, <1>4, <2>2, AppendOrdered DEF Inv, OrderInv
  <2>5. ASSUME NEW c \in Outgoing
        PROVE  /\ c \in didSend => c \in started /\ thread'[CallWorker(c)].pc = "idle"
               /\ Holds(queue', Msg(c, "Offer")) => Msg(c, "Hangup") \notin sent
               /\ \/ Holds(queue', Msg(c, "Hangup"))
                  \/ Msg(c, "Hangup") \in sent
                  \/ thread'[Manager].pc = "push" /\ thread'[Manager].msg = Msg(c, "Hangup")
                  => c \in didSend
    <3>1. c \in Calls /\ CallWorker(c) \in Threads /\ Manager \in Threads
      BY ThreadNames DEF Calls
    <3>2. c \in didSend => CallWorker(c) # t
      BY <1>4 DEF Inv, OrderInv
    <3>. QED
      BY <1>2, <1>5, <2>1, <2>2, <2>3, <3>1, <3>2 DEF Inv, OrderInv
  <2>. QED
    BY <2>4, <2>5 DEF OrderInv
<1>. QED
  BY <1>6, <1>7, <1>8, <1>9, <1>10 DEF Inv

(* A thread whose loop ends. *)
LEMMA ReturnsTo ==
  ASSUME Types, NEW t \in Threads, Returns(t), thread[t].pc = "loop"
  PROVE  \E to \in ThreadState :
           /\ Moves(t, to) /\ to.pc \in {"idle", "store", "drop"}
           /\ "drop" \in {to.pc, to.then} => thread[t].then = "drop"
<1>1. thread[t] \in ThreadState
  BY ThreadTypes DEF Types
<1>2. CASE thread[t].then = "unlock"
  BY <1>2, States DEF Returns
<1>3. CASE thread[t].then # "unlock"
  <2>1. thread[t].then \in {"idle", "store", "drop"} /\ thread[t].then \in PC
    BY <1>1, <1>3, States DEF Then, PC
  <2>. QED
    <3>. DEFINE to == [thread[t] EXCEPT !.pc = thread[t].then]
    <3>1. to \in ThreadState /\ to.pc = thread[t].then /\ to.then = thread[t].then
      BY <1>1, <2>1, StepState
    <3>2. Moves(t, to)
      BY <1>3 DEF Returns
    <3>. HIDE DEF to
    <3>. QED
      BY <2>1, <3>1, <3>2
<1>. QED
  BY <1>2, <1>3

(* The parts of the invariant about threads, when one leaves its loop. *)
LEMMA LoopEnds ==
  ASSUME Types, Inv, NEW t \in Threads, Returns(t), thread[t].pc = "loop",
         UNCHANGED <<tasks, started>>
  PROVE  /\ thread' \in [Threads -> ThreadState]
         /\ PushInv' /\ DropInv'
         /\ thread'[Manager].pc = "push" => UNCHANGED thread[Manager]
         /\ \A u \in Threads : thread[u].pc = "idle" => thread'[u].pc = "idle"
         /\ \A u \in Threads : thread[u].pc = "push" => thread'[u].pc = "push"
<1>1. PICK to \in ThreadState :
        /\ Moves(t, to) /\ to.pc \in {"idle", "store", "drop"}
        /\ "drop" \in {to.pc, to.then} => thread[t].then = "drop"
  BY ReturnsTo
<1>2. /\ thread' \in [Threads -> ThreadState] /\ thread'[t] = to
      /\ \A u \in Threads : u # t => thread'[u] = thread[u]
  BY <1>1, Moved
<1>3. PushInv' /\ DropInv'
  BY <1>1, <1>2, ThreadNames DEF Inv, PushInv, DropInv
<1>. QED
  BY <1>1, <1>2, <1>3, ThreadNames

LEMMA NothingStep ==
  ASSUME Types, Inv, NEW t \in Threads, NothingToSend(t)
  PROVE  Types' /\ Inv'
<1>. USE DEF NothingToSend, queueVars, callVars, connVars, history
<1>1. /\ thread' \in [Threads -> ThreadState]
      /\ PushInv' /\ DropInv'
      /\ thread'[Manager].pc = "push" => UNCHANGED thread[Manager]
      /\ \A u \in Threads : thread[u].pc = "idle" => thread'[u].pc = "idle"
      /\ \A u \in Threads : thread[u].pc = "push" => thread'[u].pc = "push"
  BY LoopEnds
<1>2. Types'
  BY <1>1 DEF Types, TypeOK, ThreadState, PC, Then, Live
<1>3. UnknownInv' /\ StallInv'
  BY DEF Inv, UnknownInv, StallInv
<1>4. CandidatesAnnounced'
  BY <1>1, ThreadNames, AnnouncedKept DEF Inv
<1>5. OrderInv'
  <2>1. Thins(queue, queue')
    BY ThinsSame DEF Types, TypeOK
  <2>. QED
    BY <1>1, <2>1, ThreadNames, OrderKept DEF Inv, OrderInv, Calls
<1>. QED
  BY <1>1, <1>2, <1>3, <1>4, <1>5 DEF Inv

(* The candidates a message takes. *)
LEMMA TakenTypes ==
  ASSUME Types, NEW m \in Message
  PROVE  /\ Taken(m) \in [Calls -> 0..MaxIce]
         /\ \A c \in Calls : Taken(m)[c] > 0 =>
              Taken(m)[c] = buffered[c] /\ m # Msg(c, "Ice")
         /\ \A c \in Calls : buffered[c] = 0 => Taken(m)[c] = 0
<1>1. m.call \in Calls /\ buffered \in [Calls -> 0..MaxIce] /\ MaxIce \in Nat
  BY Messages, MessageQueueAssumption DEF Types, TypeOK
<1>2. \A c \in Calls : m = Msg(c, "Ice") => m.kind = "Ice" /\ m.call = c
  BY SMT DEF Msg
<1>3. CASE m.kind = "Ice"
  BY SMT, <1>1, <1>2, <1>3 DEF Taken
<1>4. CASE m.kind # "Ice"
  BY <1>1, <1>2, <1>4 DEF Taken
<1>. QED
  BY <1>3, <1>4

LEMMA GivesStep ==
  ASSUME Types, Inv, NEW t \in Threads, GivesMessage(t)
  PROVE  Types' /\ Inv'
<1>. DEFINE m == Head(queue)
<1>. USE DEF GivesMessage, callVars
<1>1. /\ queue \in Seq(Message) /\ queue # <<>> /\ m \in Message
      /\ outstanding \in Seq(Message) /\ thread \in [Threads -> ThreadState]
  BY ThreadTypes, TailIndex DEF Types, TypeOK
<1>2. Thins(queue, queue') /\ \A n \in Message : n # m /\ Holds(queue, n) => Holds(queue', n)
  BY <1>1, ThinsTail
<1>3. /\ inFlight' \in BOOLEAN /\ outstanding' \in Seq(Message)
      /\ inFlight' => outstanding' # <<>>
      /\ outstanding # <<>> => outstanding' # <<>>
  BY <1>1, AppendIndex
<1>4. /\ thread' \in [Threads -> ThreadState]
      /\ PushInv' /\ DropInv'
      /\ thread'[Manager].pc = "push" => UNCHANGED thread[Manager]
      /\ \A u \in Threads : thread[u].pc = "idle" => thread'[u].pc = "idle"
      /\ \A u \in Threads : thread[u].pc = "push" => thread'[u].pc = "push"
      /\ inFlight' \/ UNCHANGED thread
  <2>1. CASE inFlight'
    BY <2>1, LoopEnds
  <2>2. CASE ~inFlight'
    BY <1>1, <2>2 DEF Inv, PushInv, DropInv
  <2>. QED
    BY <2>1, <2>2
<1>5. Types'
  <2>1. buffered' \in [Calls -> 0..MaxIce] /\ sent' \subseteq Message /\ last' \in Kind
    BY <1>1, TakenTypes, Messages DEF Types, TypeOK
  <2>2. queue' \in Seq(Message)
    BY <1>2 DEF Thins
  <2>. QED
    BY <1>3, <1>4, <2>1, <2>2 DEF Types, TypeOK, ThreadState, PC, Then, Live
<1>6. UnknownInv'
  BY <1>1, TakenTypes DEF Inv, UnknownInv
<1>7. StallInv'
  BY <1>3, <1>4 DEF Inv, StallInv
<1>8. CandidatesAnnounced'
  <2>1. ASSUME NEW c \in Calls, buffered'[c] > 0
        PROVE  buffered[c] > 0 /\ (Holds(queue, Msg(c, "Ice")) => Holds(queue', Msg(c, "Ice")))
    BY SMT, <1>1, <1>2, <2>1, TakenTypes, Messages DEF Kind
  <2>. QED
    BY <1>4, <2>1, ThreadNames, AnnouncedKept DEF Inv
<1>9. OrderInv'
  <2>1. ASSUME NEW c \in Outgoing
        PROVE  /\ c \in didSend => c \in started /\ thread'[CallWorker(c)].pc = "idle"
               /\ Holds(queue', Msg(c, "Offer")) => Msg(c, "Hangup") \notin sent'
               /\ \/ Holds(queue', Msg(c, "Hangup"))
                  \/ Msg(c, "Hangup") \in sent'
                  \/ thread'[Manager].pc = "push" /\ thread'[Manager].msg = Msg(c, "Hangup")
                  => c \in didSend
    <3>1. /\ c \in Calls /\ Msg(c, "Offer") \in Message /\ Msg(c, "Hangup") \in Message
          /\ CallWorker(c) \in Threads /\ Manager \in Threads
      BY Messages, ThreadNames DEF Calls, Kind
    <3>2. sent' = sent \/ sent' = sent \cup {m}
      OBVIOUS
    <3>3. m = Msg(c, "Hangup") => ~Holds(queue, Msg(c, "Offer")) /\ Holds(queue, Msg(c, "Hangup"))
      BY <1>1, HeadHangup, ThinsTail DEF Inv, OrderInv
    <3>4. /\ c \in didSend => c \in started /\ thread[CallWorker(c)].pc = "idle"
          /\ Holds(queue, Msg(c, "Offer")) => Msg(c, "Hangup") \notin sent
          /\ \/ Holds(queue, Msg(c, "Hangup"))
             \/ Msg(c, "Hangup") \in sent
             \/ thread[Manager].pc = "push" /\ thread[Manager].msg = Msg(c, "Hangup")
             => c \in didSend
      BY DEF Inv, OrderInv
    <3>5. /\ Holds(queue', Msg(c, "Offer")) => Holds(queue, Msg(c, "Offer"))
          /\ Holds(queue', Msg(c, "Hangup")) => Holds(queue, Msg(c, "Hangup"))
      BY <1>2, <3>1 DEF Thins
    <3>. QED
      BY <1>4, <3>1, <3>2, <3>3, <3>4, <3>5
  <2>2. Ordered(queue')
    BY <1>2 DEF Thins, Inv, OrderInv
  <2>. QED
    BY <2>1, <2>2 DEF OrderInv
<1>. QED
  BY <1>4, <1>5, <1>6, <1>7, <1>8, <1>9 DEF Inv

-----------------------------------------------------------------------------
(* Ending a call, with q what the queue held then.                         *)

LEMMA EndsCall ==
  ASSUME Types, NEW c \in Calls, NEW hangup \in BOOLEAN, NEW q \in Seq(Message),
         EndCall(c, hangup, q)
  PROVE  /\ active' \in Calls \cup {None} /\ life' \in [Calls -> Life]
         /\ hungUp' \subseteq Calls /\ tasks' \in Seq(Task) /\ tasks' # <<>>
         /\ IsFiniteSet(Live')
         /\ Thins(q, queue')
         /\ \A d \in Calls : life'[d] \in {"active", "unknown"} => life'[d] = life[d] /\ d # c
         /\ \A d \in Calls : d # c /\ Holds(q, Msg(d, "Ice")) => Holds(queue', Msg(d, "Ice"))
<1>. USE DEF EndCall
<1>1. life \in [Calls -> Life] /\ tasks \in Seq(Task)
  BY DEF Types, TypeOK, Life, Task
<1>2. life' \in [Calls -> Life] /\ life'[c] = "ended" /\ \A d \in Calls : d # c => life'[d] = life[d]
  BY <1>1 DEF Life
<1>3. IsFiniteSet(Live')
  <2>1. Live' \subseteq Live \cup {c}
    BY <1>2 DEF Live
  <2>2. IsFiniteSet(Live \cup {c})
    BY FS_AddElement DEF Types
  <2>. QED
    BY <2>1, <2>2, FS_Subset
<1>4. tasks' \in Seq(Task) /\ tasks' # <<>>
  <2>1. [call |-> c, hangup |-> hangup] \in Task
    BY DEF Task
  <2>. QED
    BY SMT, <1>1, <2>1, AppendProperties
<1>5. /\ Thins(q, queue')
      /\ \A d \in Calls : d # c /\ Holds(q, Msg(d, "Ice")) => Holds(queue', Msg(d, "Ice"))
  BY SMT, Trimmed, Messages DEF Kind
<1>6. active' \in Calls \cup {None} /\ hungUp' \subseteq Calls
  BY DEF Types, TypeOK
<1>. QED
  BY <1>2, <1>3, <1>4, <1>5, <1>6

(* Threads stay, or the manager begins to send. *)
StaysOrLoops ==
  /\ thread' \in [Threads -> ThreadState]
  /\ \A u \in Threads :
       thread'[u] = thread[u] \/ (u = Manager /\ thread[u].pc = "idle" /\ thread'[u] = Loops)

LEMMA ThreadsKept ==
  ASSUME Types, Inv, StaysOrLoops, UNCHANGED started,
         tasks' # <<>> \/ UNCHANGED tasks
  PROVE  /\ PushInv' /\ DropInv'
         /\ thread'[Manager].pc = "push" => UNCHANGED thread[Manager]
         /\ \A c \in Calls : /\ thread'[CallWorker(c)] = thread[CallWorker(c)]
                             /\ thread'[ConnWorker(c)] = thread[ConnWorker(c)]
<1>1. \A c \in Calls : /\ thread'[CallWorker(c)] = thread[CallWorker(c)]
                       /\ thread'[ConnWorker(c)] = thread[ConnWorker(c)]
  BY ThreadNames DEF StaysOrLoops
<1>2. thread'[Manager] \in {thread[Manager], Loops} /\ Loops.pc = "loop" /\ Loops.then = "idle"
  BY ThreadNames, States DEF StaysOrLoops
<1>. QED
  BY <1>1, <1>2 DEF Inv, PushInv, DropInv

LEMMA EndKeeps ==
  ASSUME Types, Inv, NEW c \in Calls, NEW hangup \in BOOLEAN, NEW q, Thins(queue, q),
         EndCall(c, hangup, q), StaysOrLoops,
         UNCHANGED <<started, open, didSend, sent>>,
         \A d \in Calls : buffered[d] = 0 => buffered'[d] = 0,
         \A d \in Calls : buffered'[d] > 0 =>
           buffered[d] > 0 /\ (Holds(queue, Msg(d, "Ice")) => Holds(q, Msg(d, "Ice"))),
         StallInv'
  PROVE  Inv'
<1>1. q \in Seq(Message)
  BY DEF Thins
<1>2. /\ tasks' # <<>> /\ Thins(q, queue')
      /\ \A d \in Calls : life'[d] \in {"active", "unknown"} => life'[d] = life[d] /\ d # c
      /\ \A d \in Calls : d # c /\ Holds(q, Msg(d, "Ice")) => Holds(queue', Msg(d, "Ice"))
  BY <1>1, EndsCall
<1>3. /\ PushInv' /\ DropInv'
      /\ thread'[Manager].pc = "push" => UNCHANGED thread[Manager]
      /\ \A d \in Calls : /\ thread'[CallWorker(d)] = thread[CallWorker(d)]
                          /\ thread'[ConnWorker(d)] = thread[ConnWorker(d)]
  BY <1>2, ThreadsKept
<1>4. UnknownInv'
  BY <1>2 DEF Inv, UnknownInv
<1>5. CandidatesAnnounced'
  BY <1>2, <1>3, AnnouncedKept DEF Inv
<1>6. OrderInv'
  <2>1. Thins(queue, queue')
    BY <1>2, ThinsAgain
  <2>. QED
    BY <1>3, <2>1, OrderKept DEF Inv, OrderInv, Calls
<1>. QED
  BY <1>3, <1>4, <1>5, <1>6 DEF Inv

LEMMA FailsStep ==
  ASSUME Types, Inv, NEW t \in Threads, MessageFails(t)
  PROVE  Types' /\ Inv'
<1>. DEFINE m == Head(queue)
            q == Tail(queue)
<1>. USE DEF MessageFails
<1>1. /\ queue \in Seq(Message) /\ queue # <<>> /\ m \in Message /\ m.call \in Calls
      /\ thread \in [Threads -> ThreadState] /\ thread[t].pc = "loop"
  BY ThreadTypes, TailIndex, Messages DEF Types, TypeOK
<1>2. /\ Thins(queue, q) /\ q \in Seq(Message)
      /\ \A n \in Message : n # m /\ Holds(queue, n) => Holds(q, n)
  BY <1>1, ThinsTail DEF Thins
<1>3. /\ buffered' \in [Calls -> 0..MaxIce]
      /\ \A d \in Calls : buffered[d] = 0 => buffered'[d] = 0
      /\ \A d \in Calls : buffered'[d] > 0 =>
           buffered[d] > 0 /\ (Holds(queue, Msg(d, "Ice")) => Holds(q, Msg(d, "Ice")))
  <2>1. /\ buffered' = Taken(m)
        /\ Taken(m) \in [Calls -> 0..MaxIce]
        /\ \A d \in Calls : Taken(m)[d] > 0 => Taken(m)[d] = buffered[d] /\ m # Msg(d, "Ice")
        /\ \A d \in Calls : buffered[d] = 0 => Taken(m)[d] = 0
    BY <1>1, TakenTypes
  <2>2. \A d \in Calls : Msg(d, "Ice") \in Message
    BY Messages, Names
  <2>. QED
    BY <1>2, <2>1, <2>2
<1>4. inputs' \in 0..MaxInputs /\ gaveUp' \subseteq Calls
  BY <1>1, InputTypes DEF Types, TypeOK
<1>5. CASE /\ t = Manager /\ queue' = q /\ Moves(t, [thread[t] EXCEPT !.pc = "stuck"])
           /\ UNCHANGED callVars
  <2>. DEFINE to == [thread[t] EXCEPT !.pc = "stuck"]
  <2>1. to \in ThreadState /\ to.pc = "stuck" /\ to.then = thread[t].then
    BY <1>1, States DEF PC
  <2>2. Moves(t, to)
    BY <1>5
  <2>. HIDE DEF to
  <2>3. /\ thread' \in [Threads -> ThreadState] /\ thread'[t] = to
        /\ \A u \in Threads : u # t => thread'[u] = thread[u]
    BY <2>1, <2>2, Moved
  <2>4. Types'
    BY <1>2, <1>3, <1>4, <1>5, <2>3 DEF Types, TypeOK, ThreadState, PC, Then, Live, callVars
  <2>5. PushInv'
    BY <1>5, <2>1, <2>3, ThreadNames DEF Inv, PushInv
  <2>6. DropInv' /\ UnknownInv'
    BY <1>3, <1>5, <2>1, <2>3 DEF Inv, DropInv, UnknownInv, callVars
  <2>7. StallInv'
    BY <2>1, <2>3 DEF Inv, StallInv
  <2>8. CandidatesAnnounced'
    BY <1>3, <1>5, <2>3, ThreadNames, AnnouncedKept DEF Inv, callVars
  <2>9. OrderInv'
    BY <1>2, <1>5, <2>1, <2>3, ThreadNames, OrderKept DEF Inv, OrderInv, Calls
  <2>. QED
    BY <2>4, <2>5, <2>6, <2>7, <2>8, <2>9 DEF Inv
<1>6. CASE UNCHANGED thread /\ internal_error(m.call, q)
  <2>1. StallInv' /\ StaysOrLoops
    BY <1>1, <1>6 DEF Inv, StallInv, StaysOrLoops
  <2>2. ASSUME NEW hangup \in BOOLEAN, EndCall(m.call, hangup, q)
        PROVE  Types' /\ Inv'
    <3>1. /\ active' \in Calls \cup {None} /\ life' \in [Calls -> Life]
          /\ hungUp' \subseteq Calls /\ tasks' \in Seq(Task) /\ IsFiniteSet(Live')
          /\ Thins(q, queue')
      BY <1>1, <1>2, <2>2, EndsCall
    <3>2. Types'
      BY <1>3, <1>4, <1>6, <3>1 DEF Types, TypeOK, Thins, Life, Task
    <3>3. Inv'
      BY <1>1, <1>2, <1>3, <2>1, <2>2, EndKeeps
    <3>. QED
      BY <3>2, <3>3
  <2>3. CASE queue' = q /\ UNCHANGED callVars
    <3>1. Types'
      BY <1>2, <1>3, <1>4, <1>6, <2>3 DEF Types, TypeOK, Live, callVars
    <3>2. PushInv' /\ DropInv' /\ UnknownInv'
      BY <1>3, <1>6, <2>3 DEF Inv, PushInv, DropInv, UnknownInv, callVars
    <3>3. CandidatesAnnounced'
      BY <1>3, <1>6, <2>3, AnnouncedKept DEF Inv, callVars
    <3>4. OrderInv'
      BY <1>2, <1>6, <2>3, OrderKept DEF Inv, OrderInv
    <3>. QED
      BY <2>1, <3>1, <3>2, <3>3, <3>4 DEF Inv
  <2>4. (\E hangup \in BOOLEAN : EndCall(m.call, hangup, q)) \/ (queue' = q /\ UNCHANGED callVars)
    BY <1>6 DEF internal_error, HangupOnFailure
  <2>. QED
    BY <2>2, <2>3, <2>4
<1>. QED
  BY <1>5, <1>6

-----------------------------------------------------------------------------
(* The workers of calls and connections.                                   *)

LEMMA CallEndsStep ==
  ASSUME Types, Inv, NEW c \in Calls, CallEnds(c)
  PROVE  Types' /\ Inv'
<1>. USE DEF CallEnds, connVars, history
<1>1. PICK hangup \in BOOLEAN : EndCall(c, hangup, queue)
  OBVIOUS
<1>2. queue \in Seq(Message) /\ Thins(queue, queue) /\ StaysOrLoops
  BY ThreadTypes, ThinsSame DEF Types, TypeOK, StaysOrLoops
<1>3. /\ active' \in Calls \cup {None} /\ life' \in [Calls -> Life]
      /\ hungUp' \subseteq Calls /\ tasks' \in Seq(Task) /\ IsFiniteSet(Live')
      /\ Thins(queue, queue')
  BY <1>1, <1>2, EndsCall
<1>4. Types'
  BY <1>3, InputTypes DEF Types, TypeOK, Thins, Life, Task
<1>5. StallInv'
  BY <1>3 DEF Inv, StallInv, Thins
<1>6. Inv'
  BY <1>1, <1>2, <1>5, EndKeeps
<1>. QED
  BY <1>4, <1>6

LEMMA HangupStep ==
  ASSUME Types, Inv, handle_hangup
  PROVE  Types' /\ Inv'
<1>. USE DEF handle_hangup, connVars, history
<1>1. active \in Calls /\ EndCall(active, TRUE, queue) /\ inputs' \in 0..MaxInputs
  BY InputTypes DEF Types, TypeOK, Request
<1>2. queue \in Seq(Message) /\ Thins(queue, queue) /\ StaysOrLoops
  BY ThreadTypes, ThinsSame DEF Types, TypeOK, StaysOrLoops
<1>3. /\ active' \in Calls \cup {None} /\ life' \in [Calls -> Life]
      /\ hungUp' \subseteq Calls /\ tasks' \in Seq(Task) /\ IsFiniteSet(Live')
      /\ Thins(queue, queue')
  BY <1>1, <1>2, EndsCall
<1>4. Types'
  BY <1>1, <1>3 DEF Types, TypeOK, Thins, Life, Task
<1>5. StallInv'
  BY <1>3 DEF Inv, StallInv, Thins
<1>6. Inv'
  BY <1>1, <1>2, <1>5, EndKeeps
<1>. QED
  BY <1>4, <1>6

LEMMA ProceedStep ==
  ASSUME Types, Inv, NEW c \in Calls, proceed(c)
  PROVE  Types' /\ Inv'
<1>. DEFINE t == CallWorker(c)
            to == IF c \in Outgoing THEN Pushes(Msg(c, "Offer"), "store")
                                    ELSE Pushes(Msg(c, "Answer"), "idle")
<1>. USE DEF proceed, queueVars, callVars, history
<1>1. /\ to \in ThreadState /\ to.pc = "push"
      /\ to.msg \in {Msg(c, "Offer"), Msg(c, "Answer")}
  <2>1. Msg(c, "Offer") \in Message /\ Msg(c, "Answer") \in Message
    BY Messages, Names
  <2>2. CASE c \in Outgoing
    BY <2>1, <2>2, Names DEF Pushes, ThreadState
  <2>3. CASE c \notin Outgoing
    BY <2>1, <2>3, Names DEF Pushes, ThreadState
  <2>. QED
    BY <2>2, <2>3
<1>2. Moves(t, to) /\ t \in Threads /\ thread[t].pc = "idle"
  BY ThreadNames
<1>. HIDE DEF to
<1>3. /\ thread' \in [Threads -> ThreadState] /\ thread'[t] = to
      /\ \A u \in Threads : u # t => thread'[u] = thread[u]
  BY <1>1, <1>2, Moved
<1>4. Types'
  BY <1>3 DEF Types, TypeOK, ThreadState, PC, Then, Live
<1>5. PushInv' /\ DropInv' /\ UnknownInv'
  BY <1>1, <1>3, ThreadNames DEF Inv, PushInv, DropInv, UnknownInv
<1>6. StallInv'
  BY <1>2, <1>3 DEF Inv, StallInv
<1>7. CandidatesAnnounced'
  BY <1>3, ThreadNames, AnnouncedKept DEF Inv
<1>8. OrderInv'
  <2>1. Thins(queue, queue')
    BY ThinsSame DEF Types, TypeOK
  <2>2. ASSUME NEW d \in Outgoing, d \in didSend PROVE d \in started' /\ thread'[CallWorker(d)].pc = "idle"
    <3>1. d \in started /\ thread[CallWorker(d)].pc = "idle" /\ d # c /\ d \in Calls
      BY <2>2 DEF Inv, OrderInv, Calls
    <3>. QED
      BY <1>3, <3>1, ThreadNames
  <2>. QED
    BY <1>3, <2>1, <2>2, ThreadNames, OrderKept DEF Inv, OrderInv
<1>. QED
  BY <1>4, <1>5, <1>6, <1>7, <1>8 DEF Inv

LEMMA StoresStep ==
  ASSUME Types, Inv, NEW c \in Calls, StoresDidSendOffer(c)
  PROVE  Types' /\ Inv'
<1>. DEFINE t == CallWorker(c)
<1>. USE DEF StoresDidSendOffer, queueVars, callVars, history
<1>1. Moves(t, Idle) /\ t \in Threads /\ thread[t].pc = "store" /\ Idle \in ThreadState
      /\ Idle.pc = "idle" /\ Idle.then = "idle"
  BY ThreadNames, States
<1>2. /\ thread' \in [Threads -> ThreadState] /\ thread'[t] = Idle
      /\ \A u \in Threads : u # t => thread'[u] = thread[u]
  BY <1>1, Moved
<1>3. Types'
  BY <1>2 DEF Types, TypeOK, ThreadState, PC, Then, Live
<1>4. PushInv' /\ DropInv' /\ UnknownInv'
  BY <1>1, <1>2, ThreadNames DEF Inv, PushInv, DropInv, UnknownInv
<1>5. StallInv'
  BY <1>1, <1>2 DEF Inv, StallInv
<1>6. CandidatesAnnounced'
  BY <1>2, ThreadNames, AnnouncedKept DEF Inv
<1>7. OrderInv'
  <2>1. Thins(queue, queue')
    BY ThinsSame DEF Types, TypeOK
  <2>2. c \in started
    BY <1>1 DEF Inv, PushInv
  <2>3. ASSUME NEW d \in Outgoing, d \in didSend'
        PROVE  d \in started' /\ thread'[CallWorker(d)].pc = "idle"
    BY <1>1, <1>2, <2>2, <2>3, ThreadNames DEF Inv, OrderInv, Calls
  <2>. QED
    BY <1>2, <2>1, <2>3, ThreadNames, OrderKept DEF Inv, OrderInv
<1>. QED
  BY <1>3, <1>4, <1>5, <1>6, <1>7 DEF Inv

LEMMA BufferStep ==
  ASSUME Types, Inv, NEW c \in Calls, buffer_local_ice_candidates(c)
  PROVE  Types' /\ Inv'
<1>. DEFINE t == ConnWorker(c)
            to == Pushes(Msg(c, "Ice"), "idle")
<1>. USE DEF buffer_local_ice_candidates, queueVars, callVars, history
<1>1. /\ buffered' \in [Calls -> 0..MaxIce] /\ buffered[c] \in Nat
      /\ \A d \in Calls : d # c => buffered'[d] = buffered[d]
      /\ inputs' \in 0..MaxInputs
  BY SMT, InputTypes, MessageQueueAssumption DEF Types, TypeOK
<1>2. to \in ThreadState /\ to.pc = "push" /\ to.msg = Msg(c, "Ice") /\ t \in Threads
  <2>1. Msg(c, "Ice") \in Message
    BY Messages, Names
  <2>. QED
    BY <2>1, Names, ThreadNames DEF Pushes, ThreadState
<1>3. (buffered[c] = 0 /\ Moves(t, to)) \/ ((buffered[c] # 0 \/ life[c] # "active") /\ UNCHANGED thread)
  OBVIOUS
<1>. HIDE DEF to
<1>4. /\ thread' \in [Threads -> ThreadState]
      /\ \A u \in Threads : u # t => thread'[u] = thread[u]
      /\ \/ thread'[t] = to
         \/ thread'[t] = thread[t] /\ (buffered[c] # 0 \/ life[c] # "active")
  BY <1>2, <1>3, Moved, ThreadTypes DEF Types
<1>5. Types'
  BY <1>1, <1>4 DEF Types, TypeOK, ThreadState, PC, Then, Live
<1>6. PushInv' /\ DropInv'
  BY <1>2, <1>4, ThreadNames DEF Inv, PushInv, DropInv
<1>7. UnknownInv'
  BY <1>1 DEF Inv, UnknownInv
<1>8. StallInv'
  BY <1>2, <1>4 DEF Inv, StallInv
<1>9. CandidatesAnnounced'
  <2>1. ASSUME NEW d \in Calls, buffered'[d] > 0, life[d] = "active"
        PROVE  \/ thread'[ConnWorker(d)].pc = "push"
               \/ buffered[d] > 0 /\ thread[ConnWorker(d)].pc # "push"
    BY SMTT(30), <1>1, <1>2, <1>4, <2>1, ThreadNames
  <2>. QED
    BY <2>1, AnnouncedKept DEF Inv
<1>10. OrderInv'
  <2>1. Thins(queue, queue')
    BY ThinsSame DEF Types, TypeOK
  <2>. QED
    BY SMT, <1>4, <2>1, ThreadNames, OrderKept DEF Inv, OrderInv, Calls
<1>. QED
  BY <1>5, <1>6, <1>7, <1>8, <1>9, <1>10 DEF Inv

(* Steps that change no queue, thread or candidate. *)
LEMMA CallsOnly ==
  ASSUME Types, Inv, UNCHANGED <<queue, thread, sent, didSend, tasks, outstanding>>,
         inFlight' => inFlight, started' = started, open' \subseteq open, buffered' = buffered,
         \A c \in Calls : life'[c] = "unknown" => life[c] = "unknown",
         \A c \in Calls : life'[c] = "active" => life[c] = "active" \/ buffered[c] = 0
  PROVE  Inv'
<1>1. PushInv' /\ DropInv' /\ UnknownInv' /\ StallInv'
  BY DEF Inv, PushInv, DropInv, UnknownInv, StallInv
<1>2. CandidatesAnnounced'
  BY SMT DEF Inv, CandidatesAnnounced
<1>3. OrderInv'
  BY DEF Inv, OrderInv
<1>. QED
  BY <1>1, <1>2, <1>3 DEF Inv

LEMMA TerminatesStep ==
  ASSUME Types, Inv, NEW c \in Calls, ConnectionTerminates(c)
  PROVE  Types' /\ Inv'
<1>. USE DEF ConnectionTerminates, queueVars, callVars, history
<1>1. Types'
  BY DEF Types, TypeOK, Live
<1>2. Inv'
  BY CallsOnly
<1>. QED
  BY <1>1, <1>2

-----------------------------------------------------------------------------
(* The manager's worker.                                                   *)

LEMMA StartStep ==
  ASSUME Types, Inv, NEW c \in Calls, StartCall(c)
  PROVE  Types' /\ Inv'
<1>. USE DEF StartCall, connVars, history
<1>1. /\ life' \in [Calls -> Life] /\ life'[c] = "active"
      /\ \A d \in Calls : d # c => life'[d] = life[d]
      /\ inputs' \in 0..MaxInputs
  BY InputTypes DEF Types, TypeOK, Life, Request
<1>2. IsFiniteSet(Live')
  <2>1. Live' \subseteq Live \cup {c}
    BY <1>1 DEF Live
  <2>2. IsFiniteSet(Live \cup {c})
    BY FS_AddElement DEF Types
  <2>. QED
    BY <2>1, <2>2, FS_Subset
<1>3. Types'
  BY <1>1, <1>2 DEF Types, TypeOK, Life
<1>4. Inv'
  <2>1. buffered[c] = 0
    BY DEF Inv, UnknownInv
  <2>. QED
    BY <1>1, <2>1, CallsOnly
<1>. QED
  BY <1>3, <1>4

LEMMA BusyStep ==
  ASSUME Types, Inv, NEW c \in Calls, send_busy(c)
  PROVE  Types' /\ Inv'
<1>. DEFINE to == Pushes(Msg(c, "Busy"), "unlock")
<1>. USE DEF send_busy, queueVars, connVars, history
<1>1. /\ life' \in [Calls -> Life] /\ life'[c] = "dropped"
      /\ \A d \in Calls : d # c => life'[d] = life[d]
      /\ inputs' \in 0..MaxInputs /\ thread[Manager].pc = "idle"
  BY InputTypes DEF Types, TypeOK, Life, Request
<1>2. /\ to \in ThreadState /\ to.pc = "push" /\ to.msg = Msg(c, "Busy") /\ to.then = "unlock"
      /\ Manager \in Threads /\ Moves(Manager, to)
  <2>1. Msg(c, "Busy") \in Message
    BY Messages, Names
  <2>. QED
    BY <2>1, Names, ThreadNames DEF Pushes, ThreadState
<1>. HIDE DEF to
<1>3. /\ thread' \in [Threads -> ThreadState] /\ thread'[Manager] = to
      /\ \A u \in Threads : u # Manager => thread'[u] = thread[u]
  BY <1>2, Moved
<1>4. Types'
  <2>1. IsFiniteSet(Live')
    <3>1. Live' \subseteq Live
      BY <1>1 DEF Live
    <3>. QED
      BY <3>1, FS_Subset DEF Types
  <2>. QED
    BY <1>1, <1>3, <2>1 DEF Types, TypeOK, ThreadState, PC, Then, Life
<1>5. PushInv' /\ DropInv' /\ UnknownInv'
  BY SMT, <1>1, <1>2, <1>3, ThreadNames DEF Inv, PushInv, DropInv, UnknownInv
<1>6. StallInv'
  BY <1>1, <1>3 DEF Inv, StallInv
<1>7. CandidatesAnnounced'
  BY <1>1, <1>3, ThreadNames, AnnouncedKept DEF Inv
<1>8. OrderInv'
  <2>1. Thins(queue, queue')
    BY ThinsSame DEF Types, TypeOK
  <2>2. \A d \in Outgoing : to.msg # Msg(d, "Hangup")
    BY SMT, <1>2 DEF Msg
  <2>. QED
    BY <1>3, <2>1, <2>2, ThreadNames, OrderKept DEF Inv, OrderInv, Calls
<1>. QED
  BY <1>4, <1>5, <1>6, <1>7, <1>8 DEF Inv

(* A report of the application is taken off. *)
LEMMA ReportedTypes ==
  ASSUME Types, NEW i \in 1..Len(outstanding), Reported(i)
  PROVE  outstanding[i] \in Message /\ outstanding' \in Seq(Message)
<1>1. outstanding \in Seq(Message) /\ i \in Nat /\ Len(outstanding) \in Nat /\ 1 <= i
      /\ i <= Len(outstanding)
  BY SMT DEF Types, TypeOK
<1>2. SubSeq(outstanding, 1, i - 1) \in Seq(Message)
  BY SMT, <1>1, SubSeqProperties
<1>3. SubSeq(outstanding, i + 1, Len(outstanding)) \in Seq(Message)
  BY SMT, <1>1, SubSeqProperties
<1>. QED
  BY SMT, <1>1, <1>2, <1>3, ConcatProperties DEF Reported

(* The manager begins to send. *)
LEMMA ManagerLoops ==
  ASSUME Types, thread[Manager].pc = "idle", Moves(Manager, Loops)
  PROVE  StaysOrLoops /\ thread'[Manager].pc = "loop"
<1>1. Manager \in Threads /\ Loops \in ThreadState /\ Loops.pc = "loop"
  BY ThreadNames, States
<1>. QED
  BY <1>1, Moved DEF StaysOrLoops

LEMMA SentStep ==
  ASSUME Types, Inv, handle_message_sent
  PROVE  Types' /\ Inv'
<1>. USE DEF handle_message_sent, callVars, connVars, history
<1>1. StaysOrLoops /\ thread'[Manager].pc = "loop"
  BY ManagerLoops
<1>2. Types'
  BY <1>1, ReportedTypes DEF Types, TypeOK, StaysOrLoops, ThreadState, PC, Then, Live
<1>3. StallInv'
  BY <1>1, ThreadNames DEF StallInv
<1>4. /\ PushInv' /\ DropInv'
      /\ thread'[Manager].pc = "push" => UNCHANGED thread[Manager]
      /\ \A c \in Calls : /\ thread'[CallWorker(c)] = thread[CallWorker(c)]
                          /\ thread'[ConnWorker(c)] = thread[ConnWorker(c)]
  BY <1>1, ThreadsKept
<1>5. UnknownInv' /\ CandidatesAnnounced'
  BY <1>4, AnnouncedKept DEF Inv, UnknownInv
<1>6. OrderInv'
  <2>1. Thins(queue, queue')
    BY ThinsSame DEF Types, TypeOK
  <2>. QED
    BY <1>4, <2>1, OrderKept DEF Inv, OrderInv, Calls
<1>. QED
  BY <1>2, <1>3, <1>4, <1>5, <1>6 DEF Inv

LEMMA SendFailureStep ==
  ASSUME Types, Inv, handle_message_send_failure
  PROVE  Types' /\ Inv'
<1>. USE DEF handle_message_send_failure, connVars
<1>1. StaysOrLoops /\ thread'[Manager].pc = "loop"
  BY ManagerLoops DEF Request
<1>2. PICK i \in 1..Len(outstanding) :
        LET c == outstanding[i].call
        IN /\ Reported(i)
           /\ \/ \E hangup \in HangupOnFailure(c) : EndCall(c, hangup, queue)
              \/ UNCHANGED <<queue, callVars>>
           /\ gaveUp' = gaveUp \cup {c}
  OBVIOUS
<1>. DEFINE c == outstanding[i].call
<1>3. outstanding[i] \in Message /\ outstanding' \in Seq(Message) /\ c \in Calls
  BY <1>2, ReportedTypes, Messages
<1>4. inputs' \in 0..MaxInputs /\ gaveUp' \subseteq Calls
  BY <1>2, <1>3, InputTypes DEF Types, TypeOK, Request
<1>5. StallInv'
  BY <1>1, ThreadNames DEF StallInv
<1>6. queue \in Seq(Message) /\ Thins(queue, queue)
  BY ThinsSame DEF Types, TypeOK
<1>7. ASSUME NEW hangup \in BOOLEAN, EndCall(c, hangup, queue)
      PROVE  Types' /\ Inv'
  <2>1. /\ active' \in Calls \cup {None} /\ life' \in [Calls -> Life]
        /\ hungUp' \subseteq Calls /\ tasks' \in Seq(Task) /\ IsFiniteSet(Live')
        /\ Thins(queue, queue')
    BY <1>3, <1>6, <1>7, EndsCall
  <2>2. Types'
    BY <1>1, <1>3, <1>4, <2>1 DEF Types, TypeOK, Thins, Life, Task, StaysOrLoops, ThreadState, PC, Then
  <2>3. Inv'
    BY <1>1, <1>3, <1>5, <1>6, <1>7, EndKeeps
  <2>. QED
    BY <2>2, <2>3
<1>8. CASE UNCHANGED <<queue, callVars>>
  <2>1. Types'
    BY <1>1, <1>3, <1>4, <1>8 DEF Types, TypeOK, StaysOrLoops, ThreadState, PC, Then, Live, callVars
  <2>2. /\ PushInv' /\ DropInv'
        /\ thread'[Manager].pc = "push" => UNCHANGED thread[Manager]
        /\ \A d \in Calls : /\ thread'[CallWorker(d)] = thread[CallWorker(d)]
                            /\ thread'[ConnWorker(d)] = thread[ConnWorker(d)]
    BY <1>1, <1>8, ThreadsKept DEF callVars
  <2>3. UnknownInv' /\ CandidatesAnnounced'
    BY <1>8, <2>2, AnnouncedKept DEF Inv, UnknownInv, callVars
  <2>4. OrderInv'
    BY <1>6, <1>8, <2>2, OrderKept DEF Inv, OrderInv, Calls
  <2>. QED
    BY <1>5, <2>1, <2>2, <2>3, <2>4 DEF Inv
<1>9. (\E hangup \in BOOLEAN : EndCall(c, hangup, queue)) \/ UNCHANGED <<queue, callVars>>
  BY <1>2 DEF HangupOnFailure
<1>. QED
  BY <1>7, <1>8, <1>9

LEMMA TaskStep ==
  ASSUME Types, Inv, TerminateTask
  PROVE  Types' /\ Inv'
<1>. DEFINE c == Head(tasks).call
            pushes == Head(tasks).hangup /\ should_send_hangup(c)
            to == IF pushes THEN Pushes(Msg(c, "Hangup"), "drop") ELSE [Idle EXCEPT !.pc = "drop"]
<1>. USE DEF TerminateTask, queueVars, callVars, connVars
<1>1. tasks # <<>> /\ c \in Calls
  <2>1. tasks \in Seq(Task)
    BY DEF Types, TypeOK, Task
  <2>2. Head(tasks) \in Task
    BY <2>1, HeadTailProperties
  <2>. QED
    BY <2>2 DEF Task
<1>2. /\ to \in ThreadState /\ to.pc \in {"push", "drop"}
      /\ to.pc = "push" => to.msg = Msg(c, "Hangup") /\ should_send_hangup(c)
  <2>1. Msg(c, "Hangup") \in Message
    BY <1>1, Messages, Names
  <2>2. CASE pushes
    BY <2>1, <2>2, Names DEF Pushes, ThreadState
  <2>3. CASE ~pushes
    BY <2>3, Names DEF Idle, ThreadState
  <2>. QED
    BY <2>2, <2>3
<1>3. Manager \in Threads /\ Moves(Manager, to) /\ thread[Manager].pc = "idle"
  BY ThreadNames
<1>. HIDE DEF to, pushes
<1>4. /\ thread' \in [Threads -> ThreadState] /\ thread'[Manager] = to
      /\ \A u \in Threads : u # Manager => thread'[u] = thread[u]
  BY <1>2, <1>3, Moved
<1>5. Types'
  <2>1. overtaken' \subseteq Calls
    BY <1>1 DEF Types, TypeOK
  <2>. QED
    BY <1>4, <2>1 DEF Types, TypeOK, ThreadState, PC, Then, Live
<1>6. PushInv' /\ DropInv' /\ UnknownInv'
  BY <1>1, <1>2, <1>4, ThreadNames DEF Inv, PushInv, DropInv, UnknownInv
<1>7. StallInv'
  BY <1>3, <1>4 DEF Inv, StallInv
<1>8. CandidatesAnnounced'
  BY <1>4, ThreadNames, AnnouncedKept DEF Inv
<1>9. OrderInv'
  <2>1. Thins(queue, queue')
    BY ThinsSame DEF Types, TypeOK
  <2>2. ASSUME NEW d \in Outgoing, to.pc = "push", to.msg = Msg(d, "Hangup") PROVE d \in didSend
    <3>1. d = c
      BY SMT, <1>2, <2>2 DEF Msg
    <3>. QED
      BY <1>2, <2>2, <3>1, MessageQueueAssumption DEF should_send_hangup
  <2>. QED
    BY <1>4, <2>1, <2>2, ThreadNames, OrderKept DEF Inv, OrderInv, Calls
<1>. QED
  BY <1>5, <1>6, <1>7, <1>8, <1>9 DEF Inv

LEMMA DropStep ==
  ASSUME Types, Inv, terminate_and_drop_call
  PROVE  Types' /\ Inv'
<1>. DEFINE c == Head(tasks).call
<1>. USE DEF terminate_and_drop_call, queueVars, history
<1>1. c \in Calls /\ tasks' \in Seq(Task)
  <2>1. tasks \in Seq(Task) /\ tasks # <<>>
    BY DEF Types, TypeOK, Task, Inv, DropInv
  <2>2. Head(tasks) \in Task /\ Tail(tasks) \in Seq(Task)
    BY <2>1, HeadTailProperties
  <2>. QED
    BY <2>2 DEF Task
<1>2. /\ Manager \in Threads /\ Moves(Manager, Idle) /\ thread[Manager].pc = "drop"
      /\ Idle \in ThreadState /\ Idle.pc = "idle" /\ Idle.then = "idle"
  BY ThreadNames, States
<1>3. /\ thread' \in [Threads -> ThreadState] /\ thread'[Manager] = Idle
      /\ \A u \in Threads : u # Manager => thread'[u] = thread[u]
  BY <1>2, Moved
<1>4. /\ life' \in [Calls -> Life] /\ life'[c] = "dropped"
      /\ \A d \in Calls : d # c => life'[d] = life[d]
  BY <1>1 DEF Types, TypeOK, Life
<1>. HIDE DEF c
<1>5. Types'
  <2>1. IsFiniteSet(Live')
    <3>1. Live' \subseteq Live
      BY <1>4 DEF Live
    <3>. QED
      BY <3>1, FS_Subset DEF Types
  <2>. QED
    BY <1>1, <1>3, <1>4, <2>1 DEF Types, TypeOK, ThreadState, PC, Then, Life, Task
<1>6. PushInv' /\ DropInv' /\ UnknownInv'
  BY SMT, <1>2, <1>3, <1>4, ThreadNames DEF Inv, PushInv, DropInv, UnknownInv
<1>7. StallInv'
  BY <1>2, <1>3 DEF Inv, StallInv
<1>8. CandidatesAnnounced'
  BY <1>3, <1>4, ThreadNames, AnnouncedKept DEF Inv
<1>9. OrderInv'
  <2>1. Thins(queue, queue')
    BY ThinsSame DEF Types, TypeOK
  <2>. QED
    BY <1>2, <1>3, <2>1, ThreadNames, OrderKept DEF Inv, OrderInv, Calls
<1>. QED
  BY <1>5, <1>6, <1>7, <1>8, <1>9 DEF Inv

LEMMA ResetStep ==
  ASSUME Types, Inv, handle_reset
  PROVE  Types' /\ Inv'
<1>. USE DEF handle_reset, connVars
<1>1. /\ life' \in [Calls -> Life]
      /\ \A c \in Calls : life'[c] # "active" /\ (life'[c] = "unknown" => life[c] = "unknown")
      /\ inputs' \in 0..MaxInputs /\ hungUp' \subseteq Calls
  BY InputTypes DEF Types, TypeOK, Life, Request
<1>2. tasks' \in Seq(Task) /\ (tasks # <<>> => tasks' # <<>>)
  <2>1. Cardinality(Live) \in Nat
    BY FS_CardinalityType DEF Types
  <2>2. PICK order \in Bijection(1..Cardinality(Live), Live) :
          tasks' = tasks \o [i \in 1..Cardinality(Live) |-> [call |-> order[i], hangup |-> TRUE]]
    BY DEF Live
  <2>. DEFINE more == [i \in 1..Cardinality(Live) |-> [call |-> order[i], hangup |-> TRUE]]
  <2>3. order \in [1..Cardinality(Live) -> Live]
    BY DEF Bijection, Injection, Surjection, IsInjective
  <2>4. \A i \in 1..Cardinality(Live) : [call |-> order[i], hangup |-> TRUE] \in Task
    BY <2>3 DEF Live, Task
  <2>. HIDE DEF Task, Live
  <2>5. more \in Seq(Task)
    BY SMT, <2>1, <2>4
  <2>6. tasks \in Seq(Task)
    BY DEF Types, TypeOK, Task
  <2>. HIDE DEF more
  <2>7. tasks' = tasks \o more
    BY <2>2 DEF more
  <2>. QED
    BY ONLY SMT, <2>5, <2>6, <2>7
<1>3. Types'
  <2>1. IsFiniteSet(Live')
    <3>1. Live' \subseteq Live
      BY <1>1 DEF Live
    <3>. QED
      BY <3>1, FS_Subset DEF Types
  <2>2. queue' \in Seq(Message)
    BY SMT
  <2>. QED
    BY <1>1, <1>2, <2>1, <2>2 DEF Types, TypeOK, Life, Task
<1>4. PushInv' /\ DropInv' /\ UnknownInv' /\ StallInv'
  BY <1>1, <1>2 DEF Inv, PushInv, DropInv, UnknownInv, StallInv
<1>5. CandidatesAnnounced'
  BY <1>1 DEF CandidatesAnnounced
<1>6. OrderInv'
  <2>1. Thins(queue, queue')
    BY ThinsSame DEF Types, TypeOK
  <2>. QED
    BY <2>1, OrderKept DEF Inv, OrderInv
<1>. QED
  BY <1>3, <1>4, <1>5, <1>6 DEF Inv

-----------------------------------------------------------------------------
LEMMA Initially == Init => Types /\ Inv
<1>. SUFFICES ASSUME Init PROVE Types /\ Inv
  OBVIOUS
<1>. USE DEF Init
<1>1. thread \in [Threads -> ThreadState] /\ \A t \in Threads : thread[t] = Idle
  BY States
<1>2. Types
  <2>1. Live = {} /\ IsFiniteSet(Live)
    BY FS_EmptySet DEF Live
  <2>2. buffered \in [Calls -> 0..MaxIce] /\ inputs \in 0..MaxInputs
    BY SMT, MessageQueueAssumption
  <2>3. queue \in Seq(Message) /\ outstanding \in Seq(Message) /\ tasks \in Seq(Task)
    BY SMT
  <2>. QED
    BY <1>1, <2>1, <2>2, <2>3 DEF Types, TypeOK, ThreadState, PC, Then, Task
<1>3. PushInv /\ DropInv /\ UnknownInv /\ StallInv /\ CandidatesAnnounced
  BY <1>1, States, ThreadNames
     DEF PushInv, DropInv, UnknownInv, StallInv, CandidatesAnnounced
<1>4. OrderInv
  <2>1. \A i : i \notin 1..Len(queue)
    BY SMT
  <2>. QED
    BY <1>1, <2>1, States, ThreadNames DEF OrderInv, Ordered, Holds
<1>. QED
  BY <1>2, <1>3, <1>4 DEF Inv

LEMMA NextKeeps ==
  ASSUME Types, Inv, [Next]_vars
  PROVE  Types' /\ Inv'
<1>1. CASE Next
  <2>1. \A t \in Threads : SendNext(t) => Types' /\ Inv'
    BY PushStep, NothingStep, GivesStep DEF SendNext
  <2>. QED
    BY <1>1, <2>1, FailsStep, ProceedStep, StoresStep, BufferStep, TerminatesStep, CallEndsStep,
       StartStep, BusyStep, HangupStep, SentStep, SendFailureStep, TaskStep, DropStep, ResetStep
       DEF Next
<1>2. CASE UNCHANGED vars
  <2>1. Types'
    BY <1>2 DEF Types, TypeOK, Live, vars, queueVars, callVars, connVars, history
  <2>2. Inv'
    BY <1>2, CallsOnly DEF vars, queueVars, callVars, connVars, history
  <2>. QED
    BY <2>1, <2>2
<1>. QED
  BY <1>1, <1>2

(* The invariant holds in every reachable state, whatever calls there are. *)
THEOREM Invariance == Spec => [](Types /\ Inv)
<1>1. Init => Types /\ Inv
  BY Initially
<1>2. Types /\ Inv /\ [Next]_vars => (Types /\ Inv)'
  BY NextKeeps
<1>. QED
  BY <1>1, <1>2, PTL DEF Spec

(* The queue never stalls (send_next_message, message_sent): a message     *)
(* that waits has a thread to send it or a report to wait for, also when a *)
(* new call clears the mark, and a message fails, is passed over or        *)
(* trimmed in between.                                                     *)
THEOREM QueueNeverStalls == Spec => []NeverStalls
<1>1. Types /\ Inv => NeverStalls
  BY DEF Types, Inv, StallInv, NeverStalls
<1>. QED
  BY <1>1, Invariance, PTL

(* Candidates in the buffer of a live call have a message in the queue     *)
(* that will take them, or their thread is about to push one               *)
(* (buffer_local_ice_candidates, send_buffered_local_ice_candidates).      *)
THEOREM CandidatesNeverStranded == Spec => []CandidatesAnnounced
<1>1. Types /\ Inv => CandidatesAnnounced
  BY DEF Inv
<1>. QED
  BY <1>1, Invariance, PTL

(* An offer is never given to the application after the hangup of its call *)
(* (Call::proceed, should_send_hangup, trim_messages).                     *)
THEOREM OfferComesFirst == Spec => OfferBeforeHangup
<1>1. Types /\ Inv /\ [Next]_vars =>
        [\A c \in Outgoing :
           Msg(c, "Offer") \in sent' \ sent => Msg(c, "Hangup") \notin sent]_vars
  <2>. SUFFICES ASSUME Types, Inv, Next, NEW c \in Outgoing, Msg(c, "Offer") \in sent' \ sent
                PROVE  Msg(c, "Hangup") \notin sent
    OBVIOUS
  <2>1. PICK t \in Threads : GivesMessage(t)
    BY DEF Next, SendNext, Push, NothingToSend, MessageFails, proceed, StoresDidSendOffer,
       buffer_local_ice_candidates, ConnectionTerminates, CallEnds, StartCall, send_busy,
       handle_hangup, handle_message_sent, handle_message_send_failure, TerminateTask,
       terminate_and_drop_call, handle_reset, history
  <2>2. queue \in Seq(Message) /\ queue # <<>> /\ Head(queue) = Msg(c, "Offer")
    BY <2>1 DEF GivesMessage, Types, TypeOK
  <2>3. Holds(queue, Msg(c, "Offer"))
    BY <2>2, ThinsTail
  <2>. QED
    BY <2>3 DEF Inv, OrderInv
<1>. QED
  BY <1>1, Invariance, PTL DEF Spec, OfferBeforeHangup
=============================================================================
