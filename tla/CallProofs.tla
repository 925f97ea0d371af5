----------------------------- MODULE CallProofs -----------------------------
(***************************************************************************)
(* Media flows on one device only, and once a caller's call is accepted no *)
(* other connection remains, for every number of devices and of inputs.    *)
(*                                                                         *)
(* Both depend on the order of the worker's tasks and on the state that a  *)
(* handler has read.  The invariant says that media is granted, or about   *)
(* to be, only in a call that is accepted or terminating, also in the eyes *)
(* of the handler; that the one task which could change the active device  *)
(* runs before; and that every answer still queued after acceptance is     *)
(* followed by the task that drops the other connections.                  *)
(***************************************************************************)
EXTENDS Call, SequenceTheorems, TLAPS

(* A leaf is left to Zenon unless it says otherwise: most are first-order  *)
(* reasoning over sets and functions.                                      *)
USE ZenonT(60)

Final == {"Terminating", "Terminated"}

EventSet ==
  [kind : {"StartCall", "Proceed", "Answer", "Ice", "Hangup", "Accept", "Timeout",
           "Connection", "InternalError", "SendHangup", "Terminate"},
   dev : Devices \cup {None},
   arg : ConnectionState \cup {None, "Normal", "Elsewhere", "ByThisDevice"}]

TaskSet == [kind : UntilTerminating \cup EvenWhenTerminating, dev : Devices \cup {None}]

ThreadSet == [pc : {"recv", "handle", "exited"}, event : EventSet, read : CallState]

NoticeSet == {"Ringing", "Reconnect"}

QueueType ==
  /\ events \in Seq(EventSet) /\ fsm \in ThreadSet
  /\ worker \in Seq(TaskSet) /\ notify \in Seq(NoticeSet)

Types == TypeOK /\ QueueType

(* TypeOK without what QueueType implies. *)
CoreType ==
  /\ direction \in Directions /\ state \in CallState
  /\ activeDev \in Devices \cup {None} /\ offer \in Devices \cup {None}
  /\ conns \in [Devices -> ConnectionState \cup {None}]
  /\ media \subseteq Devices
  /\ heard \subseteq {"Ringing", "Accepted", "Reconnect", "Ended"}
  /\ forking \in BOOLEAN /\ didSend \in BOOLEAN /\ accepting \in BOOLEAN
  /\ signalled \in BOOLEAN /\ managed \in BOOLEAN
  /\ terminator \in {"idle", "queued", "hangup", "wait", "done"}

LEMMA TypeParts ==
  QueueType => (TypeOK <=> CoreType)
<1>1. {forking, didSend, accepting, signalled, managed} \subseteq BOOLEAN <=>
        /\ forking \in BOOLEAN /\ didSend \in BOOLEAN /\ accepting \in BOOLEAN
        /\ signalled \in BOOLEAN /\ managed \in BOOLEAN
  OBVIOUS
<1>2. QueueType => fsm.pc \in {"recv", "handle", "exited"} /\ fsm.read \in CallState
  BY DEF QueueType, ThreadSet
<1>3. QueueType =>
        \A i \in 1..Len(worker) :
          worker[i].kind \in UntilTerminating \cup EvenWhenTerminating
  <2>1. QueueType => \A i \in 1..Len(worker) : worker[i] \in TaskSet
    BY SMT DEF QueueType
  <2>. QED
    BY <2>1 DEF TaskSet
<1>. QED
  BY <1>1, <1>2, <1>3 DEF TypeOK, CoreType

(* The same after a step. *)
LEMMA TypePartsNext ==
  QueueType' => (TypeOK' <=> CoreType')
<1>1. {forking', didSend', accepting', signalled', managed'} \subseteq BOOLEAN <=>
        /\ forking' \in BOOLEAN /\ didSend' \in BOOLEAN /\ accepting' \in BOOLEAN
        /\ signalled' \in BOOLEAN /\ managed' \in BOOLEAN
  OBVIOUS
<1>2. QueueType' => fsm'.pc \in {"recv", "handle", "exited"} /\ fsm'.read \in CallState
  BY DEF QueueType, ThreadSet
<1>3. QueueType' =>
        \A i \in 1..Len(worker') :
          worker'[i].kind \in UntilTerminating \cup EvenWhenTerminating
  <2>1. QueueType' => \A i \in 1..Len(worker') : worker'[i] \in TaskSet
    BY SMT DEF QueueType
  <2>. QED
    BY <2>1 DEF TaskSet
<1>. QED
  BY <1>1, <1>2, <1>3 DEF TypeOK, CoreType

(* What the manager can still see has not been terminated. *)
ManagedInv ==
  managed =>
    /\ terminator = "idle" /\ state # "Terminated" /\ fsm.pc # "exited"
    /\ \A i \in 1..Len(events) : events[i].kind # "Terminate"
    /\ fsm.pc = "handle" => fsm.event.kind # "Terminate" /\ state = fsm.read

(* Only terminating overtakes the state machine thread. *)
StaleInv == fsm.pc = "handle" => state \in {fsm.read} \cup Final

(* StartCall is the first event, Accept is the callee's, and reports of    *)
(* connections name a device.                                              *)
EventInv ==
  /\ \A i \in 1..Len(events) :
       /\ events[i].kind = "StartCall" =>
            i = 1 /\ fsm.pc = "recv" /\ state \in {"NotYetStarted"} \cup Final
       /\ events[i].kind = "Accept" => direction = "Incoming"
       /\ events[i].kind = "Connection" => events[i].dev \in Devices
  /\ fsm.pc = "handle" =>
       /\ fsm.event.kind = "StartCall" => fsm.read \in {"NotYetStarted"} \cup Final
       /\ fsm.event.kind = "Accept" => direction = "Incoming"
       /\ fsm.event.kind = "Connection" => fsm.event.dev \in Devices

Accepting == {"AcceptLocally", "AcceptRemotely"}

MediaGranted == media # {} \/ \E i \in 1..Len(worker) : worker[i].kind \in Accepting

Late(s) == CallAccepted(s) \/ s \in Final

LateInv == MediaGranted => Late(state) /\ (fsm.pc = "handle" => Late(fsm.read))

(* proceed(), which makes a callee's only device active, comes first. *)
ProceedInv ==
  \A i \in 1..Len(worker) :
    worker[i].kind = "Proceed" =>
      media = {} /\ \A j \in 1..Len(worker) : j < i => worker[j].kind \notin Accepting

MediaInv == media # {} => media = {activeDev}

(* The other connections are gone, or will be after the last answer. *)
OnlyActive ==
  /\ \A j \in 1..Len(worker) : worker[j].kind # "Answer"
  /\ \A d \in Devices : conns[d] # None => d = activeDev

DropIsQueued ==
  \E i \in 1..Len(worker) :
    /\ worker[i].kind = "DropOthers" /\ worker[i].dev = activeDev
    /\ \A j \in 1..Len(worker) : j > i => worker[j].kind # "Answer"

DropInv ==
  managed /\ direction = "Outgoing" /\ CallAccepted(state) => OnlyActive \/ DropIsQueued

(* The connection told to accept is the active one, for good. *)
AcceptInv ==
  /\ fsm.pc = "exited" => worker = <<>>
  /\ accepting => activeDev \in Devices /\ (media # {} \/ fsm.pc = "exited")

Inv ==
  /\ ManagedInv /\ StaleInv /\ EventInv /\ LateInv /\ ProceedInv /\ MediaInv
  /\ DropInv /\ AcceptInv

-----------------------------------------------------------------------------
(* The channel and the queues.                                             *)

(* What a step may do to the channel, other than take an event from it. *)
MayInject ==
  \/ events' = events
  \/ \E e \in EventSet :
       /\ events' = Append(events, e) /\ fsm.pc # "exited"
       /\ e.kind # "StartCall"
       /\ e.kind = "Terminate" => ~managed'
       /\ e.kind = "Accept" => direction = "Incoming"
       /\ e.kind = "Connection" => e.dev \in Devices

(* inject_event appends the event, or does nothing. *)
LEMMA Injecting ==
  ASSUME QueueType, NEW e \in EventSet, inject_event(e),
         e.kind # "StartCall",
         e.kind = "Terminate" => ~managed',
         e.kind = "Accept" => direction = "Incoming",
         e.kind = "Connection" => e.dev \in Devices
  PROVE  MayInject
<1>1. Append(events, e) = events \o <<e>>
  BY AppendIsConcat DEF QueueType
<1>2. CASE Closed
  BY <1>2 DEF inject_event, Injected, MayInject
<1>3. CASE ~Closed
  <2>1. events' = Append(events, e) /\ fsm.pc # "exited"
    BY <1>1, <1>3 DEF inject_event, Injected, Closed
  <2>. QED
    BY <2>1 DEF MayInject
<1>. QED
  BY <1>2, <1>3

(* Events without a device. *)
LEMMA PlainEvent ==
  ASSUME NEW kind \in {"Proceed", "Accept", "Timeout", "InternalError", "SendHangup",
                       "Terminate"}
  PROVE  Plain(kind) \in EventSet /\ Plain(kind).kind = kind
BY DEF Plain, Event, EventSet

(* Steps of threads other than the state machine's. *)
OutsideStep ==
  /\ UNCHANGED <<fsm, direction>> /\ MayInject
  /\ state' \in {state} \cup Final
  /\ managed' => managed /\ terminator' = terminator /\ state' = state

(* What an appended event leaves of the channel. *)
LEMMA ChannelGrows ==
  ASSUME QueueType, MayInject
  PROVE  /\ events' \in Seq(EventSet)
         /\ \A i \in 1..Len(events') :
              \/ i \in 1..Len(events) /\ events'[i] = events[i]
              \/ /\ fsm.pc # "exited" /\ events'[i].kind # "StartCall"
                 /\ events'[i].kind = "Terminate" => ~managed'
                 /\ events'[i].kind = "Accept" => direction = "Incoming"
                 /\ events'[i].kind = "Connection" => events'[i].dev \in Devices
<1>1. CASE events' = events
  BY <1>1 DEF QueueType
<1>2. CASE events' # events
  <2>1. PICK e \in EventSet :
          /\ events' = Append(events, e) /\ fsm.pc # "exited"
          /\ e.kind # "StartCall"
          /\ e.kind = "Terminate" => ~managed'
          /\ e.kind = "Accept" => direction = "Incoming"
          /\ e.kind = "Connection" => e.dev \in Devices
    BY <1>2 DEF MayInject
  <2>2. /\ events' \in Seq(EventSet)
        /\ \A i \in 1..Len(events') :
             (i \in 1..Len(events) /\ events'[i] = events[i]) \/ events'[i] = e
    BY SMT, <2>1 DEF QueueType
  <2>. QED
    BY <2>1, <2>2
<1>. QED
  BY <1>1, <1>2

(* They keep what is said of the thread and its channel. *)
LEMMA OutsideThread ==
  ASSUME QueueType, ManagedInv, StaleInv, EventInv, OutsideStep
  PROVE  ManagedInv' /\ StaleInv' /\ EventInv'
<1>0. UNCHANGED <<fsm, direction>> /\ state' \in {state} \cup Final
      /\ (managed' => managed /\ terminator' = terminator /\ state' = state)
  BY DEF OutsideStep
<1>1. \A i \in 1..Len(events') :
        \/ i \in 1..Len(events) /\ events'[i] = events[i]
        \/ /\ fsm.pc # "exited" /\ events'[i].kind # "StartCall"
           /\ events'[i].kind = "Terminate" => ~managed'
           /\ events'[i].kind = "Accept" => direction = "Incoming"
           /\ events'[i].kind = "Connection" => events'[i].dev \in Devices
  BY ChannelGrows DEF OutsideStep
<1>2. ManagedInv'
  BY <1>0, <1>1 DEF ManagedInv
<1>3. StaleInv'
  BY <1>0 DEF StaleInv, Final
<1>4. EventInv'
  BY <1>0, <1>1 DEF EventInv
<1>. QED
  BY <1>2, <1>3, <1>4

(* Steps that leave the worker's queue alone, too. *)
LEMMA OutsideKeeps ==
  ASSUME QueueType, Inv, OutsideStep, UNCHANGED <<worker, activeDev>>,
         media' = media \/ (media' = {} /\ fsm.pc = "exited"),
         accepting' => accepting,
         \A d \in Devices : conns'[d] # None => conns[d] # None
  PROVE  Inv'
<1>0. UNCHANGED <<fsm, direction>> /\ state' \in {state} \cup Final
      /\ (managed' => managed /\ terminator' = terminator /\ state' = state)
  BY DEF OutsideStep
<1>1. ManagedInv' /\ StaleInv' /\ EventInv'
  BY OutsideThread DEF Inv
<1>2. LateInv'
  BY <1>0 DEF Inv, LateInv, MediaGranted, Late
<1>3. ProceedInv' /\ MediaInv'
  BY DEF Inv, ProceedInv, MediaInv
<1>4. DropInv'
  <2>. SUFFICES ASSUME managed', direction' = "Outgoing", CallAccepted(state')
                PROVE  OnlyActive' \/ DropIsQueued'
    BY DEF DropInv
  <2>1. OnlyActive \/ DropIsQueued
    BY <1>0 DEF Inv, DropInv
  <2>2. CASE OnlyActive
    BY <2>2 DEF OnlyActive
  <2>3. CASE DropIsQueued
    BY <2>3 DEF DropIsQueued
  <2>. QED
    BY <2>1, <2>2, <2>3
<1>5. AcceptInv'
  BY <1>0 DEF Inv, AcceptInv
<1>. QED
  BY <1>1, <1>2, <1>3, <1>4, <1>5 DEF Inv

(* The tasks left when the worker has run one. *)
LEMMA TasksLeft ==
  ASSUME NEW q \in Seq(TaskSet), q # <<>>
  PROVE  /\ Tail(q) \in Seq(TaskSet) /\ Head(q) \in TaskSet /\ Head(q) = q[1]
         /\ 1 \in 1..Len(q)
         /\ \A i \in 1..Len(Tail(q)) : i + 1 \in 1..Len(q) /\ Tail(q)[i] = q[i + 1]
         /\ \A i \in 1..Len(q) : i > 1 => i - 1 \in 1..Len(Tail(q)) /\ Tail(q)[i - 1] = q[i]
BY SMT

(* A task of the worker.  Only the accepting tasks grant media, only       *)
(* proceed sets the active device, only answers and a callee's proceed     *)
(* bring a connection, and DropOthers leaves one.                          *)
TaskStep ==
  /\ OutsideStep /\ worker # <<>> /\ worker' = Tail(worker)
  /\ \/ media' = media
     \/ Head(worker).kind \in Accepting /\ media' = media \cup {activeDev}
  /\ \/ activeDev' = activeDev
     \/ Head(worker).kind = "Proceed" /\ direction = "Incoming"
  /\ \/ \A d \in Devices : conns'[d] # None => conns[d] # None
     \/ Head(worker).kind = "Answer"
     \/ Head(worker).kind = "Proceed" /\ direction = "Incoming"
  /\ Head(worker).kind = "DropOthers" /\ CallAccepted(state') =>
       \A d \in Devices : conns'[d] # None => d = Head(worker).dev
  /\ \/ accepting' => accepting
     \/ Head(worker).kind \in Accepting /\ activeDev \in Devices /\ media' # {}

LEMMA TaskKeeps ==
  ASSUME QueueType, Inv, TaskStep
  PROVE  Inv'
<1>0. UNCHANGED <<fsm, direction>> /\ state' \in {state} \cup Final
      /\ (managed' => managed /\ terminator' = terminator /\ state' = state)
  BY DEF OutsideStep, TaskStep
<1>1. ManagedInv' /\ StaleInv' /\ EventInv'
  BY OutsideThread DEF Inv, TaskStep
<1>2. /\ worker' \in Seq(TaskSet) /\ Head(worker) = worker[1] /\ 1 \in 1..Len(worker)
      /\ \A i \in 1..Len(worker') : i + 1 \in 1..Len(worker) /\ worker'[i] = worker[i + 1]
      /\ \A i \in 1..Len(worker) :
           i > 1 => i - 1 \in 1..Len(worker') /\ worker'[i - 1] = worker[i]
  BY TasksLeft DEF QueueType, TaskStep
<1>3. MediaGranted' => MediaGranted
  BY <1>2 DEF MediaGranted, TaskStep
<1>4. LateInv'
  BY <1>0, <1>3 DEF Inv, LateInv, Late
<1>5. ProceedInv'
  <2>. SUFFICES ASSUME NEW i \in 1..Len(worker'), worker'[i].kind = "Proceed"
                PROVE  /\ media' = {}
                       /\ \A j \in 1..Len(worker') : j < i => worker'[j].kind \notin Accepting
    BY DEF ProceedInv
  <2>1. i + 1 \in 1..Len(worker) /\ worker[i + 1].kind = "Proceed" /\ i \in Nat /\ 1 < i + 1
    BY SMT, <1>2
  <2>2. media = {} /\ \A j \in 1..Len(worker) : j < i + 1 => worker[j].kind \notin Accepting
    BY <2>1 DEF Inv, ProceedInv
  <2>3. media' = media
    BY <1>2, <2>1, <2>2 DEF TaskStep
  <2>4. \A j \in 1..Len(worker') : j < i => j + 1 < i + 1
    BY SMT, <2>1
  <2>. QED
    BY <1>2, <2>2, <2>3, <2>4
<1>6. MediaInv'
  <2>1. CASE Head(worker).kind = "Proceed"
    BY <1>2, <2>1 DEF Inv, ProceedInv, MediaInv, TaskStep, Accepting
  <2>2. CASE Head(worker).kind # "Proceed"
    BY <2>2 DEF Inv, MediaInv, TaskStep
  <2>. QED
    BY <2>1, <2>2
<1>7. DropInv'
  <2>. SUFFICES ASSUME managed', direction' = "Outgoing", CallAccepted(state')
                PROVE  OnlyActive' \/ DropIsQueued'
    BY DEF DropInv
  <2>0. OnlyActive \/ DropIsQueued
    BY <1>0 DEF Inv, DropInv
  <2>1. activeDev' = activeDev
    BY <1>0 DEF TaskStep
  <2>2. CASE OnlyActive
    <3>1. \A j \in 1..Len(worker') : worker'[j].kind # "Answer"
      BY SMT, <1>2, <2>2 DEF OnlyActive
    <3>2. Head(worker).kind # "Answer"
      BY <1>2, <2>2 DEF OnlyActive
    <3>3. \A d \in Devices : conns'[d] # None => conns[d] # None
      BY <1>0, <3>2 DEF TaskStep
    <3>. QED
      BY <2>1, <2>2, <3>1, <3>3 DEF OnlyActive
  <2>3. CASE DropIsQueued
    <3>1. PICK i \in 1..Len(worker) :
            /\ worker[i].kind = "DropOthers" /\ worker[i].dev = activeDev
            /\ \A j \in 1..Len(worker) : j > i => worker[j].kind # "Answer"
      BY <2>3 DEF DropIsQueued
    <3>2. CASE i = 1
      <4>1. \A j \in 1..Len(worker') : worker'[j].kind # "Answer"
        <5>. SUFFICES ASSUME NEW j \in 1..Len(worker') PROVE worker'[j].kind # "Answer"
          OBVIOUS
        <5>1. j + 1 \in 1..Len(worker) /\ worker'[j] = worker[j + 1]
          BY <1>2
        <5>2. j + 1 > 1
          BY SMT
        <5>. QED
          BY <3>1, <3>2, <5>1, <5>2
      <4>2. \A d \in Devices : conns'[d] # None => d = activeDev
        BY <1>2, <3>1, <3>2 DEF TaskStep
      <4>. QED
        BY <2>1, <4>1, <4>2 DEF OnlyActive
    <3>3. CASE i # 1
      <4>1. i - 1 \in 1..Len(worker') /\ worker'[i - 1] = worker[i]
        BY SMT, <1>2, <3>3
      <4>2. \A j \in 1..Len(worker') : j > i - 1 => worker'[j].kind # "Answer"
        <5>. SUFFICES ASSUME NEW j \in 1..Len(worker'), j > i - 1
                      PROVE  worker'[j].kind # "Answer"
          OBVIOUS
        <5>1. j + 1 \in 1..Len(worker) /\ worker'[j] = worker[j + 1]
          BY <1>2
        <5>2. j + 1 > i
          BY SMT
        <5>. QED
          BY <3>1, <5>1, <5>2
      <4>. QED
        BY <2>1, <3>1, <4>1, <4>2 DEF DropIsQueued
    <3>. QED
      BY <3>2, <3>3
  <2>. QED
    BY <2>0, <2>2, <2>3
<1>8. AcceptInv'
  <2>1. fsm.pc # "exited" /\ fsm'.pc # "exited"
    BY <1>0 DEF Inv, AcceptInv, TaskStep
  <2>2. CASE Head(worker).kind = "Proceed"
    BY <1>2, <2>1, <2>2 DEF Inv, AcceptInv, ProceedInv, TaskStep, Accepting
  <2>3. CASE Head(worker).kind # "Proceed"
    BY <2>1, <2>3 DEF Inv, AcceptInv, TaskStep
  <2>. QED
    BY <2>2, <2>3
<1>. QED
  BY <1>1, <1>4, <1>5, <1>6, <1>7, <1>8 DEF Inv

(* A handler of the state machine.  It may put tasks on the worker's       *)
(* queue; what it decides rests on the state that the thread has read.     *)
Extended ==
  /\ worker' \in Seq(TaskSet) /\ Len(worker) <= Len(worker')
  /\ \A i \in 1..Len(worker) : worker'[i] = worker[i]

New(i) == i \in 1..Len(worker') /\ i > Len(worker)

HandlerStep ==
  /\ fsm.pc = "handle" /\ fsm' = Idle
  /\ UNCHANGED <<events, managed, terminator, direction, media, accepting>>
  /\ managed => state' # "Terminated"
  /\ state' = state \/ Late(state') \/ ~Late(fsm.read)
  /\ activeDev' = activeDev \/ ~Late(fsm.read)
  /\ \A d \in Devices : conns'[d] # None => conns[d] # None
  /\ Extended
  /\ \A i \in 1..Len(worker') : New(i) =>
       /\ worker'[i].kind \in Accepting => Late(state')
       /\ worker'[i].kind = "Proceed" => ~Late(fsm.read) /\ i = Len(worker) + 1
  /\ managed /\ direction = "Outgoing" /\ CallAccepted(state') =>
       \/ /\ CallAccepted(fsm.read) /\ activeDev' = activeDev
          /\ \A i \in 1..Len(worker') : New(i) => worker'[i].kind # "Answer"
       \/ DropIsQueued'

LEMMA HandlerKeeps ==
  ASSUME QueueType, Inv, HandlerStep
  PROVE  Inv'
<1>0. /\ fsm.pc = "handle" /\ fsm'.pc = "recv"
      /\ UNCHANGED <<events, managed, terminator, direction, media>>
  BY DEF HandlerStep, Idle
<1>1. ManagedInv' /\ StaleInv'
  BY SMT, <1>0 DEF HandlerStep, Inv, ManagedInv, StaleInv
<1>2. EventInv'
  BY <1>0 DEF Inv, EventInv
<1>3. MediaGranted => Late(state) /\ Late(fsm.read)
  BY <1>0 DEF Inv, LateInv
<1>4. /\ Len(worker) \in Nat /\ Len(worker') \in Nat /\ Len(worker) <= Len(worker')
      /\ \A i \in 1..Len(worker) : i \in 1..Len(worker') /\ worker'[i] = worker[i]
  BY SMT DEF HandlerStep, Extended, QueueType
<1>5. \A i \in 1..Len(worker') : i \in 1..Len(worker) \/ New(i)
  BY SMT, <1>4 DEF New
<1>6. LateInv'
  <2>. SUFFICES ASSUME MediaGranted' PROVE Late(state')
    BY <1>0 DEF LateInv, Late
  <2>1. CASE MediaGranted
    BY <1>3, <2>1 DEF HandlerStep
  <2>2. CASE ~MediaGranted
    <3>1. PICK i \in 1..Len(worker') : worker'[i].kind \in Accepting
      BY <1>0, <2>2 DEF MediaGranted
    <3>2. New(i)
      BY <1>4, <1>5, <2>2, <3>1 DEF MediaGranted
    <3>. QED
      BY <3>1, <3>2 DEF HandlerStep
  <2>. QED
    BY <2>1, <2>2
<1>7. ProceedInv'
  <2>. SUFFICES ASSUME NEW i \in 1..Len(worker'), worker'[i].kind = "Proceed"
                PROVE  /\ media' = {}
                       /\ \A j \in 1..Len(worker') : j < i => worker'[j].kind \notin Accepting
    BY DEF ProceedInv
  <2>1. CASE i \in 1..Len(worker)
    <3>1. media = {} /\ \A j \in 1..Len(worker) : j < i => worker[j].kind \notin Accepting
      BY <1>4, <2>1 DEF Inv, ProceedInv
    <3>2. \A j \in 1..Len(worker') : j < i => j \in 1..Len(worker)
      BY SMT, <1>4, <2>1
    <3>. QED
      BY <1>0, <1>4, <3>1, <3>2
  <2>2. CASE New(i)
    <3>1. ~Late(fsm.read) /\ i = Len(worker) + 1
      BY <2>2 DEF HandlerStep
    <3>2. ~MediaGranted
      BY <1>3, <3>1
    <3>3. \A j \in 1..Len(worker') : j < i => j \in 1..Len(worker)
      BY SMT, <1>4, <3>1
    <3>. QED
      BY <1>0, <1>4, <3>2, <3>3 DEF MediaGranted
  <2>. QED
    BY <1>5, <2>1, <2>2
<1>8. MediaInv'
  BY <1>0, <1>3 DEF Inv, MediaInv, MediaGranted, HandlerStep
<1>9. DropInv'
  <2>. SUFFICES ASSUME managed', direction' = "Outgoing", CallAccepted(state'), ~DropIsQueued'
                PROVE  OnlyActive'
    BY DEF DropInv
  <2>1. /\ CallAccepted(fsm.read) /\ activeDev' = activeDev
        /\ \A i \in 1..Len(worker') : New(i) => worker'[i].kind # "Answer"
    BY SMT, <1>0 DEF HandlerStep
  <2>2. state = fsm.read
    BY <1>0 DEF Inv, ManagedInv
  <2>3. OnlyActive \/ DropIsQueued
    BY <1>0, <2>1, <2>2 DEF Inv, DropInv
  <2>4. CASE OnlyActive
    BY <1>4, <1>5, <2>1, <2>4 DEF OnlyActive, HandlerStep
  <2>5. CASE DropIsQueued
    <3>1. PICK i \in 1..Len(worker) :
            /\ worker[i].kind = "DropOthers" /\ worker[i].dev = activeDev
            /\ \A j \in 1..Len(worker) : j > i => worker[j].kind # "Answer"
      BY <2>5 DEF DropIsQueued
    <3>2. i \in 1..Len(worker') /\ worker'[i] = worker[i]
      BY <1>4
    <3>3. \A j \in 1..Len(worker') : j > i => worker'[j].kind # "Answer"
      BY <1>4, <1>5, <2>1, <3>1
    <3>. QED
      BY <2>1, <3>1, <3>2, <3>3 DEF DropIsQueued
  <2>. QED
    BY <2>3, <2>4, <2>5
<1>10. AcceptInv'
  BY <1>0, <1>3 DEF HandlerStep, Inv, AcceptInv, MediaGranted
<1>. QED
  BY <1>1, <1>2, <1>6, <1>7, <1>8, <1>9, <1>10 DEF Inv

(* Queueing one task, or none. *)
LEMMA OneTask ==
  ASSUME QueueType, NEW t \in TaskSet, worker' = Append(worker, t)
  PROVE  Extended /\ (\A i \in 1..Len(worker') : New(i) => worker'[i] = t /\ i = Len(worker) + 1)
         /\ New(Len(worker) + 1) /\ worker'[Len(worker) + 1] = t
BY SMT DEF QueueType, Extended, New

LEMMA NoTask ==
  ASSUME QueueType, worker' = worker
  PROVE  Extended /\ \A i \in 1..Len(worker') : ~New(i)
BY SMT DEF QueueType, Extended, New

(* The types of the queues, after a step outside the state machine ...      *)
LEMMA OutsideQueues ==
  ASSUME QueueType, MayInject, fsm' = fsm,
         worker' = worker \/ (worker # <<>> /\ worker' = Tail(worker)),
         notify' = notify \/ (notify # <<>> /\ notify' = Tail(notify))
  PROVE  QueueType'
<1>1. events' \in Seq(EventSet)
  BY ChannelGrows
<1>2. worker' \in Seq(TaskSet)
  BY TasksLeft DEF QueueType
<1>3. notify' \in Seq(NoticeSet)
  BY HeadTailProperties DEF QueueType
<1>. QED
  BY <1>1, <1>2, <1>3 DEF QueueType

(* ... and after a handler. *)
LEMMA HandlerQueues ==
  ASSUME QueueType, events' = events, fsm' = Idle, Extended,
         notify' = notify \/ notify' = Append(notify, "Ringing")
                          \/ notify' = Append(notify, "Reconnect")
  PROVE  QueueType'
<1>1. Idle \in ThreadSet
  BY DEF Idle, ThreadSet, Plain, Event, EventSet, CallState
<1>2. notify' \in Seq(NoticeSet)
  <2>1. "Ringing" \in NoticeSet /\ "Reconnect" \in NoticeSet
    BY DEF NoticeSet
  <2>2. notify \in Seq(NoticeSet)
    BY DEF QueueType
  <2>3. \A x \in NoticeSet : Append(notify, x) \in Seq(NoticeSet)
    BY <2>2, AppendProperties
  <2>. QED
    BY <2>1, <2>2, <2>3
<1>. QED
  BY <1>1, <1>2 DEF QueueType, Extended

-----------------------------------------------------------------------------
(* The environment.                                                        *)

Same == UNCHANGED <<state, activeDev, connections, outcome, manager, direction>>

(* Steps that only inject. *)
LEMMA InjectOnly ==
  ASSUME Types, Inv, MayInject, Same, UNCHANGED <<fsm, queues>>
  PROVE  Types' /\ Inv'
<1>1. QueueType'
  BY OutsideQueues DEF Types, queues
<1>2. CoreType'
  <2>1. CoreType
    BY TypeParts DEF Types
  <2>. QED
    BY SMT, <2>1 DEF CoreType, Same, connections, outcome, manager
<1>3. OutsideStep
  BY DEF OutsideStep, Same, manager
<1>4. Inv'
  BY <1>3, OutsideKeeps DEF Types, Same, queues, outcome, connections
<1>. QED
  BY <1>1, <1>2, <1>4, TypePartsNext DEF Types

LEMMA InputSteps ==
  ASSUME Types, Inv,
         AppProceeds \/ ReceivesSignal \/ AcceptsCall \/ TimerFires \/ ConnectionReports
  PROVE  Types' /\ Inv'
<1>0. QueueType
  BY DEF Types
<1>1. CASE AppProceeds
  <2>1. MayInject
    BY <1>0, <1>1, PlainEvent, Injecting DEF AppProceeds
  <2>. QED
    BY <1>1, <2>1, InjectOnly DEF AppProceeds, Same
<1>2. CASE ReceivesSignal
  <2>1. PICK e \in EventSet : inject_event(e) /\ e.kind \in {"Answer", "Ice", "Hangup"}
    <3>1. PICK d \in Peers :
            \/ inject_event(Event("Answer", d, None))
            \/ inject_event(Event("Ice", d, None))
            \/ \E type \in {"Normal", "Elsewhere", "ByThisDevice"} :
                 inject_event(Event("Hangup", d, type))
      BY <1>2 DEF ReceivesSignal
    <3>2. d \in Devices
      BY DEF Peers
    <3>3. /\ Event("Answer", d, None) \in EventSet /\ Event("Ice", d, None) \in EventSet
          /\ \A type \in {"Normal", "Elsewhere", "ByThisDevice"} :
               Event("Hangup", d, type) \in EventSet
      BY <3>2 DEF Event, EventSet
    <3>4. /\ Event("Answer", d, None).kind = "Answer" /\ Event("Ice", d, None).kind = "Ice"
          /\ \A type : Event("Hangup", d, type).kind = "Hangup"
      BY DEF Event
    <3>. QED
      BY <3>1, <3>3, <3>4
  <2>2. MayInject
    BY <1>0, <2>1, Injecting
  <2>. QED
    BY <1>2, <2>2, InjectOnly DEF ReceivesSignal, Same
<1>3. CASE AcceptsCall
  <2>1. MayInject
    BY <1>0, <1>3, PlainEvent, Injecting DEF AcceptsCall
  <2>. QED
    BY <1>3, <2>1, InjectOnly DEF AcceptsCall, Same
<1>4. CASE TimerFires
  <2>1. MayInject
    BY <1>0, <1>4, PlainEvent, Injecting DEF TimerFires
  <2>. QED
    BY <1>4, <2>1, InjectOnly DEF TimerFires, Same
<1>5. CASE ConnectionReports
  <2>1. PICK d \in Devices : \/ inject_event(Event("Hangup", d, "Normal"))
                             \/ inject_event(Plain("InternalError"))
    BY <1>5 DEF ConnectionReports
  <2>2. Event("Hangup", d, "Normal") \in EventSet /\ Event("Hangup", d, "Normal").kind = "Hangup"
    BY DEF Event, EventSet
  <2>3. MayInject
    BY <1>0, <2>1, <2>2, PlainEvent, Injecting
  <2>. QED
    BY <1>5, <2>3, InjectOnly DEF ConnectionReports, Same
<1>. QED
  BY <1>1, <1>2, <1>3, <1>4, <1>5

(* A connection that moves is live and stays in the map, and its report    *)
(* names it.                                                               *)
LEMMA Moves ==
  ASSUME Types, NEW d \in Devices, NEW new \in ConnectionState, ConnectionMoves(d, new)
  PROVE  /\ MayInject
         /\ conns' \in [Devices -> ConnectionState \cup {None}]
         /\ \A e \in Devices : conns'[e] # None => conns[e] # None
<1>1. conns \in [Devices -> ConnectionState \cup {None}] /\ QueueType
  BY DEF Types, TypeOK
<1>2. conns' = [conns EXCEPT ![d] = new] /\ conns[d] # None
  BY DEF ConnectionMoves, Live
<1>3. MayInject
  <2>1. /\ Event("Connection", d, new) \in EventSet
        /\ Event("Connection", d, new).kind = "Connection" /\ Event("Connection", d, new).dev = d
    BY DEF Event, EventSet
  <2>2. inject_event(Event("Connection", d, new)) \/ events' = events
    BY DEF ConnectionMoves, inject_event
  <2>. QED
    BY <1>1, <2>1, <2>2, Injecting DEF MayInject
<1>. QED
  BY <1>1, <1>2, <1>3

LEMMA NextStates ==
  ASSUME NEW s \in ConnectionState
  PROVE  /\ OnIceConnected(s) \in ConnectionState
         /\ OnIceDisconnected(s) \in ConnectionState
         /\ OnIceFailed(s) \in ConnectionState
         /\ OnReceivedAccepted(s) \in ConnectionState
         /\ OnAccept(s) \in ConnectionState
BY DEF ConnectionState, OnIceConnected, OnIceDisconnected, OnIceFailed,
       OnReceivedAccepted, OnAccept

(* Steps that change connections, and may inject. *)
LEMMA ConnectionsOnly ==
  ASSUME Types, Inv, MayInject,
         UNCHANGED <<state, activeDev, forking, didSend, offer, fsm, queues, outcome,
                     manager, direction>>,
         accepting' = accepting \/ accepting' = FALSE,
         conns' \in [Devices -> ConnectionState \cup {None}],
         \A d \in Devices : conns'[d] # None => conns[d] # None
  PROVE  Types' /\ Inv'
<1>1. QueueType'
  BY OutsideQueues DEF Types, queues
<1>2. CoreType'
  <2>1. CoreType
    BY TypeParts DEF Types
  <2>. QED
    BY <2>1 DEF CoreType, outcome, manager
<1>3. OutsideStep
  BY DEF OutsideStep, manager
<1>4. Inv'
  BY SMT, <1>3, OutsideKeeps DEF Types, queues, outcome
<1>. QED
  BY <1>1, <1>2, <1>4, TypePartsNext DEF Types

LEMMA ConnectionSteps ==
  ASSUME Types, Inv, ConnectionChanges \/ ConnectionAccepts
  PROVE  Types' /\ Inv'
<1>0. conns \in [Devices -> ConnectionState \cup {None}]
  BY DEF Types, TypeOK
<1>1. CASE ConnectionChanges
  <2>1. PICK d \in Devices :
          \/ ConnectionMoves(d, OnIceConnected(conns[d]))
          \/ ConnectionMoves(d, OnIceDisconnected(conns[d]))
          \/ ConnectionMoves(d, OnIceFailed(conns[d]))
          \/ ConnectionMoves(d, OnReceivedAccepted(conns[d]))
    BY <1>1 DEF ConnectionChanges
  <2>2. conns[d] \in ConnectionState
    BY <1>0, <2>1 DEF ConnectionMoves, Live
  <2>3. PICK new \in ConnectionState : ConnectionMoves(d, new)
    BY <2>1, <2>2, NextStates
  <2>4. /\ MayInject
        /\ conns' \in [Devices -> ConnectionState \cup {None}]
        /\ \A e \in Devices : conns'[e] # None => conns[e] # None
    BY <2>3, Moves
  <2>. QED
    BY <1>1, <2>4, ConnectionsOnly DEF ConnectionChanges
<1>2. CASE ConnectionAccepts
  <2>1. activeDev \in Devices
    BY <1>2 DEF ConnectionAccepts, Inv, AcceptInv
  <2>2. CASE ConnectionMoves(activeDev, OnAccept(conns[activeDev]))
    <3>1. conns[activeDev] \in ConnectionState
      BY <1>0, <2>1, <2>2 DEF ConnectionMoves, Live
    <3>2. OnAccept(conns[activeDev]) \in ConnectionState
      BY <3>1, NextStates
    <3>3. /\ MayInject
          /\ conns' \in [Devices -> ConnectionState \cup {None}]
          /\ \A e \in Devices : conns'[e] # None => conns[e] # None
      BY <2>1, <2>2, <3>2, Moves
    <3>. QED
      BY <1>2, <3>3, ConnectionsOnly DEF ConnectionAccepts, fixed
  <2>3. CASE UNCHANGED <<conns, events>>
    BY <1>0, <1>2, <2>3, ConnectionsOnly DEF ConnectionAccepts, fixed, MayInject
  <2>. QED
    BY <1>2, <2>2, <2>3 DEF ConnectionAccepts
<1>. QED
  BY <1>1, <1>2

(* The notify actor delivers an event to the application. *)
LEMMA NotifySteps ==
  ASSUME Types, Inv, NotifyStep
  PROVE  Types' /\ Inv'
<1>0. MayInject /\ UNCHANGED <<fsm, worker>>
  BY DEF NotifyStep, MayInject
<1>1. QueueType'
  BY <1>0, OutsideQueues DEF Types, NotifyStep
<1>2. CoreType'
  <2>1. CoreType
    BY TypeParts DEF Types
  <2>2. Head(notify) \in NoticeSet
    BY HeadTailProperties DEF NotifyStep, Types, QueueType
  <2>3. heard' \subseteq {"Ringing", "Accepted", "Reconnect", "Ended"}
    BY <2>1, <2>2 DEF NotifyStep, CoreType, NoticeSet
  <2>. QED
    BY <2>1, <2>3 DEF CoreType, NotifyStep, connections, manager, fixed
<1>3. OutsideStep
  BY <1>0 DEF OutsideStep, NotifyStep, manager, fixed
<1>4. Inv'
  BY <1>3, OutsideKeeps DEF Types, NotifyStep, connections
<1>. QED
  BY <1>1, <1>2, <1>4, TypePartsNext DEF Types

-----------------------------------------------------------------------------
(* The call manager's part.                                                *)

(* What EndCall changes. *)
Ends ==
  /\ MayInject /\ state' \in {state} \cup Final
  /\ managed' => managed /\ terminator' = terminator /\ state' = state
  /\ state' \in CallState /\ managed' \in BOOLEAN
  /\ heard' \subseteq {"Ringing", "Accepted", "Reconnect", "Ended"}
  /\ terminator' \in {"idle", "queued", "hangup", "wait", "done"}

LEMMA Ending ==
  ASSUME Types, NEW hangup, EndCall(hangup)
  PROVE  Ends
<1>0. CoreType /\ QueueType
  BY TypeParts DEF Types
<1>1. CASE ~managed
  <2>1. UNCHANGED <<managed, heard, terminator, state, events>>
    BY <1>1 DEF EndCall
  <2>2. managed' \in BOOLEAN
    BY <1>0, <2>1 DEF CoreType
  <2>. QED
    BY <1>0, <2>1, <2>2 DEF Ends, MayInject, CoreType
<1>2. CASE managed
  <2>1. managed' = FALSE
    BY <1>2 DEF EndCall
  <2>2. MayInject
    <3>1. inject_event(Plain("SendHangup")) \/ events' = events
      BY <1>2 DEF EndCall
    <3>. QED
      BY <1>0, <3>1, PlainEvent, Injecting DEF MayInject
  <2>3. state' \in {state} \cup Final /\ state' \in CallState
    BY <1>0, <1>2 DEF EndCall, Final, CoreType, CallState
  <2>4. heard' \subseteq {"Ringing", "Accepted", "Reconnect", "Ended"}
    BY <1>0, <1>2 DEF EndCall, CoreType
  <2>5. terminator' \in {"idle", "queued", "hangup", "wait", "done"}
    BY <1>2 DEF EndCall
  <2>. QED
    BY <2>1, <2>2, <2>3, <2>4, <2>5 DEF Ends
<1>. QED
  BY <1>1, <1>2

LEMMA ManagerSteps ==
  ASSUME Types, Inv, LocalHangup \/ TerminateBegins \/ TerminateReturns
  PROVE  Types' /\ Inv'
<1>0. CoreType /\ QueueType
  BY TypeParts DEF Types
<1>1. CASE LocalHangup
  <2>1. Ends
    BY <1>1, Ending DEF LocalHangup
  <2>2. UNCHANGED <<activeDev, connections, fsm, queues, media, signalled, direction>>
    BY <1>1 DEF LocalHangup
  <2>3. OutsideStep
    BY <2>1, <2>2 DEF OutsideStep, Ends
  <2>4. Inv'
    BY <1>0, <2>2, <2>3, OutsideKeeps DEF queues, connections
  <2>5. CoreType'
    BY <1>0, <2>1, <2>2 DEF CoreType, Ends, connections
  <2>6. QueueType'
    BY <1>0, <2>1, <2>2, OutsideQueues DEF Ends, queues
  <2>. QED
    BY <2>4, <2>5, <2>6, TypePartsNext DEF Types
<1>2. CASE TerminateBegins
  <2>1. ~managed /\ managed' = managed
    BY <1>2 DEF TerminateBegins, Inv, ManagedInv
  <2>2. MayInject
    BY SMT, <1>0, <1>2, <2>1, PlainEvent, Injecting DEF TerminateBegins
  <2>3. /\ UNCHANGED <<activeDev, connections, fsm, queues, media, heard, managed, direction>>
        /\ state' = "Terminating" /\ terminator' = "wait"
    BY <1>2 DEF TerminateBegins, fixed
  <2>4. OutsideStep
    BY SMT, <2>1, <2>2, <2>3 DEF OutsideStep, Final
  <2>5. Inv'
    BY <1>0, <2>3, <2>4, OutsideKeeps DEF queues, connections
  <2>6. signalled' \in BOOLEAN
    BY <1>0, <1>2 DEF TerminateBegins, CoreType
  <2>7. CoreType'
    BY <1>0, <2>3, <2>6 DEF CoreType, connections, CallState
  <2>8. QueueType'
    BY <1>0, <2>2, <2>3, OutsideQueues DEF queues
  <2>. QED
    BY <2>5, <2>7, <2>8, TypePartsNext DEF Types
<1>3. CASE TerminateReturns
  <2>1. ~managed /\ managed' = managed
    BY <1>3 DEF TerminateReturns, Inv, ManagedInv
  <2>2. /\ UNCHANGED <<activeDev, didSend, offer, accepting, events, fsm, queues, heard,
                       signalled, managed, direction>>
        /\ state' = "Terminated" /\ terminator' = "done" /\ forking' = FALSE /\ media' = {}
        /\ fsm.pc = "exited" /\ conns' = [d \in Devices |-> None]
    BY <1>3 DEF TerminateReturns, fixed, Closed
  <2>3. MayInject
    BY <2>2 DEF MayInject
  <2>4. OutsideStep
    BY SMT, <2>1, <2>2, <2>3 DEF OutsideStep, Final
  <2>5. Inv'
    BY <1>0, <2>2, <2>4, OutsideKeeps DEF queues
  <2>6. CoreType'
    BY <1>0, <2>2 DEF CoreType, CallState
  <2>7. QueueType'
    BY <1>0, <2>2, <2>3, OutsideQueues DEF queues
  <2>. QED
    BY <2>5, <2>6, <2>7, TypePartsNext DEF Types
<1>. QED
  BY <1>1, <1>2, <1>3

-----------------------------------------------------------------------------
(* The worker.                                                             *)

(* A task keeps the types if it keeps those of what it changes. *)
LEMMA TaskTypes ==
  ASSUME Types, TaskStep, CoreType', UNCHANGED notify
  PROVE  Types'
<1>1. QueueType'
  BY OutsideQueues DEF Types, TaskStep, OutsideStep
<1>. QED
  BY <1>1, TypePartsNext DEF Types

(* A task that fails injects an internal error. *)
LEMMA FailsOrSucceeds ==
  ASSUME Types, Fails \/ Succeeds \/ NoConnection \/ UNCHANGED events
                \/ inject_event(Plain("InternalError"))
  PROVE  MayInject
<1>1. inject_event(Plain("InternalError")) \/ events' = events
  BY DEF Fails, Succeeds, NoConnection
<1>. QED
  BY <1>1, PlainEvent, Injecting DEF MayInject, Types

LEMMA SkipSteps ==
  ASSUME Types, Inv, SkipTask
  PROVE  Types' /\ Inv'
<1>0. CoreType /\ QueueType
  BY TypeParts DEF Types
<1>1. /\ UNCHANGED <<state, activeDev, forking, didSend, offer, conns, accepting, events, fsm,
                     notify, media, heard, signalled, managed, terminator, direction>>
      /\ worker # <<>> /\ worker' = Tail(worker) /\ ~CallAccepted(state)
  BY DEF SkipTask, connections, outcome, manager, fixed, CallAccepted, active
<1>2. TaskStep
  BY <1>1 DEF TaskStep, OutsideStep, MayInject
<1>3. CoreType'
  BY <1>0, <1>1 DEF CoreType
<1>. QED
  BY <1>0, <1>1, <1>2, <1>3, TaskKeeps, TaskTypes

LEMMA ProceedSteps ==
  ASSUME Types, Inv, proceed
  PROVE  Types' /\ Inv'
<1>0. CoreType /\ QueueType
  BY TypeParts DEF Types
<1>1. /\ UNCHANGED <<state, accepting, fsm, notify, media, heard, signalled, managed,
                     terminator, direction>>
      /\ worker # <<>> /\ worker' = Tail(worker) /\ Head(worker).kind = "Proceed"
  BY DEF proceed, Works, outcome, manager
<1>2. MayInject
  <2>1. Fails \/ Succeeds
    BY DEF proceed
  <2>. QED
    BY <2>1, FailsOrSucceeds
<1>3. CASE direction = "Incoming"
  <2>1. TaskStep
    BY <1>1, <1>2, <1>3 DEF TaskStep, OutsideStep
  <2>2. /\ activeDev' = activeDev \/ activeDev' = offer
        /\ conns' = conns \/ conns' = [conns EXCEPT ![offer] = "ConnectingBeforeAccepted"]
        /\ offer' = None /\ UNCHANGED <<forking, didSend>>
    BY <1>3 DEF proceed
  <2>3. conns' \in [Devices -> ConnectionState \cup {None}]
    BY <1>0, <2>2 DEF CoreType, ConnectionState
  <2>4. CoreType'
    BY <1>0, <1>1, <2>2, <2>3 DEF CoreType
  <2>. QED
    BY <1>0, <1>1, <2>1, <2>4, TaskKeeps, TaskTypes
<1>4. CASE direction = "Outgoing"
  <2>1. UNCHANGED <<offer, conns, activeDev>>
    BY <1>4 DEF proceed
  <2>2. forking' \in BOOLEAN /\ didSend' \in BOOLEAN
    BY <1>0, <1>4 DEF proceed, CoreType
  <2>3. TaskStep
    BY <1>1, <1>2, <2>1 DEF TaskStep, OutsideStep
  <2>4. CoreType'
    BY <1>0, <1>1, <2>1, <2>2 DEF CoreType
  <2>. QED
    BY <1>0, <1>1, <2>3, <2>4, TaskKeeps, TaskTypes
<1>. QED
  BY <1>0, <1>3, <1>4 DEF CoreType, Directions

LEMMA AnswerSteps ==
  ASSUME Types, Inv, received_answer \/ received_ice
  PROVE  Types' /\ Inv'
<1>0. CoreType /\ QueueType
  BY TypeParts DEF Types
<1>1. CASE received_answer
  <2>1. /\ UNCHANGED <<state, activeDev, forking, didSend, offer, accepting, fsm, notify, media,
                       heard, signalled, managed, terminator, direction>>
        /\ worker # <<>> /\ worker' = Tail(worker) /\ Head(worker).kind = "Answer"
    BY <1>1 DEF received_answer, Works, outcome, manager
  <2>2. /\ Fails \/ Succeeds \/ inject_event(Plain("InternalError"))
        /\ \/ conns' = conns
           \/ conns' = [conns EXCEPT ![Head(worker).dev] = "ConnectingBeforeAccepted"]
    BY <1>1 DEF received_answer
  <2>3. MayInject
    BY <2>2, FailsOrSucceeds
  <2>4. TaskStep
    BY <2>1, <2>3 DEF TaskStep, OutsideStep
  <2>5. conns' \in [Devices -> ConnectionState \cup {None}]
    BY <1>0, <2>2 DEF CoreType, ConnectionState
  <2>6. CoreType'
    BY <1>0, <2>1, <2>5 DEF CoreType
  <2>. QED
    BY <1>0, <2>1, <2>4, <2>6, TaskKeeps, TaskTypes
<1>2. CASE received_ice
  <2>1. /\ UNCHANGED <<state, activeDev, forking, didSend, offer, conns, accepting, fsm, notify,
                       media, heard, signalled, managed, terminator, direction>>
        /\ worker # <<>> /\ worker' = Tail(worker) /\ Head(worker).kind = "Ice"
    BY <1>2 DEF received_ice, Works, connections, outcome, manager, fixed
  <2>2. MayInject
    BY <1>2, FailsOrSucceeds DEF received_ice
  <2>3. TaskStep
    BY <2>1, <2>2 DEF TaskStep, OutsideStep
  <2>4. CoreType'
    BY <1>0, <2>1 DEF CoreType
  <2>. QED
    BY <1>0, <2>1, <2>3, <2>4, TaskKeeps, TaskTypes
<1>. QED
  BY <1>1, <1>2

LEMMA AcceptSteps ==
  ASSUME Types, Inv, accept_locally \/ accept_remotely
  PROVE  Types' /\ Inv'
<1>0. CoreType /\ QueueType
  BY TypeParts DEF Types
<1>1. /\ UNCHANGED <<state, activeDev, forking, didSend, offer, conns, fsm, notify, signalled,
                     managed, terminator, direction>>
      /\ worker # <<>> /\ worker' = Tail(worker) /\ Head(worker).kind \in Accepting
  BY DEF accept_locally, accept_remotely, Works, connections, manager, Accepting
<1>2. /\ accepting' = accepting \/ accepting' = ActiveConnection
      /\ (ActiveConnection /\ EnablesMedia) \/ (~ActiveConnection /\ NoConnection)
  BY DEF accept_locally, accept_remotely, connections
<1>3. MayInject
  <2>1. Fails \/ Succeeds \/ NoConnection
    BY <1>2 DEF EnablesMedia
  <2>. QED
    BY <2>1, FailsOrSucceeds
<1>4. accepting' \in BOOLEAN
  BY <1>0, <1>2 DEF CoreType, ActiveConnection
<1>5. CASE ActiveConnection
  <2>1. activeDev \in Devices /\ media' = media \cup {activeDev}
    BY <1>0, <1>2, <1>5 DEF ActiveConnection, CoreType, EnablesMedia
  <2>2. heard' \subseteq {"Ringing", "Accepted", "Reconnect", "Ended"}
    BY <1>0, <1>2, <1>5 DEF EnablesMedia, CoreType
  <2>3. TaskStep
    BY <1>1, <1>2, <1>3, <2>1 DEF TaskStep, OutsideStep, Accepting
  <2>4. CoreType'
    BY SMT, <1>0, <1>1, <1>4, <2>1, <2>2 DEF CoreType
  <2>. QED
    BY <1>0, <1>1, <2>3, <2>4, TaskKeeps, TaskTypes
<1>6. CASE ~ActiveConnection
  <2>1. UNCHANGED <<media, heard>>
    BY <1>2, <1>6 DEF NoConnection
  <2>2. accepting' => accepting
    BY <1>2, <1>6
  <2>3. TaskStep
    BY <1>1, <1>3, <2>1, <2>2 DEF TaskStep, OutsideStep, Accepting
  <2>4. CoreType'
    BY <1>0, <1>1, <1>4, <2>1 DEF CoreType
  <2>. QED
    BY <1>0, <1>1, <2>3, <2>4, TaskKeeps, TaskTypes
<1>. QED
  BY <1>5, <1>6

(* HungUp keeps the map's keys. *)
LEMMA HangingUp ==
  ASSUME CoreType, NEW devs
  PROVE  /\ HungUp(devs) \in [Devices -> ConnectionState \cup {None}]
         /\ \A d \in Devices : HungUp(devs)[d] # None => conns[d] # None
BY DEF HungUp, CoreType, ConnectionState

LEMMA DropSteps ==
  ASSUME Types, Inv,
         terminate_connections_except_accepted \/ send_hangup_via_rtp_data_to_all
  PROVE  Types' /\ Inv'
<1>0. CoreType /\ QueueType
  BY TypeParts DEF Types
<1>1. /\ UNCHANGED <<state, activeDev, forking, didSend, offer, accepting, events, fsm, notify,
                     media, heard, managed, terminator, direction>>
      /\ worker # <<>> /\ worker' = Tail(worker)
  BY DEF terminate_connections_except_accepted, send_hangup_via_rtp_data_to_all, Works, outcome,
         manager, fixed
<1>2. CASE terminate_connections_except_accepted
  <2>1. /\ signalled' = TRUE /\ Head(worker).kind = "DropOthers"
        /\ conns' = [d \in Devices |-> IF d = Head(worker).dev THEN conns[d] ELSE None]
    BY <1>2 DEF terminate_connections_except_accepted, Works
  <2>2. /\ conns' \in [Devices -> ConnectionState \cup {None}]
        /\ \A d \in Devices : conns'[d] # None => conns[d] # None /\ d = Head(worker).dev
    BY <1>0, <2>1 DEF CoreType
  <2>3. TaskStep
    BY <1>1, <2>2 DEF TaskStep, OutsideStep, MayInject
  <2>4. CoreType'
    BY <1>0, <1>1, <2>1, <2>2 DEF CoreType
  <2>. QED
    BY <1>0, <1>1, <2>3, <2>4, TaskKeeps, TaskTypes
<1>3. CASE send_hangup_via_rtp_data_to_all
  <2>1. conns' = HungUp(Devices) /\ signalled' = signalled /\ Head(worker).kind = "HangUpAll"
    BY <1>3 DEF send_hangup_via_rtp_data_to_all, Works, outcome
  <2>2. /\ conns' \in [Devices -> ConnectionState \cup {None}]
        /\ \A d \in Devices : conns'[d] # None => conns[d] # None
    BY <1>0, <2>1, HangingUp
  <2>3. TaskStep
    BY <1>1, <2>1, <2>2 DEF TaskStep, OutsideStep, MayInject
  <2>4. CoreType'
    BY SMT, <1>0, <1>1, <2>1, <2>2 DEF CoreType
  <2>. QED
    BY <1>0, <1>1, <2>3, <2>4, TaskKeeps, TaskTypes
<1>. QED
  BY <1>2, <1>3

LEMMA EndSteps ==
  ASSUME Types, Inv, handle_ice_failed \/ EndsCall
  PROVE  Types' /\ Inv'
<1>0. CoreType /\ QueueType
  BY TypeParts DEF Types
<1>1. /\ UNCHANGED <<activeDev, forking, didSend, offer, accepting, fsm, notify, media, signalled,
                     direction>>
      /\ worker # <<>> /\ worker' = Tail(worker) /\ Head(worker).kind # "DropOthers"
  BY DEF handle_ice_failed, EndsCall, Works, connections, fixed
<1>2. /\ \/ \E hangup : EndCall(hangup)
         \/ UNCHANGED <<managed, heard, terminator, state, events>>
      /\ conns' = conns \/ \E d : conns' = [conns EXCEPT ![d] = None]
  <2>1. CASE handle_ice_failed
    BY <2>1 DEF handle_ice_failed
  <2>2. CASE EndsCall
    BY <2>2 DEF EndsCall, connections
  <2>. QED
    BY <2>1, <2>2
<1>3. Ends
  <2>1. CASE \E hangup : EndCall(hangup)
    BY <2>1, Ending
  <2>2. CASE UNCHANGED <<managed, heard, terminator, state, events>>
    <3>1. managed' \in BOOLEAN
      BY <1>0, <2>2 DEF CoreType
    <3>. QED
      BY <1>0, <2>2, <3>1 DEF Ends, MayInject, CoreType
  <2>. QED
    BY <1>2, <2>1, <2>2
<1>4. /\ conns' \in [Devices -> ConnectionState \cup {None}]
      /\ \A d \in Devices : conns'[d] # None => conns[d] # None
  BY <1>0, <1>2 DEF CoreType
<1>5. TaskStep
  BY <1>1, <1>3, <1>4 DEF TaskStep, OutsideStep, Ends
<1>6. CoreType'
  BY <1>0, <1>1, <1>3, <1>4 DEF CoreType, Ends
<1>. QED
  BY <1>0, <1>1, <1>5, <1>6, TaskKeeps, TaskTypes

LEMMA WorkerSteps ==
  ASSUME Types, Inv, WorkerStep
  PROVE  Types' /\ Inv'
BY SkipSteps, ProceedSteps, AnswerSteps, AcceptSteps, DropSteps, EndSteps DEF WorkerStep

-----------------------------------------------------------------------------
(* The state machine thread.                                               *)

LEMMA ReceiveSteps ==
  ASSUME Types, Inv, FsmReceive
  PROVE  Types' /\ Inv'
<1>0. CoreType /\ QueueType
  BY TypeParts DEF Types
<1>1. /\ UNCHANGED <<state, activeDev, forking, didSend, offer, conns, accepting, worker, notify,
                     media, heard, signalled, managed, terminator, direction>>
      /\ fsm.pc = "recv" /\ events # <<>> /\ events' = Tail(events)
      /\ fsm' = [pc |-> "handle", event |-> Head(events), read |-> state]
  BY DEF FsmReceive, connections, queues, outcome, manager, fixed
<1>2. /\ Tail(events) \in Seq(EventSet) /\ Head(events) \in EventSet
      /\ Head(events) = events[1] /\ 1 \in 1..Len(events)
      /\ \A i \in 1..Len(Tail(events)) :
           i + 1 \in 1..Len(events) /\ i + 1 # 1 /\ Tail(events)[i] = events[i + 1]
  BY SMT, <1>0, <1>1 DEF QueueType
<1>3. QueueType'
  BY <1>0, <1>1, <1>2 DEF QueueType, ThreadSet, CoreType
<1>4. CoreType'
  BY SMT, <1>0, <1>1 DEF CoreType
<1>5. fsm'.pc = "handle" /\ fsm'.event = events[1] /\ fsm'.read = state
  BY <1>1, <1>2
<1>6. ManagedInv' /\ StaleInv'
  BY <1>1, <1>2, <1>5 DEF Inv, ManagedInv, StaleInv
<1>7. EventInv'
  <2>1. \A i \in 1..Len(events) :
          /\ events[i].kind = "StartCall" => i = 1 /\ state \in {"NotYetStarted"} \cup Final
          /\ events[i].kind = "Accept" => direction = "Incoming"
          /\ events[i].kind = "Connection" => events[i].dev \in Devices
    BY DEF Inv, EventInv
  <2>. QED
    BY SMT, <1>1, <1>2, <1>5, <2>1 DEF EventInv
<1>8. LateInv' /\ ProceedInv' /\ MediaInv' /\ DropInv'
  BY <1>1, <1>5 DEF Inv, LateInv, MediaGranted, ProceedInv, MediaInv, DropInv, OnlyActive,
                    DropIsQueued
<1>9. AcceptInv'
  BY <1>1, <1>5 DEF Inv, AcceptInv
<1>. QED
  BY <1>3, <1>4, <1>6, <1>7, <1>8, <1>9, TypePartsNext DEF Types, Inv

(* What every handler leaves alone. *)
Handling ==
  /\ fsm.pc = "handle" /\ fsm' = Idle
  /\ UNCHANGED <<forking, didSend, offer, accepting, events, media, heard, managed, terminator,
                 direction>>

LEMMA HandlerTypes ==
  ASSUME Types, Inv, Handling, HandlerStep,
         state' \in CallState, activeDev' \in Devices \cup {None}, signalled' \in BOOLEAN,
         conns' \in [Devices -> ConnectionState \cup {None}],
         notify' = notify \/ notify' = Append(notify, "Ringing")
                          \/ notify' = Append(notify, "Reconnect")
  PROVE  Types' /\ Inv'
<1>0. CoreType /\ QueueType
  BY TypeParts DEF Types
<1>1. QueueType'
  BY <1>0, HandlerQueues DEF HandlerStep
<1>2. CoreType'
  BY <1>0 DEF CoreType, Handling
<1>. QED
  BY <1>0, <1>1, <1>2, HandlerKeeps, TypePartsNext DEF Types

(* A task put on the queue, and nothing else: never one that accepts, and  *)
(* an answer only while the call is not accepted.                          *)
LEMMA QueueingOnly ==
  ASSUME Types, Inv, Handling, UNCHANGED <<state, activeDev, conns, signalled, notify>>,
         NEW t \in TaskSet, t.kind \notin Accepting \cup {"Proceed"},
         t.kind = "Answer" => ~CallAccepted(fsm.read),
         worker' = worker \/ worker' = Append(worker, t)
  PROVE  Types' /\ Inv'
<1>0. CoreType /\ QueueType
  BY TypeParts DEF Types
<1>1. managed => state = fsm.read /\ state # "Terminated"
  BY DEF Inv, ManagedInv, Handling
<1>2. Extended /\ \A i \in 1..Len(worker') : New(i) =>
        /\ worker'[i].kind \notin Accepting \cup {"Proceed"}
        /\ worker'[i].kind = "Answer" => ~CallAccepted(fsm.read)
  <2>1. CASE worker' = worker
    BY <1>0, <2>1, NoTask
  <2>2. CASE worker' # worker
    <3>1. Extended /\ \A i \in 1..Len(worker') : New(i) => worker'[i] = t
      BY <1>0, <2>2, OneTask
    <3>. QED
      BY <3>1
  <2>. QED
    BY <2>1, <2>2
<1>3. HandlerStep
  BY <1>1, <1>2 DEF HandlerStep, Handling
<1>. QED
  BY <1>0, <1>3, HandlerTypes DEF CoreType

(* The event's device, in a task. *)
LEMMA TaskOf ==
  ASSUME QueueType, NEW kind \in UntilTerminating \cup EvenWhenTerminating
  PROVE  /\ Task(kind, fsm.event.dev) \in TaskSet /\ Task(kind, None) \in TaskSet
         /\ Task(kind, fsm.event.dev).kind = kind /\ Task(kind, None).kind = kind
         /\ Task(kind, fsm.event.dev).dev = fsm.event.dev
<1>1. fsm.event.dev \in Devices \cup {None}
  BY DEF QueueType, ThreadSet, EventSet
<1>. QED
  BY <1>1 DEF Task, TaskSet

LEMMA QueueingSteps ==
  ASSUME Types, Inv,
         \/ DropEvent \/ handle_received_answer \/ handle_received_ice
         \/ handle_internal_error \/ handle_call_timeout
         \/ handle_send_hangup_via_rtp_data_to_all \/ ConnectionFails \/ IgnoreStateChange
  PROVE  Types' /\ Inv'
<1>0. QueueType
  BY DEF Types
<1>1. Handling /\ UNCHANGED <<state, activeDev, conns, signalled, notify>>
  BY DEF Handling, DropEvent, handle_received_answer, handle_received_ice, handle_internal_error,
         handle_call_timeout, handle_send_hangup_via_rtp_data_to_all, ConnectionFails,
         IgnoreStateChange, StateChange, Handles, connections, queues, outcome, manager, fixed
<1>2. \/ worker' = worker
      \/ worker' = Append(worker, Task("Answer", fsm.event.dev)) /\ ~CallAccepted(fsm.read)
      \/ worker' = Append(worker, Task("Ice", fsm.event.dev))
      \/ worker' = Append(worker, Task("InternalError", None))
      \/ worker' = Append(worker, Task("Timeout", None))
      \/ worker' = Append(worker, Task("HangUpAll", None))
      \/ worker' = Append(worker, Task("IceFailed", fsm.event.dev))
  BY DEF DropEvent, handle_received_answer, handle_received_ice, handle_internal_error,
         handle_call_timeout, handle_send_hangup_via_rtp_data_to_all, ConnectionFails,
         IgnoreStateChange, queues, Spawns, CallAccepted, active
<1>3. \A kind \in {"Answer", "Ice", "IceFailed"} :
        Task(kind, fsm.event.dev) \in TaskSet /\ Task(kind, fsm.event.dev).kind = kind
  BY <1>0, TaskOf DEF UntilTerminating
<1>4. \A kind \in {"InternalError", "Timeout", "HangUpAll"} :
        Task(kind, None) \in TaskSet /\ Task(kind, None).kind = kind
  BY <1>0, TaskOf DEF EvenWhenTerminating
<1>5. PICK t \in TaskSet : /\ t.kind \notin Accepting \cup {"Proceed"}
                           /\ t.kind = "Answer" => ~CallAccepted(fsm.read)
                           /\ worker' = worker \/ worker' = Append(worker, t)
  BY <1>2, <1>3, <1>4 DEF Accepting
<1>. QED
  BY <1>1, <1>5, QueueingOnly

(* The handlers that move the call on. *)
LEMMA StartSteps ==
  ASSUME Types, Inv, handle_start_call \/ handle_proceed \/ ConnectedRings
  PROVE  Types' /\ Inv'
<1>0. CoreType /\ QueueType
  BY TypeParts DEF Types
<1>1. Handling /\ UNCHANGED <<activeDev, conns, signalled>>
  BY DEF Handling, handle_start_call, handle_proceed, ConnectedRings, StateChange, Handles,
         connections, outcome, manager, fixed
<1>2. notify' = notify \/ notify' = Append(notify, "Ringing")
  BY DEF handle_start_call, handle_proceed, ConnectedRings, queues
<1>3. managed => state = fsm.read /\ state # "Terminated"
  BY <1>1 DEF Inv, ManagedInv, Handling
<1>4. \/ state' = state /\ worker' = worker
      \/ ~Late(fsm.read) /\ state' \in {"WaitingToProceed", "ConnectedBeforeAccepted"}
         /\ worker' = worker
      \/ ~Late(fsm.read) /\ state' = "ConnectingBeforeAccepted"
         /\ worker' = Append(worker, Task("Proceed", None))
  <2>1. CASE handle_start_call
    <3>1. fsm.read = "NotYetStarted"
      BY <2>1 DEF handle_start_call, Handles, terminating_or_terminated, Inv, EventInv, Final
    <3>. QED
      BY <2>1, <3>1 DEF handle_start_call, queues, Late, CallAccepted, active, Final
  <2>2. CASE handle_proceed
    BY <2>2 DEF handle_proceed, Spawns, Late, CallAccepted, active, Final
  <2>3. CASE ConnectedRings
    BY <2>3 DEF ConnectedRings, StateChange, Late, CallAccepted, active, Final
  <2>. QED
    BY <2>1, <2>2, <2>3
<1>5. state' \in CallState /\ (managed => state' # "Terminated")
      /\ (state' # state => ~CallAccepted(state') /\ ~Late(fsm.read))
  BY <1>0, <1>3, <1>4 DEF CoreType, CallState, CallAccepted, active
<1>6. Extended /\ \A i \in 1..Len(worker') : New(i) =>
        ~Late(fsm.read) /\ worker'[i].kind = "Proceed" /\ i = Len(worker) + 1
  <2>1. CASE worker' = worker
    BY <1>0, <2>1, NoTask
  <2>2. CASE worker' = Append(worker, Task("Proceed", None)) /\ ~Late(fsm.read)
    <3>1. Task("Proceed", None) \in TaskSet /\ Task("Proceed", None).kind = "Proceed"
      BY <1>0, TaskOf DEF UntilTerminating
    <3>. QED
      BY <1>0, <2>2, <3>1, OneTask
  <2>. QED
    BY <1>4, <2>1, <2>2
<1>7. HandlerStep
  BY <1>1, <1>3, <1>5, <1>6 DEF HandlerStep, Handling, Accepting
<1>. QED
  BY <1>0, <1>1, <1>2, <1>5, <1>7, HandlerTypes DEF CoreType

(* A callee accepts; the accepted connection of a caller connects.         *)
LEMMA ActivateSteps ==
  ASSUME Types, Inv, handle_accept_call \/ ConnectedAfterAccepted \/ Reconnects
  PROVE  Types' /\ Inv'
<1>0. CoreType /\ QueueType
  BY TypeParts DEF Types
<1>1. Handling /\ UNCHANGED <<activeDev, conns, signalled>>
  BY DEF Handling, handle_accept_call, ConnectedAfterAccepted, Reconnects, StateChange, Handles,
         connections, outcome, manager, fixed
<1>2. notify' = notify \/ notify' = Append(notify, "Ringing")
                       \/ notify' = Append(notify, "Reconnect")
  BY DEF handle_accept_call, ConnectedAfterAccepted, Reconnects
<1>3. managed => state = fsm.read /\ state # "Terminated"
  BY <1>1 DEF Inv, ManagedInv, Handling
<1>4. \/ state' = state /\ worker' = worker
      \/ /\ state' \in {"ConnectedAndAccepted", "ReconnectingAfterAccepted"}
         /\ direction = "Outgoing" => CallAccepted(fsm.read)
         /\ \/ worker' = worker
            \/ worker' = Append(worker, Task("AcceptLocally", None))
            \/ worker' = Append(worker, Task("AcceptRemotely", None))
  <2>1. CASE handle_accept_call
    <3>1. direction = "Incoming"
      BY <2>1 DEF handle_accept_call, Handles, Inv, EventInv
    <3>. QED
      BY <2>1, <3>1 DEF handle_accept_call, Spawns, Late, CallAccepted, active
  <2>2. CASE ConnectedAfterAccepted
    BY <2>2 DEF ConnectedAfterAccepted, StateChange, Spawns, Late, CallAccepted, active
  <2>3. CASE Reconnects
    BY <2>3 DEF Reconnects, StateChange, CallAccepted, active
  <2>. QED
    BY <2>1, <2>2, <2>3
<1>5. /\ state' \in CallState /\ (managed => state' # "Terminated")
      /\ state' # state => Late(state')
      /\ managed /\ direction = "Outgoing" /\ CallAccepted(state') => CallAccepted(fsm.read)
  BY <1>0, <1>3, <1>4 DEF CoreType, CallState, Late, CallAccepted, active
<1>6. Extended /\ \A i \in 1..Len(worker') : New(i) =>
        Late(state') /\ worker'[i].kind \in Accepting
  <2>1. CASE worker' = worker
    BY <1>0, <2>1, NoTask
  <2>2. CASE worker' # worker
    <3>1. Late(state')
      BY <1>4, <2>2 DEF Late, CallAccepted, active
    <3>2. \A kind \in Accepting : Task(kind, None) \in TaskSet /\ Task(kind, None).kind = kind
      BY <1>0, TaskOf DEF UntilTerminating, Accepting
    <3>3. PICK t \in TaskSet : worker' = Append(worker, t) /\ t.kind \in Accepting
      BY <1>4, <2>2, <3>2 DEF Accepting
    <3>4. Extended /\ \A i \in 1..Len(worker') : New(i) => worker'[i] = t
      BY <1>0, <3>3, OneTask
    <3>. QED
      BY <3>1, <3>3, <3>4
  <2>. QED
    BY <2>1, <2>2
<1>7. HandlerStep
  BY <1>1, <1>5, <1>6 DEF HandlerStep, Handling, Accepting
<1>. QED
  BY <1>0, <1>1, <1>2, <1>5, <1>7, HandlerTypes DEF CoreType

LEMMA HangupSteps ==
  ASSUME Types, Inv, handle_received_hangup
  PROVE  Types' /\ Inv'
<1>0. CoreType /\ QueueType
  BY TypeParts DEF Types
<1>1. Handling /\ UNCHANGED <<activeDev, notify>>
  BY DEF Handling, handle_received_hangup, Handles, manager, fixed
<1>2. managed => state = fsm.read /\ state # "Terminated"
  BY <1>1 DEF Inv, ManagedInv, Handling
<1>3. /\ state' = state \/ state' = "Terminating"
      /\ conns' = conns \/ \E d : conns' = HungUp(Devices \ {d})
      /\ worker' = worker \/ worker' = Append(worker, Task("RemoteHangup", None))
  BY DEF handle_received_hangup, Spawns
<1>4. signalled' \in BOOLEAN
  BY <1>0 DEF handle_received_hangup, CoreType, should_propagate_hangup
<1>5. /\ conns' \in [Devices -> ConnectionState \cup {None}]
      /\ \A d \in Devices : conns'[d] # None => conns[d] # None
  BY <1>0, <1>3, HangingUp DEF CoreType
<1>6. /\ state' \in CallState /\ (managed => state' # "Terminated")
      /\ state' = state \/ (Late(state') /\ ~CallAccepted(state'))
  BY <1>0, <1>2, <1>3 DEF CoreType, CallState, Late, Final, CallAccepted, active
<1>7. Extended /\ \A i \in 1..Len(worker') : New(i) => worker'[i].kind = "RemoteHangup"
  <2>1. CASE worker' = worker
    BY <1>0, <2>1, NoTask
  <2>2. CASE worker' = Append(worker, Task("RemoteHangup", None))
    <3>1. /\ Task("RemoteHangup", None) \in TaskSet
          /\ Task("RemoteHangup", None).kind = "RemoteHangup"
      BY <1>0, TaskOf DEF EvenWhenTerminating
    <3>. QED
      BY <1>0, <2>2, <3>1, OneTask
  <2>. QED
    BY <1>3, <2>1, <2>2
<1>8. HandlerStep
  BY <1>1, <1>2, <1>5, <1>6, <1>7 DEF HandlerStep, Handling, Accepting
<1>. QED
  BY <1>0, <1>1, <1>4, <1>5, <1>6, <1>8, HandlerTypes DEF CoreType

(* A device accepts: it becomes the active one before any media is         *)
(* granted, and the task that drops the others is behind every answer.     *)
LEMMA AcceptedSteps ==
  ASSUME Types, Inv, AcceptedBeforeConnected \/ AcceptedAfterConnected
  PROVE  Types' /\ Inv'
<1>0. CoreType /\ QueueType
  BY TypeParts DEF Types
<1> DEFINE dev == fsm.event.dev
           drop == Task("DropOthers", dev)
           accept == Task("AcceptRemotely", None)
<1>1. Handling /\ UNCHANGED <<signalled, notify>>
  BY DEF Handling, AcceptedBeforeConnected, AcceptedAfterConnected, StateChange, Handles, outcome,
         manager, fixed
<1>2. /\ activeDev' = dev /\ conns' = HungUp(Devices \ {dev})
      /\ state' \in {"ConnectingAfterAccepted", "ConnectedAndAccepted"}
      /\ fsm.read \in {"ConnectingBeforeAccepted", "ConnectedBeforeAccepted"}
      /\ worker' = Append(worker, drop) \/ worker' = worker \o <<drop, accept>>
  BY DEF AcceptedBeforeConnected, AcceptedAfterConnected, StateChange, Spawns
<1>3. dev \in Devices
  BY DEF AcceptedBeforeConnected, AcceptedAfterConnected, StateChange, Handles, Inv, EventInv
<1>4. /\ conns' \in [Devices -> ConnectionState \cup {None}]
      /\ \A d \in Devices : conns'[d] # None => conns[d] # None
  BY <1>0, <1>2, HangingUp
<1>5. /\ drop \in TaskSet /\ drop.kind = "DropOthers" /\ drop.dev = dev
      /\ accept \in TaskSet /\ accept.kind = "AcceptRemotely"
  BY <1>0, TaskOf DEF UntilTerminating
<1>6. state' \in CallState /\ state' # "Terminated" /\ Late(state') /\ ~Late(fsm.read)
  BY <1>2 DEF CallState, Late, CallAccepted, active, Final
<1>7. /\ Extended /\ New(Len(worker) + 1) /\ worker'[Len(worker) + 1] = drop
      /\ \A i \in 1..Len(worker') : New(i) => worker'[i] = drop \/ worker'[i] = accept
  <2> HIDE DEF drop, accept
  <2>1. CASE worker' = Append(worker, drop)
    BY <1>0, <1>5, <2>1, OneTask
  <2>2. CASE worker' = worker \o <<drop, accept>>
    BY SMT, <1>0, <1>5, <2>2 DEF QueueType, Extended, New
  <2>. QED
    BY <1>2, <2>1, <2>2
<1>8. DropIsQueued'
  <2>1. Len(worker) + 1 \in 1..Len(worker')
    BY <1>7 DEF New
  <2>2. \A j \in 1..Len(worker') : j > Len(worker) + 1 => New(j)
    BY SMT, <1>0 DEF New, QueueType
  <2>3. \A j \in 1..Len(worker') : j > Len(worker) + 1 => worker'[j].kind # "Answer"
    BY <1>5, <1>7, <2>2
  <2>4. /\ worker'[Len(worker) + 1].kind = "DropOthers"
        /\ worker'[Len(worker) + 1].dev = activeDev'
    BY <1>2, <1>5, <1>7
  <2>. QED
    BY <2>1, <2>3, <2>4 DEF DropIsQueued
<1>9. \A i \in 1..Len(worker') : New(i) => worker'[i].kind # "Proceed"
  BY <1>5, <1>7
<1>10. HandlerStep
  BY <1>1, <1>4, <1>6, <1>7, <1>8, <1>9 DEF HandlerStep, Handling
<1>. QED
  BY <1>0, <1>1, <1>2, <1>3, <1>4, <1>6, <1>10, HandlerTypes DEF CoreType

LEMMA TerminateSteps ==
  ASSUME Types, Inv, handle_terminate
  PROVE  Types' /\ Inv'
<1>0. CoreType /\ QueueType
  BY TypeParts DEF Types
<1>1. /\ UNCHANGED <<activeDev, forking, didSend, offer, conns, accepting, media, heard, signalled,
                     managed, terminator, direction>>
      /\ fsm' = [Idle EXCEPT !.pc = "exited"] /\ state' = "Terminated"
      /\ events' = <<>> /\ worker' = <<>> /\ notify' = <<>>
      /\ fsm.pc = "handle" /\ fsm.event.kind = "Terminate"
  BY DEF handle_terminate, connections, outcome, manager, fixed
<1>2. fsm' \in ThreadSet /\ fsm'.pc = "exited"
  BY <1>1 DEF Idle, ThreadSet, Plain, Event, EventSet, CallState
<1>3. QueueType'
  BY SMT, <1>1, <1>2 DEF QueueType
<1>4. CoreType'
  BY SMT, <1>0, <1>1 DEF CoreType, CallState
<1>5. ~managed
  BY <1>1 DEF Inv, ManagedInv
<1>6. ManagedInv' /\ StaleInv' /\ EventInv'
  BY SMT, <1>1, <1>2, <1>5 DEF ManagedInv, StaleInv, EventInv
<1>7. LateInv' /\ ProceedInv' /\ MediaInv' /\ DropInv' /\ AcceptInv'
  BY SMT, <1>1, <1>2, <1>5 DEF Inv, LateInv, Late, Final, ProceedInv, MediaInv, DropInv, AcceptInv
<1>. QED
  BY <1>3, <1>4, <1>6, <1>7, TypePartsNext DEF Types, Inv

LEMMA HandleSteps ==
  ASSUME Types, Inv, FsmHandle
  PROVE  Types' /\ Inv'
BY QueueingSteps, StartSteps, ActivateSteps, HangupSteps, AcceptedSteps, TerminateSteps
   DEF FsmHandle, handle_connection_observer_event

-----------------------------------------------------------------------------
LEMMA Initially ==
  ASSUME Init
  PROVE  Types /\ Inv
<1>1. Plain("StartCall") \in EventSet /\ Plain("StartCall").kind = "StartCall"
  BY DEF Plain, Event, EventSet
<1>2. Idle \in ThreadSet /\ Idle.pc = "recv"
  BY DEF Idle, ThreadSet, Plain, Event, EventSet, CallState
<1>3. QueueType
  BY SMT, <1>1, <1>2 DEF Init, QueueType
<1>4. CoreType
  BY DEF Init, CoreType, Directions, CallState
<1>5. ManagedInv /\ StaleInv /\ EventInv
  BY SMT, <1>1, <1>2 DEF Init, ManagedInv, StaleInv, EventInv
<1>6. LateInv /\ ProceedInv /\ MediaInv /\ DropInv /\ AcceptInv
  BY SMT, <1>2 DEF Init, LateInv, MediaGranted, ProceedInv, MediaInv, DropInv, CallAccepted, active,
              AcceptInv
<1>. QED
  BY <1>3, <1>4, <1>5, <1>6, TypeParts DEF Types, Inv

(* Every step, of whichever thread, keeps the types and the invariant. *)
LEMMA NextKeeps ==
  ASSUME Types, Inv, [Next]_vars
  PROVE  Types' /\ Inv'
<1>1. CASE Next
  BY <1>1, InputSteps, ConnectionSteps, ReceiveSteps, HandleSteps, WorkerSteps, NotifySteps,
     ManagerSteps DEF Next
<1>2. CASE UNCHANGED vars
  <2>1. MayInject /\ Same /\ UNCHANGED <<fsm, queues>>
    BY <1>2 DEF vars, MayInject, Same, fixed
  <2>. QED
    BY <2>1, InjectOnly
<1>. QED
  BY <1>1, <1>2

(* The invariant holds in every reachable state of a call, for any number  *)
(* of devices that answer and of inputs.                                   *)
THEOREM Invariance == Spec => [](Types /\ Inv)
<1>1. Init => Types /\ Inv
  BY Initially
<1>2. Types /\ Inv /\ [Next]_vars => (Types /\ Inv)'
  BY NextKeeps
<1>. QED
  BY <1>1, <1>2, PTL DEF Spec

(* Media is enabled for one device at most, the active one, and only in a  *)
(* call that was accepted (accept_locally, accept_remotely and             *)
(* handle_remotely_accepted_connection): whatever order the acceptances of *)
(* several devices, hangups, failures and time-outs come in.               *)
THEOREM MediaOnActive == Spec => []MediaOnlyOnActive
<1>1. Types /\ Inv => MediaOnlyOnActive
  <2>. SUFFICES ASSUME Types, Inv PROVE MediaOnlyOnActive
    OBVIOUS
  <2>1. media # {} => media = {activeDev}
    BY DEF Inv, MediaInv
  <2>2. media # {} /\ managed => CallAccepted(state) \/ state = "Terminating"
    BY DEF Inv, LateInv, MediaGranted, Late, Final, ManagedInv
  <2>. QED
    BY <2>1, <2>2 DEF MediaOnlyOnActive, Types
<1>. QED
  BY <1>1, Invariance, PTL

(* Once a caller's call is accepted and the worker is idle, the accepted   *)
(* device's connection is the only one left                                *)
(* (terminate_connections_except_accepted and received_answer).            *)
THEOREM OthersDropped == Spec => []OneDeviceRemains
<1>1. Types /\ Inv => OneDeviceRemains
  <2>. SUFFICES ASSUME Inv, managed, direction = "Outgoing", CallAccepted(state), worker = <<>>
                PROVE  \A d \in Devices : conns[d] # None => d = activeDev
    BY DEF OneDeviceRemains
  <2>1. ~DropIsQueued
    BY SMT DEF DropIsQueued
  <2>. QED
    BY <2>1 DEF Inv, DropInv, OnlyActive
<1>. QED
  BY <1>1, Invariance, PTL
=============================================================================
