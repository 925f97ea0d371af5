-------------------------- MODULE ConnectionProofs --------------------------
(***************************************************************************)
(* A connection applies the newest status it was sent, is quiet after      *)
(* terminate(), and does not lose a report of ICE, for every capacity of   *)
(* the channel, any number of status messages and any number of inputs.    *)
(*                                                                         *)
(* The state machine thread handles an event with a state it read before,  *)
(* so neither fact is inductive.  The invariant adds what protects the     *)
(* stale value: while an event is handled, the state is the one read or a  *)
(* final one, since every other thread only writes final ones.  For ICE it *)
(* follows the last report, through the channel and the handler.           *)
(***************************************************************************)
EXTENDS Connection, TLAPS

(* A leaf is left to Zenon unless it says otherwise: most are first-order  *)
(* reasoning over sets and functions.                                      *)
USE ZenonT(60)

(* The state machine thread runs from the end of start_* on. *)
StartedInv == fsm.pc = "unstarted" <=> starter # "ended"

(* What can overtake the state machine thread between its read of the      *)
(* state and its handler (hangup and terminate) makes the state final.     *)
StaleInv ==
  fsm.pc = "handle" => state \in {fsm.read, "Terminating", "Terminated"}

(* The cache keeps the newest message. *)
CacheInv == last = newest

(* The newest status is in effect while the state, or the state that the   *)
(* handler goes by, is accepted and connected.                             *)
Applied == newest = 0 \/ applied = StatusValue(newest)

AppliedInv ==
  active(state) \/ (fsm.pc = "handle" /\ active(fsm.read)) => Applied

(* A state machine that ended left nothing behind (handle_terminate). *)
QuietInv ==
  /\ fsm.pc = "exited" => events = <<>> /\ worker = <<>> /\ notify = <<>>
  /\ terminator = "returned" => fsm.pc = "exited"

Inv == StartedInv /\ StaleInv /\ CacheInv /\ AppliedInv /\ QuietInv

USE ConnectionAssumption

-----------------------------------------------------------------------------
(* Type correctness, in the groups that an action changes together.        *)

ChannelType ==
  /\ events \in Seq(Event) /\ Len(events) <= QueueCapacity
  /\ lost \in BOOLEAN

FsmType == fsm \in [pc : {"unstarted", "recv", "handle", "exited"},
                    event : Event, read : ConnectionState]

ActorsType == worker \in Seq(Task) /\ notify \in Seq(Notice)

OwnerType ==
  /\ starter \in {"idle", "starting", "ended"}
  /\ hangup \in {"idle", "inject", "done"}
  /\ terminator \in {"idle", "inject", "wait", "failed", "returned"}

StatusesType ==
  last \in 0..MaxSeqnum /\ applied \in 0..Unset /\ newest \in 0..MaxSeqnum

HistoryType ==
  /\ sent \subseteq {"SendAccepted", "SendHangup"} /\ told \subseteq Notice
  /\ failed \in BOOLEAN

IceType == ice \in {"new", "checking", "connected", "disconnected", "failed"}

OutsideType ==
  type \in ConnectionType /\ IceType /\ HistoryType /\ inputs \in 0..MaxInputs

(* The groups make up the type invariant. *)
LEMMA TypeParts ==
  TypeOK <=> /\ state \in ConnectionState
             /\ ChannelType /\ FsmType /\ ActorsType /\ OwnerType
             /\ StatusesType /\ OutsideType
BY DEF TypeOK, ChannelType, FsmType, ActorsType, OwnerType, StatusesType,
       OutsideType, HistoryType, IceType

(* The same after a step. *)
LEMMA TypePartsNext ==
  TypeOK' <=> /\ state' \in ConnectionState
              /\ ChannelType' /\ FsmType' /\ ActorsType' /\ OwnerType'
              /\ StatusesType' /\ OutsideType'
BY DEF TypeOK, ChannelType, FsmType, ActorsType, OwnerType, StatusesType,
       OutsideType, HistoryType, IceType

(* The events that carry no seqnum. *)
LEMMA PlainEvents == \A kind \in EventKind : Of(kind) \in Event
BY SMT DEF Of, Event

(* A state machine thread that waits for an event. *)
LEMMA IdleType ==
  ASSUME NEW pc \in {"unstarted", "recv", "handle", "exited"}
  PROVE  [Idle EXCEPT !.pc = pc] \in
           [pc : {"unstarted", "recv", "handle", "exited"},
            event : Event, read : ConnectionState]
<1>1. Of("Terminate") \in Event
  BY PlainEvents DEF EventKind
<1>. QED
  BY <1>1 DEF Idle, ConnectionState

(* inject_event keeps the channel within its capacity. *)
LEMMA InjectType ==
  ASSUME ChannelType, NEW e \in Event, inject_event(e)
  PROVE  ChannelType'
<1>1. CASE Closed \/ Full
  <2>1. events' = events
    BY <1>1 DEF inject_event
  <2>2. lost' \in BOOLEAN
    BY DEF inject_event
  <2>. QED
    BY <2>1, <2>2 DEF ChannelType
<1>2. CASE ~(Closed \/ Full)
  <2>1. events' = Append(events, e) /\ Len(events) < QueueCapacity
    BY SMT, <1>2 DEF inject_event, ChannelType, Full
  <2>2. lost' \in BOOLEAN
    BY DEF inject_event
  <2>. QED
    BY SMT, <2>1, <2>2 DEF ChannelType
<1>. QED
  BY <1>1, <1>2

(* A connection starts well-typed. *)
LEMMA InitType == Init => TypeOK
<1>. SUFFICES ASSUME Init PROVE TypeOK
  OBVIOUS
<1>1. FsmType
  BY IdleType DEF Init, FsmType
<1>2. ChannelType /\ ActorsType
  <2>1. events \in Seq(Event) /\ Len(events) <= QueueCapacity
    BY SMT DEF Init
  <2>2. lost \in BOOLEAN
    BY DEF Init
  <2>3. worker \in Seq(Task) /\ notify \in Seq(Notice)
    BY SMT DEF Init
  <2>. QED
    BY <2>1, <2>2, <2>3 DEF ChannelType, ActorsType
<1>3. StatusesType /\ inputs \in 0..MaxInputs
  BY SMT DEF Init, StatusesType, Unset
<1>4. state \in ConnectionState /\ OwnerType
  BY DEF Init, OwnerType, ConnectionState
<1>5. type \in ConnectionType /\ IceType /\ HistoryType
  BY DEF Init, HistoryType, IceType
<1>. QED
  BY <1>1, <1>2, <1>3, <1>4, <1>5, TypeParts DEF OutsideType

(* Every state a handler moves to is a state. *)
LEMMA NextStates ==
  ASSUME NEW s \in ConnectionState
  PROVE  /\ OnIceConnected(s) \in ConnectionState
         /\ OnIceDisconnected(s) \in ConnectionState
         /\ OnIceFailed(s) \in ConnectionState
         /\ OnReceivedAccepted(s) \in ConnectionState
         /\ OnAccept(s) \in ConnectionState
BY DEF ConnectionState, OnIceConnected, OnIceDisconnected, OnIceFailed,
       OnReceivedAccepted, OnAccept

(* What a handler finds: an event and a state, both well-typed, and an     *)
(* idle thread when it is done.                                            *)
LEMMA HandlingType ==
  ASSUME FsmType, NEW kinds, Handling(kinds)
  PROVE  /\ fsm.event \in Event /\ fsm.read \in ConnectionState
         /\ FsmType'
<1>1. fsm' = [Idle EXCEPT !.pc = "recv"]
  BY SMT DEF Handling, Idle
<1>. QED
  BY <1>1, IdleType DEF FsmType

(* The cached status, applied, is a status. *)
LEMMA FirstTimeType ==
  ASSUME StatusesType, ActorsType, NEW event,
         handle_connected_and_accepted_for_the_first_time(event)
  PROVE  applied' \in 0..Unset /\ worker' \in Seq(Task)
<1>1. StatusValue(last) \in 0..Unset
  BY SMT DEF StatusValue, StatusesType, Unset
<1>2. "SendAccepted" \in Task
  BY DEF Task
<1>3. applied' \in 0..Unset
  BY <1>1 DEF handle_connected_and_accepted_for_the_first_time, StatusesType
<1>4. worker' = worker \/ worker' = Append(worker, "SendAccepted")
  BY DEF handle_connected_and_accepted_for_the_first_time
<1>5. worker \in Seq(Task) /\ Append(worker, "SendAccepted") \in Seq(Task)
  BY SMT, <1>2 DEF ActorsType
<1>6. worker' \in Seq(Task)
  BY <1>4, <1>5
<1>. QED
  BY <1>3, <1>6

(* An input is counted. *)
LEMMA InputType ==
  ASSUME OutsideType, Input
  PROVE  inputs' \in 0..MaxInputs
BY SMT DEF Input, OutsideType

(* The inputs of the environment: an event is injected, ICE may change. *)
LEMMA EnvironmentType ==
  ASSUME TypeOK, IceChange \/ ReceiveStatus \/ ReceiveAccept \/ ReceiveHangup
                 \/ RequestJob
  PROVE  TypeOK'
<1>0. /\ state \in ConnectionState /\ ChannelType /\ FsmType /\ ActorsType
      /\ OwnerType /\ StatusesType /\ OutsideType
  BY TypeParts
<1>1. PICK e \in Event : inject_event(e)
  <2>1. CASE IceChange
    <3>1. \A k \in IceKind : Of(k) \in Event
      BY PlainEvents DEF EventKind
    <3>. QED
      BY <2>1, <3>1 DEF IceChange, inject_ice, IceKind
  <2>2. CASE ReceiveStatus
    <3>1. PICK n \in 1..MaxSeqnum : inject_event([kind |-> "Status", seqnum |-> n])
      BY <2>2 DEF ReceiveStatus
    <3>2. [kind |-> "Status", seqnum |-> n] \in Event
      BY SMT DEF Event, EventKind
    <3>. QED
      BY <3>1, <3>2
  <2>3. CASE ReceiveAccept
    BY <2>3, PlainEvents DEF ReceiveAccept, EventKind
  <2>4. CASE ReceiveHangup
    BY <2>4, PlainEvents DEF ReceiveHangup, EventKind
  <2>5. CASE RequestJob
    <3>1. PICK k \in JobKind : inject_event(Of(k))
      BY <2>5 DEF RequestJob
    <3>. QED
      BY <3>1, PlainEvents DEF EventKind
  <2>. QED
    BY <2>1, <2>2, <2>3, <2>4, <2>5
<1>2. ChannelType'
  BY <1>0, <1>1, InjectType
<1>3. inputs' \in 0..MaxInputs
  BY <1>0, InputType DEF IceChange, ReceiveStatus, ReceiveAccept, ReceiveHangup,
                         RequestJob
<1>4. IceType'
  BY <1>0 DEF IceChange, inject_ice, ReceiveStatus, ReceiveAccept,
              ReceiveHangup, RequestJob, IceType, OutsideType
<1>5. UNCHANGED <<type, state, fsm, actors, owner, statuses, history>>
  BY DEF IceChange, ReceiveStatus, ReceiveAccept, ReceiveHangup, RequestJob
<1>6. /\ state' \in ConnectionState /\ FsmType' /\ ActorsType' /\ OwnerType'
      /\ StatusesType' /\ type' \in ConnectionType /\ HistoryType'
  BY <1>0, <1>5 DEF FsmType, ActorsType, OwnerType, StatusesType, OutsideType,
                    HistoryType, actors, owner, statuses, history
<1>. QED
  BY <1>2, <1>3, <1>4, <1>6, TypePartsNext DEF OutsideType

(* The handlers of the state machine thread. *)
LEMMA HandlersType ==
  ASSUME TypeOK, FsmHandle
  PROVE  TypeOK'
<1>0. /\ state \in ConnectionState /\ ChannelType /\ FsmType /\ ActorsType
      /\ OwnerType /\ StatusesType /\ OutsideType
  BY TypeParts
<1>1. UNCHANGED <<owner, outside>>
  BY DEF FsmHandle, DropEvent, handle_ice_connected, handle_ice_disconnected,
         handle_ice_failed, handle_received_accepted_via_rtp_data,
         handle_accept, handle_received_status, handle_received_hangup,
         handle_job, handle_internal_error, handle_send_hangup_via_rtp_data,
         handle_terminate
<1>2. OwnerType' /\ OutsideType'
  BY <1>0, <1>1 DEF OwnerType, OutsideType, HistoryType, IceType, owner, outside,
                    history
<1>3. SUFFICES /\ state' \in ConnectionState /\ ChannelType' /\ FsmType'
               /\ ActorsType' /\ StatusesType'
  BY <1>2, TypePartsNext
<1>4. CASE DropEvent
  <2>1. fsm' = [Idle EXCEPT !.pc = "recv"]
    BY SMT, <1>4 DEF DropEvent, Idle
  <2>2. FsmType'
    BY <2>1, IdleType DEF FsmType
  <2>. QED
    BY <1>0, <1>4, <2>2 DEF DropEvent, ChannelType, ActorsType, StatusesType,
                            channel, actors, statuses
<1>5. CASE handle_ice_disconnected \/ handle_ice_failed
  <2>1. FsmType' /\ fsm.read \in ConnectionState
    BY <1>0, <1>5, HandlingType DEF handle_ice_disconnected, handle_ice_failed
  <2>2. state' \in ConnectionState
    BY <1>0, <1>5, <2>1, NextStates
       DEF handle_ice_disconnected, handle_ice_failed, set_state
  <2>. QED
    BY <1>0, <1>5, <2>1, <2>2
       DEF handle_ice_disconnected, handle_ice_failed, ChannelType, ActorsType,
           StatusesType, channel, actors, statuses
<1>6. CASE handle_ice_connected \/ handle_received_accepted_via_rtp_data
           \/ handle_accept
  <2>. USE DEF handle_ice_connected, handle_received_accepted_via_rtp_data,
               handle_accept
  <2>1. FsmType' /\ fsm.read \in ConnectionState
    BY <1>0, <1>6, HandlingType
  <2>2. state' \in ConnectionState
    BY <1>0, <1>6, <2>1, NextStates DEF set_state
  <2>3. applied' \in 0..Unset /\ worker' \in Seq(Task)
    BY <1>0, <1>6, FirstTimeType
  <2>. QED
    BY <1>0, <1>6, <2>1, <2>2, <2>3 DEF ChannelType, ActorsType, StatusesType,
                                        channel
<1>7. CASE handle_received_status
  <2>1. FsmType' /\ fsm.event \in Event
    BY <1>0, <1>7, HandlingType DEF handle_received_status
  <2>2. fsm.event.seqnum \in 0..MaxSeqnum
    BY <2>1 DEF Event
  <2>3. StatusValue(fsm.event.seqnum) \in 0..Unset
    BY SMT, <2>2 DEF StatusValue, Unset
  <2>4. StatusesType'
    BY <1>0, <1>7, <2>2, <2>3 DEF handle_received_status, StatusesType
  <2>. QED
    BY <1>0, <1>7, <2>1, <2>4 DEF handle_received_status, ChannelType,
                                  ActorsType, channel, actors
<1>8. CASE handle_received_hangup \/ handle_internal_error
  <2>. USE DEF handle_received_hangup, handle_internal_error
  <2>1. FsmType'
    BY <1>0, <1>8, HandlingType
  <2>2. notify' \in {notify} \cup {Append(notify, n) : n \in Notice}
    BY <1>8 DEF Notice
  <2>3. notify' \in Seq(Notice)
    BY SMT, <1>0, <2>2 DEF ActorsType
  <2>. QED
    BY <1>0, <1>8, <2>1, <2>3 DEF ChannelType, ActorsType, StatusesType, channel,
                                  statuses
<1>9. CASE handle_job \/ handle_send_hangup_via_rtp_data
  <2>. USE DEF handle_job, handle_send_hangup_via_rtp_data
  <2>1. FsmType'
    BY <1>0, <1>9, HandlingType
  <2>2. worker' \in {worker} \cup {Append(worker, t) : t \in Task}
    BY <1>9 DEF Task
  <2>3. worker' \in Seq(Task)
    BY SMT, <1>0, <2>2 DEF ActorsType
  <2>. QED
    BY <1>0, <1>9, <2>1, <2>3 DEF ChannelType, ActorsType, StatusesType, channel,
                                  statuses
<1>10. CASE handle_terminate
  <2>1. FsmType'
    BY <1>10, IdleType DEF handle_terminate, FsmType
  <2>2. events' \in Seq(Event) /\ Len(events') <= QueueCapacity
    BY SMT, <1>10 DEF handle_terminate
  <2>3. ActorsType'
    BY SMT, <1>10 DEF handle_terminate, ActorsType
  <2>. QED
    BY <1>0, <1>10, <2>1, <2>2, <2>3 DEF handle_terminate, ChannelType,
                                         StatusesType, statuses
<1>. QED
  BY <1>4, <1>5, <1>6, <1>7, <1>8, <1>9, <1>10 DEF FsmHandle

(* Every step keeps the types. *)
LEMMA NextType == TypeOK /\ [Next]_vars => TypeOK'
<1>. SUFFICES ASSUME TypeOK, [Next]_vars PROVE TypeOK'
  OBVIOUS
<1>0. /\ state \in ConnectionState /\ ChannelType /\ FsmType /\ ActorsType
      /\ OwnerType /\ StatusesType /\ OutsideType
  BY TypeParts
<1>. DEFINE parts == /\ state' \in ConnectionState
                     /\ ChannelType' /\ FsmType' /\ ActorsType' /\ OwnerType'
                     /\ StatusesType' /\ OutsideType'
<1>1. SUFFICES parts
  BY TypePartsNext
<1>. USE DEF ChannelType, FsmType, ActorsType, OwnerType, StatusesType,
             OutsideType, HistoryType, IceType, channel, actors, owner,
             statuses, history, outside
<1>2. CASE Start
  <2>1. state' \in ConnectionState
    BY <1>2 DEF Start, ConnectionState
  <2>. QED
    BY <1>0, <1>2, <2>1 DEF Start
<1>3. CASE StartEnds
  <2>1. state' \in ConnectionState
    BY <1>3 DEF StartEnds, Started, ConnectionState
  <2>2. fsm' = [Idle EXCEPT !.pc = "recv"]
    BY SMT, <1>3 DEF StartEnds, Idle
  <2>3. FsmType'
    BY <2>2, IdleType
  <2>. QED
    BY <1>0, <1>3, <2>1, <2>3 DEF StartEnds
<1>4. CASE IceChange \/ ReceiveStatus \/ ReceiveAccept \/ ReceiveHangup
           \/ RequestJob
  BY <1>4, EnvironmentType, TypePartsNext
<1>5. CASE FsmReceive
  <2>1. Head(events) \in Event /\ Tail(events) \in Seq(Event)
        /\ Len(Tail(events)) <= QueueCapacity
    BY SMT, <1>0, <1>5 DEF FsmReceive
  <2>2. FsmType'
    BY <1>0, <1>5, <2>1 DEF FsmReceive
  <2>3. events' \in Seq(Event) /\ Len(events') <= QueueCapacity
    BY <1>5, <2>1 DEF FsmReceive
  <2>. QED
    BY SMT, <1>0, <1>5, <2>2, <2>3 DEF FsmReceive
<1>6. CASE FsmHandle
  BY <1>6, HandlersType, TypePartsNext
<1>7. CASE WorkerStep
  <2>1. Head(worker) \in Task /\ worker' \in Seq(Task)
    BY SMT, <1>0, <1>7 DEF WorkerStep
  <2>2. ChannelType'
    <3>1. Of("InternalError") \in Event
      BY PlainEvents DEF EventKind
    <3>2. CASE UNCHANGED channel
      BY <1>0, <3>2
    <3>3. CASE inject_event(Of("InternalError"))
      BY <1>0, <3>1, <3>3, InjectType
    <3>. QED
      BY <1>7, <3>2, <3>3 DEF WorkerStep
  <2>3. sent' \subseteq {"SendAccepted", "SendHangup"}
    BY <1>0, <1>7, <2>1 DEF WorkerStep, Task
  <2>4. inputs' \in 0..MaxInputs
    BY <1>0, <1>7, InputType DEF WorkerStep
  <2>5. failed' \in BOOLEAN
    BY <1>0, <1>7 DEF WorkerStep
  <2>6. /\ state' \in ConnectionState /\ FsmType' /\ OwnerType' /\ StatusesType'
        /\ notify' \in Seq(Notice) /\ type' \in ConnectionType /\ IceType'
        /\ told' \subseteq Notice
    BY <1>0, <1>7 DEF WorkerStep
  <2>. QED
    BY <2>1, <2>2, <2>3, <2>4, <2>5, <2>6
<1>8. CASE NotifyStep
  <2>1. Head(notify) \in Notice /\ notify' \in Seq(Notice)
    BY SMT, <1>0, <1>8 DEF NotifyStep
  <2>2. told' \subseteq Notice
    BY <1>0, <1>8, <2>1 DEF NotifyStep
  <2>3. ChannelType'
    BY <1>0, <1>8 DEF NotifyStep
  <2>4. failed' \in BOOLEAN /\ sent' \subseteq {"SendAccepted", "SendHangup"}
    BY <1>0, <1>8 DEF NotifyStep
  <2>5. /\ state' \in ConnectionState /\ FsmType' /\ OwnerType' /\ StatusesType'
        /\ worker' \in Seq(Task) /\ type' \in ConnectionType /\ IceType'
        /\ inputs' \in 0..MaxInputs
    BY SMT, <1>0, <1>8 DEF NotifyStep
  <2>. QED
    BY <2>1, <2>2, <2>3, <2>4, <2>5
<1>9. CASE inject_send_hangup_via_rtp_data \/ TerminateBegins
           \/ TerminateInjects \/ TerminateReturns
  <2>. USE DEF inject_send_hangup_via_rtp_data, TerminateBegins,
               TerminateInjects, TerminateReturns
  <2>1. state' \in ConnectionState
    BY <1>0, <1>9 DEF ConnectionState
  <2>2. ChannelType'
    <3>1. Of("SendHangup") \in Event /\ Of("Terminate") \in Event
      BY PlainEvents DEF EventKind
    <3>2. CASE UNCHANGED channel
      BY <1>0, <3>2
    <3>3. CASE inject_event(Of("SendHangup")) \/ inject_event(Of("Terminate"))
      BY <1>0, <3>1, <3>3, InjectType
    <3>. QED
      BY <1>9, <3>2, <3>3
  <2>3. OwnerType'
    BY <1>0, <1>9
  <2>4. FsmType' /\ ActorsType' /\ StatusesType' /\ OutsideType'
    BY <1>0, <1>9
  <2>. QED
    BY <2>1, <2>2, <2>3, <2>4
<1>10. CASE UNCHANGED vars
  BY SMT, <1>0, <1>10 DEF vars
<1>. QED
  BY <1>2, <1>3, <1>4, <1>5, <1>6, <1>7, <1>8, <1>9, <1>10 DEF Next

(* TypeOK holds in every reachable state, whatever the capacity of the     *)
(* channel: what handlers, callbacks and the owner put in it fits.         *)
THEOREM TypeCorrect == Spec => []TypeOK
<1>1. Init => TypeOK
  BY InitType
<1>2. TypeOK /\ [Next]_vars => TypeOK'
  BY NextType
<1>. QED
  BY <1>1, <1>2, PTL DEF Spec

-----------------------------------------------------------------------------
(* The inductive invariant.                                                *)

(* A closed channel takes nothing in. *)
LEMMA ClosedTakesNothing ==
  ASSUME NEW e, inject_event(e), fsm.pc = "exited"
  PROVE  events' = events
BY DEF inject_event, Closed

(* Connection::new establishes the invariant. *)
LEMMA InitInv == Init => Inv
BY DEF Init, Inv, StartedInv, StaleInv, CacheInv, AppliedInv, QuietInv, Idle,
       active, Applied

(* What leaves the state, the threads and the statuses alone, and puts at  *)
(* most an event in an open channel, keeps the invariant.                  *)
LEMMA OutsideInv ==
  ASSUME Inv, UNCHANGED <<state, fsm, starter, statuses>>,
         fsm.pc = "exited" => UNCHANGED <<events, worker, notify>>,
         terminator' = "returned" => terminator = "returned"
  PROVE  Inv'
BY DEF Inv, StartedInv, StaleInv, CacheInv, AppliedInv, QuietInv, Applied,
       statuses

(* The environment only puts events in the channel. *)
LEMMA EnvironmentInv ==
  ASSUME Inv, IceChange \/ ReceiveStatus \/ ReceiveAccept \/ ReceiveHangup
              \/ RequestJob
  PROVE  Inv'
<1>1. UNCHANGED <<state, fsm, worker, notify, starter, terminator, statuses>>
  BY DEF IceChange, ReceiveStatus, ReceiveAccept, ReceiveHangup, RequestJob,
         owner, actors
<1>2. fsm.pc # "exited"
  BY DEF IceChange, ReceiveStatus, ReceiveAccept, ReceiveHangup, RequestJob,
         inject_ice, MediaPossible, CallbacksPossible, Closed
<1>. QED
  BY <1>1, <1>2, OutsideInv

(* A transition into an accepted and connected state either starts from    *)
(* one, or is the first and applies what was cached.                       *)
LEMMA TransitionApplies ==
  ASSUME TypeOK, Inv, fsm.pc = "handle", NEW event, NEW new,
         UNCHANGED <<last, newest>>,
         set_state(new),
         handle_connected_and_accepted_for_the_first_time(event),
         active(new) => active(fsm.read) \/ FirstTimeConnected(event, fsm.read)
  PROVE  active(state') => Applied'
<1>1. CASE FirstTimeConnected(event, fsm.read)
  <2>1. last' = 0 \/ applied' = StatusValue(last')
    BY <1>1 DEF handle_connected_and_accepted_for_the_first_time
  <2>. QED
    BY <2>1 DEF Applied, Inv, CacheInv
<1>2. CASE ~FirstTimeConnected(event, fsm.read)
  <2>1. applied' = applied
    BY <1>2 DEF handle_connected_and_accepted_for_the_first_time
  <2>2. ASSUME active(state') PROVE active(state) \/ active(fsm.read)
    BY <1>2, <2>2 DEF set_state
  <2>. QED
    BY <2>1, <2>2 DEF Inv, AppliedInv, Applied
<1>. QED
  BY <1>1, <1>2

(* A handler that ends with the statuses applied keeps the invariant. *)
LEMMA HandlerInv ==
  ASSUME Inv, fsm.pc = "handle", fsm' = Idle, UNCHANGED owner,
         last' = newest', active(state') => Applied'
  PROVE  Inv'
BY DEF Inv, StartedInv, StaleInv, CacheInv, AppliedInv, QuietInv, Idle, owner

(* Every handler of the state machine keeps the invariant. *)
LEMMA HandlersInv ==
  ASSUME TypeOK, Inv, FsmHandle
  PROVE  Inv'
<1>. USE DEF Handling
<1>0. last = newest
  BY DEF Inv, CacheInv
<1>1. CASE \/ DropEvent \/ handle_received_hangup \/ handle_job
           \/ handle_internal_error \/ handle_send_hangup_via_rtp_data
  <2>1. fsm.pc = "handle" /\ fsm' = Idle /\ UNCHANGED <<state, owner, statuses>>
    BY <1>1 DEF DropEvent, handle_received_hangup, handle_job,
                handle_internal_error, handle_send_hangup_via_rtp_data
  <2>2. active(state') => Applied'
    BY <2>1 DEF Inv, AppliedInv, Applied, statuses
  <2>. QED
    BY <1>0, <2>1, <2>2, HandlerInv DEF statuses
<1>2. CASE handle_ice_connected
  <2>1. fsm.pc = "handle" /\ fsm' = Idle /\ UNCHANGED <<owner, last, newest>>
    BY <1>2 DEF handle_ice_connected
  <2>2. active(OnIceConnected(fsm.read)) =>
          active(fsm.read) \/ FirstTimeConnected("IceConnected", fsm.read)
    BY DEF OnIceConnected, active, FirstTimeConnected
  <2>3. active(state') => Applied'
    BY <1>2, <2>1, <2>2, TransitionApplies DEF handle_ice_connected
  <2>. QED
    BY <1>0, <2>1, <2>3, HandlerInv
<1>3. CASE handle_received_accepted_via_rtp_data
  <2>1. fsm.pc = "handle" /\ fsm' = Idle /\ UNCHANGED <<owner, last, newest>>
    BY <1>3 DEF handle_received_accepted_via_rtp_data
  <2>2. active(OnReceivedAccepted(fsm.read)) =>
          active(fsm.read) \/ FirstTimeConnected("ReceivedAccepted", fsm.read)
    BY DEF OnReceivedAccepted, active, FirstTimeConnected
  <2>3. active(state') => Applied'
    BY <1>3, <2>1, <2>2, TransitionApplies
       DEF handle_received_accepted_via_rtp_data
  <2>. QED
    BY <1>0, <2>1, <2>3, HandlerInv
<1>4. CASE handle_accept
  <2>1. fsm.pc = "handle" /\ fsm' = Idle /\ UNCHANGED <<owner, last, newest>>
    BY <1>4 DEF handle_accept
  <2>2. active(OnAccept(fsm.read)) =>
          active(fsm.read) \/ FirstTimeConnected("Accept", fsm.read)
    BY DEF OnAccept, active, FirstTimeConnected
  <2>3. active(state') => Applied'
    BY <1>4, <2>1, <2>2, TransitionApplies DEF handle_accept
  <2>. QED
    BY <1>0, <2>1, <2>3, HandlerInv
<1>5. CASE handle_ice_disconnected \/ handle_ice_failed
  <2>1. fsm.pc = "handle" /\ fsm' = Idle /\ UNCHANGED <<owner, statuses>>
    BY <1>5 DEF handle_ice_disconnected, handle_ice_failed
  <2>2. /\ active(OnIceDisconnected(fsm.read)) => active(fsm.read)
        /\ active(OnIceFailed(fsm.read)) => active(fsm.read)
    BY DEF OnIceDisconnected, OnIceFailed, active
  <2>3. active(state') => active(state) \/ active(fsm.read)
    BY <1>5, <2>2 DEF handle_ice_disconnected, handle_ice_failed, set_state
  <2>4. active(state') => Applied'
    BY <2>1, <2>3 DEF Inv, AppliedInv, Applied, statuses
  <2>. QED
    BY <1>0, <2>1, <2>4, HandlerInv DEF statuses
<1>6. CASE handle_received_status
  <2>. DEFINE n == fsm.event.seqnum
  <2>1. fsm.pc = "handle" /\ fsm' = Idle /\ UNCHANGED <<state, owner>>
    BY <1>6 DEF handle_received_status
  <2>2. n \in 0..MaxSeqnum /\ newest \in 0..MaxSeqnum
    BY DEF TypeOK, Event
  <2>3. /\ newest' = IF n > newest THEN n ELSE newest
        /\ \/ n <= last /\ last' = last /\ applied' = applied
           \/ /\ n > last /\ last' = n
              /\ applied' = IF active(fsm.read)
                              /\ (last = 0 \/ StatusValue(last) # StatusValue(n))
                           THEN StatusValue(n) ELSE applied
    BY <1>6 DEF handle_received_status
  <2>. HIDE DEF n
  <2>4. last' = newest'
    BY SMT, <1>0, <2>2, <2>3
  <2>5. ASSUME active(state') PROVE Applied'
    <3>1. active(fsm.read)
      BY <2>1, <2>5 DEF Inv, StaleInv, active
    <3>2. Applied
      BY <2>1, <3>1 DEF Inv, AppliedInv
    <3>3. CASE n <= last
      <4>1. newest' = newest /\ applied' = applied
        BY SMT, <1>0, <2>2, <2>3, <3>3
      <4>. QED
        BY <3>2, <4>1 DEF Applied
    <3>4. CASE n > last
      <4>1. newest' = n
        BY <1>0, <2>3, <3>4
      <4>2. CASE last = 0 \/ StatusValue(last) # StatusValue(n)
        <5>1. applied' = StatusValue(n)
          BY SMT, <1>0, <2>2, <2>3, <3>1, <3>4, <4>2
        <5>. QED
          BY <4>1, <5>1 DEF Applied
      <4>3. CASE ~(last = 0 \/ StatusValue(last) # StatusValue(n))
        <5>1. applied' = applied
          BY <1>0, <2>2, <2>3, <3>4, <4>3
        <5>. QED
          BY <1>0, <3>2, <4>1, <4>3, <5>1 DEF Applied
      <4>. QED
        BY <4>2, <4>3
    <3>. QED
      BY SMT, <1>0, <2>2, <3>3, <3>4
  <2>. QED
    BY <2>1, <2>4, <2>5, HandlerInv
<1>7. CASE handle_terminate
  <2>1. fsm.pc = "handle" /\ fsm'.pc = "exited"
    BY <1>7 DEF handle_terminate, Idle
  <2>2. UNCHANGED <<state, owner, statuses>>
    BY <1>7 DEF handle_terminate
  <2>3. events' = <<>> /\ worker' = <<>> /\ notify' = <<>>
    BY <1>7 DEF handle_terminate
  <2>. QED
    BY <2>1, <2>2, <2>3 DEF Inv, StartedInv, StaleInv, CacheInv, AppliedInv,
                            QuietInv, Applied, owner, statuses
<1>. QED
  BY <1>1, <1>2, <1>3, <1>4, <1>5, <1>6, <1>7 DEF FsmHandle

(* Every step keeps the invariant. *)
LEMMA NextInv == TypeOK /\ Inv /\ [Next]_vars => Inv'
<1>. SUFFICES ASSUME TypeOK, Inv, [Next]_vars PROVE Inv'
  OBVIOUS
<1>1. CASE Start
  <2>1. fsm.pc = "unstarted" /\ fsm'.pc = "unstarted" /\ starter' # "ended"
    BY <1>1 DEF Start, Inv, StartedInv
  <2>2. ~active(state')
    BY <1>1 DEF Start, active
  <2>. QED
    BY <1>1, <2>1, <2>2 DEF Start, Inv, StartedInv, StaleInv, CacheInv,
                            AppliedInv, QuietInv, statuses
<1>2. CASE StartEnds
  <2>1. fsm.pc = "unstarted" /\ fsm'.pc = "recv" /\ starter' = "ended"
    BY <1>2 DEF StartEnds, Inv, StartedInv, Idle
  <2>2. ~active(state')
    BY <1>2 DEF StartEnds, Started, active
  <2>. QED
    BY <1>2, <2>1, <2>2 DEF StartEnds, Inv, StartedInv, StaleInv, CacheInv,
                            AppliedInv, QuietInv, statuses
<1>3. CASE IceChange \/ ReceiveStatus \/ ReceiveAccept \/ ReceiveHangup
           \/ RequestJob
  BY <1>3, EnvironmentInv
<1>4. CASE FsmReceive
  <2>1. fsm.pc = "recv" /\ fsm'.pc = "handle" /\ fsm'.read = state
    BY <1>4 DEF FsmReceive
  <2>2. UNCHANGED <<state, owner, statuses>>
    BY <1>4 DEF FsmReceive
  <2>. QED
    BY <2>1, <2>2 DEF Inv, StartedInv, StaleInv, CacheInv, AppliedInv,
                      QuietInv, Applied, owner, statuses
<1>5. CASE FsmHandle
  BY <1>5, HandlersInv
<1>6. CASE WorkerStep \/ NotifyStep
  <2>1. fsm.pc # "exited"
    BY <1>6 DEF WorkerStep, NotifyStep, Inv, QuietInv
  <2>2. UNCHANGED <<state, fsm, owner, statuses>>
    BY <1>6 DEF WorkerStep, NotifyStep
  <2>. QED
    BY <2>1, <2>2, OutsideInv DEF owner
<1>7. CASE \/ hangup = "inject" /\ inject_send_hangup_via_rtp_data
           \/ TerminateInjects
  <2>1. UNCHANGED <<state, fsm, actors, starter, statuses>>
    BY <1>7 DEF inject_send_hangup_via_rtp_data, TerminateInjects
  <2>2. terminator' = "returned" => terminator = "returned"
    BY <1>7 DEF inject_send_hangup_via_rtp_data, TerminateInjects
  <2>3. fsm.pc = "exited" => events' = events
    BY <1>7, ClosedTakesNothing
       DEF inject_send_hangup_via_rtp_data, TerminateInjects
  <2>. QED
    BY <2>1, <2>2, <2>3, OutsideInv DEF actors
<1>8. CASE \/ hangup = "idle" /\ inject_send_hangup_via_rtp_data
           \/ TerminateBegins \/ TerminateReturns
  <2>1. state' \in {"Terminating", "Terminated"}
    BY <1>8 DEF inject_send_hangup_via_rtp_data, TerminateBegins,
                TerminateReturns
  <2>2. UNCHANGED <<events, fsm, actors, starter, statuses>>
    BY <1>8 DEF inject_send_hangup_via_rtp_data, TerminateBegins,
                TerminateReturns, channel
  <2>3. terminator' = "returned" => terminator = "returned" \/ fsm.pc = "exited"
    BY <1>8 DEF inject_send_hangup_via_rtp_data, TerminateBegins,
                TerminateReturns
  <2>4. ~active(state')
    BY <2>1 DEF active
  <2>. QED
    BY <2>1, <2>2, <2>3, <2>4 DEF Inv, StartedInv, StaleInv, CacheInv,
       AppliedInv, QuietInv, Applied, actors, statuses
<1>9. CASE UNCHANGED vars
  BY <1>9, OutsideInv DEF vars, channel, actors, owner
<1>10. inject_send_hangup_via_rtp_data => hangup = "idle" \/ hangup = "inject"
  BY DEF inject_send_hangup_via_rtp_data
<1>. QED
  BY <1>1, <1>2, <1>3, <1>4, <1>5, <1>6, <1>7, <1>8, <1>9, <1>10 DEF Next

(* The invariant holds in every reachable state. *)
LEMMA InvHolds == Spec => [](TypeOK /\ Inv)
<1>1. Init => TypeOK /\ Inv
  BY InitType, InitInv
<1>2. TypeOK /\ Inv /\ [Next]_vars => (TypeOK /\ Inv)'
  BY NextType, NextInv
<1>. QED
  BY <1>1, <1>2, PTL DEF Spec

(* Whatever the number and the order of the status messages, and whenever  *)
(* the call is accepted, ICE reconnects or the call hangs up: a connection *)
(* that is accepted and connected applied the newest message it handled.   *)
THEOREM StatusApplied == Spec => []NewestStatusApplied
<1>1. TypeOK /\ Inv => NewestStatusApplied
  BY DEF Inv, AppliedInv, Applied, NewestStatusApplied
<1>. QED
  BY <1>1, InvHolds, PTL

(* When terminate() has returned, the state machine has ended, its channel *)
(* is closed and empty, and no task of either actor is left.               *)
THEOREM QuietWhenTerminated == Spec => []QuietAfterTerminate
<1>1. TypeOK /\ Inv => QuietAfterTerminate
  BY DEF Inv, QuietInv, QuietAfterTerminate
<1>. QED
  BY <1>1, InvHolds, PTL

(* Between its read of the state and its handler, the state machine thread *)
(* can be overtaken only by hangup and terminate(): the state it goes by   *)
(* is the current one, or the connection is terminating.                   *)
THEOREM StaleOnlyWhenTerminating == Spec => []StaleInv
<1>1. TypeOK /\ Inv => StaleInv
  BY DEF Inv
<1>. QED
  BY <1>1, InvHolds, PTL

-----------------------------------------------------------------------------
(* The state and ICE.  The last report of ICE that the state machine has   *)
(* not handled, in the channel or in its hands, tells what ICE is now; and *)
(* if there is none, the state does.                                       *)

NoIce(es) == \A i \in 1..Len(es) : es[i].kind \notin IceKind

LastIce(es, i) ==
  /\ es[i].kind \in IceKind
  /\ \A j \in 1..Len(es) : j > i => es[j].kind \notin IceKind

Reports(kind) ==
  CASE kind = "IceConnected" -> "connected"
    [] kind = "IceDisconnected" -> "disconnected"
    [] OTHER -> "failed"

Connected(s) == s \in {"ConnectedBeforeAccepted", "ConnectedAndAccepted"}

Tracks(s, report, kind) ==
  connecting_or_connected(s) =>
    /\ report = "connected" => Connected(s)
    /\ kind = "OutgoingChild" /\ Connected(s) => report = "connected"

HandlingIce == fsm.pc = "handle" /\ fsm.event.kind \in IceKind

PendingInv ==
  /\ \A i \in 1..Len(events) : LastIce(events, i) => ice = Reports(events[i].kind)
  /\ NoIce(events) /\ HandlingIce => ice = Reports(fsm.event.kind)
  /\ NoIce(events) /\ ~HandlingIce =>
       /\ Tracks(state, ice, type)
       /\ fsm.pc = "handle" => Tracks(fsm.read, ice, type)

(* Nothing is reported before the connection starts, and reports made      *)
(* while it starts are kept.                                               *)
StartingInv ==
  /\ starter = "idle" => NoIce(events)
  /\ fsm.pc = "unstarted" => ~connecting_or_connected(state)
  /\ fsm.pc = "unstarted" /\ NoIce(events) => ice \in {"new", "checking"}

(* Only the user of a callee accepts. *)
AcceptInv ==
  /\ \A i \in 1..Len(events) : events[i].kind = "Accept" => type = "Incoming"
  /\ fsm.pc = "handle" /\ fsm.event.kind = "Accept" => type = "Incoming"

IceInv == AcceptInv /\ (~lost /\ fsm.pc # "exited" => PendingInv /\ StartingInv)

(* Where the transitions of the state machine lead. *)
LEMMA TransitionsTrack ==
  ASSUME NEW s \in ConnectionState, NEW kind \in ConnectionType, NEW report
  PROVE  /\ Tracks(OnIceConnected(s), "connected", kind)
         /\ Tracks(OnIceDisconnected(s), "disconnected", kind)
         /\ Tracks(OnIceFailed(s), "failed", kind)
         /\ Tracks(s, report, kind) => Tracks(OnReceivedAccepted(s), report, kind)
         /\ kind = "Incoming" => (Tracks(s, report, kind) => Tracks(OnAccept(s), report, kind))
<1>. USE DEF Tracks, Connected, connecting_or_connected, ConnectionState
<1>1. Tracks(OnIceConnected(s), "connected", kind)
  BY DEF OnIceConnected
<1>2. Tracks(OnIceDisconnected(s), "disconnected", kind)
  BY DEF OnIceDisconnected
<1>3. Tracks(OnIceFailed(s), "failed", kind)
  BY DEF OnIceFailed
<1>4. Tracks(s, report, kind) => Tracks(OnReceivedAccepted(s), report, kind)
  BY DEF OnReceivedAccepted
<1>5. kind = "Incoming" => (Tracks(s, report, kind) => Tracks(OnAccept(s), report, kind))
  BY DEF OnAccept, ConnectionCanBeAcceptedLocally
<1>. QED
  BY <1>1, <1>2, <1>3, <1>4, <1>5

(* A terminating connection tracks nothing. *)
LEMMA FinalTracks ==
  ASSUME NEW s \in {"Terminating", "Terminated"}, NEW report, NEW kind
  PROVE  Tracks(s, report, kind) /\ ~connecting_or_connected(s)
BY DEF Tracks, connecting_or_connected

(* The last report in a channel that another event was put in. *)
LEMMA AppendReports ==
  ASSUME NEW es \in Seq(Event), NEW e \in Event
  PROVE  /\ NoIce(Append(es, e)) <=> NoIce(es) /\ e.kind \notin IceKind
         /\ e.kind \in IceKind =>
              \A i \in 1..Len(Append(es, e)) :
                LastIce(Append(es, e), i) => Append(es, e)[i] = e
         /\ e.kind \notin IceKind =>
              \A i \in 1..Len(Append(es, e)) :
                LastIce(Append(es, e), i) =>
                  i \in 1..Len(es) /\ LastIce(es, i) /\ Append(es, e)[i] = es[i]
<1>. DEFINE fs == Append(es, e)
<1>1. /\ Len(fs) = Len(es) + 1 /\ fs[Len(es) + 1] = e /\ Len(es) \in Nat
      /\ \A i \in 1..Len(es) : fs[i] = es[i]
  BY SMT
<1>. HIDE DEF fs
<1>2. NoIce(fs) <=> NoIce(es) /\ e.kind \notin IceKind
  BY SMT, <1>1 DEF NoIce
<1>3. ASSUME e.kind \in IceKind, NEW i \in 1..Len(fs), LastIce(fs, i)
      PROVE  fs[i] = e
  BY SMT, <1>1, <1>3 DEF LastIce
<1>4. ASSUME e.kind \notin IceKind, NEW i \in 1..Len(fs), LastIce(fs, i)
      PROVE  i \in 1..Len(es) /\ LastIce(es, i) /\ fs[i] = es[i]
  <2>1. i \in 1..Len(es)
    BY SMT, <1>1, <1>4 DEF LastIce
  <2>. QED
    BY SMT, <1>1, <1>4, <2>1 DEF LastIce
<1>. QED
  BY <1>2, <1>3, <1>4 DEF fs

(* The last report in a channel that the first event was taken from. *)
LEMMA TailReports ==
  ASSUME NEW es \in Seq(Event), es # <<>>
  PROVE  /\ NoIce(es) <=> NoIce(Tail(es)) /\ Head(es).kind \notin IceKind
         /\ NoIce(Tail(es)) /\ Head(es).kind \in IceKind => LastIce(es, 1)
         /\ \A i \in 1..Len(Tail(es)) :
              /\ i + 1 \in 1..Len(es) /\ Tail(es)[i] = es[i + 1]
              /\ LastIce(Tail(es), i) => LastIce(es, i + 1)
<1>. DEFINE fs == Tail(es)
<1>1. /\ Len(es) = Len(fs) + 1 /\ Head(es) = es[1] /\ Len(fs) \in Nat
      /\ \A i \in 1..Len(fs) : fs[i] = es[i + 1]
  BY SMT
<1>2. \A j \in 2..Len(es) : es[j] = fs[j - 1] /\ j - 1 \in 1..Len(fs)
  BY SMT, <1>1
<1>. HIDE DEF fs
<1>3. NoIce(es) <=> NoIce(fs) /\ Head(es).kind \notin IceKind
  <2>1. NoIce(es) => NoIce(fs) /\ Head(es).kind \notin IceKind
    BY SMT, <1>1 DEF NoIce
  <2>2. ASSUME NoIce(fs), Head(es).kind \notin IceKind, NEW j \in 1..Len(es)
        PROVE  es[j].kind \notin IceKind
    <3>1. j = 1 \/ j \in 2..Len(es)
      BY SMT, <1>1
    <3>. QED
      BY <1>1, <1>2, <2>2, <3>1 DEF NoIce
  <2>. QED
    BY <2>1, <2>2 DEF NoIce
<1>4. NoIce(fs) /\ Head(es).kind \in IceKind => LastIce(es, 1)
  <2>1. \A j \in 1..Len(es) : j > 1 => j \in 2..Len(es)
    BY SMT, <1>1
  <2>. QED
    BY <1>1, <1>2, <2>1 DEF NoIce, LastIce
<1>5. ASSUME NEW i \in 1..Len(fs)
      PROVE  /\ i + 1 \in 1..Len(es) /\ fs[i] = es[i + 1]
             /\ LastIce(fs, i) => LastIce(es, i + 1)
  <2>1. i + 1 \in 1..Len(es) /\ fs[i] = es[i + 1]
    BY SMT, <1>1
  <2>2. ASSUME LastIce(fs, i), NEW j \in 1..Len(es), j > i + 1
        PROVE  es[j].kind \notin IceKind
    <3>1. j \in 2..Len(es) /\ j - 1 > i
      BY SMT, <1>1, <2>2
    <3>. QED
      BY <1>2, <2>2, <3>1 DEF LastIce
  <2>. QED
    BY <2>1, <2>2 DEF LastIce
<1>. QED
  BY <1>3, <1>4, <1>5 DEF fs

(* What leaves the channel alone, and the state or makes it final. *)
LEMMA QuietIce ==
  ASSUME IceInv, UNCHANGED <<events, lost, fsm, starter, type, ice>>,
         state' \in {state, "Terminating", "Terminated"}
  PROVE  IceInv'
<1>1. \A report, kind : Tracks(state, report, kind) => Tracks(state', report, kind)
  BY FinalTracks
<1>2. ~connecting_or_connected(state) => ~connecting_or_connected(state')
  BY DEF connecting_or_connected
<1>3. AcceptInv'
  BY DEF IceInv, AcceptInv
<1>4. ASSUME PendingInv PROVE PendingInv'
  BY <1>1, <1>4 DEF PendingInv, HandlingIce
<1>5. ASSUME StartingInv PROVE StartingInv'
  BY <1>2, <1>5 DEF StartingInv
<1>. QED
  BY <1>3, <1>4, <1>5 DEF IceInv

(* An event put in the channel, which ICE changed with if it reports ICE. *)
LEMMA InjectIce ==
  ASSUME TypeOK, IceInv, NEW e \in Event, inject_event(e),
         UNCHANGED <<state, fsm, starter, type>>,
         e.kind \in IceKind => ice' = Reports(e.kind) /\ starter # "idle",
         e.kind \notin IceKind => ice' = ice,
         e.kind = "Accept" => type = "Incoming"
  PROVE  IceInv'
<1>0. events \in Seq(Event)
  BY DEF TypeOK
<1>1. CASE Closed
  <2>1. fsm'.pc = "exited" /\ events' = events
    BY <1>1 DEF Closed, inject_event
  <2>. QED
    BY <2>1 DEF IceInv, AcceptInv
<1>2. CASE ~Closed /\ Full
  <2>1. lost' = TRUE /\ events' = events
    BY <1>2 DEF inject_event
  <2>. QED
    BY <2>1 DEF IceInv, AcceptInv
<1>3. CASE ~Closed /\ ~Full
  <2>1. events' = Append(events, e) /\ lost' = lost
    BY <1>3 DEF inject_event, TypeOK
  <2>2. AcceptInv'
    BY SMT, <1>0, <2>1 DEF IceInv, AcceptInv
  <2>3. /\ NoIce(events') <=> NoIce(events) /\ e.kind \notin IceKind
        /\ e.kind \in IceKind =>
             \A i \in 1..Len(events') : LastIce(events', i) => events'[i] = e
        /\ e.kind \notin IceKind =>
             \A i \in 1..Len(events') :
               LastIce(events', i) =>
                 i \in 1..Len(events) /\ LastIce(events, i) /\ events'[i] = events[i]
    BY SMT, <1>0, <2>1, AppendReports
  <2>4. ASSUME PendingInv PROVE PendingInv'
    <3>1. CASE e.kind \in IceKind
      BY <2>3, <3>1 DEF PendingInv
    <3>2. CASE e.kind \notin IceKind
      BY <2>3, <2>4, <3>2 DEF PendingInv, HandlingIce
    <3>. QED
      BY <3>1, <3>2
  <2>5. ASSUME StartingInv PROVE StartingInv'
    BY <2>3, <2>5 DEF StartingInv
  <2>. QED
    BY <2>1, <2>2, <2>4, <2>5 DEF IceInv
<1>. QED
  BY <1>1, <1>2, <1>3

(* The environment. *)
LEMMA EnvironmentIce ==
  ASSUME TypeOK, IceInv, IceChange \/ ReceiveStatus \/ ReceiveAccept
                         \/ ReceiveHangup \/ RequestJob
  PROVE  IceInv'
<1>0. UNCHANGED <<state, fsm, starter, type>>
  BY DEF IceChange, ReceiveStatus, ReceiveAccept, ReceiveHangup, RequestJob, owner
<1>1. CASE IceChange
  <2>1. PICK kind \in IceKind : /\ inject_event(Of(kind)) /\ ice' = Reports(kind)
                                /\ starter # "idle"
    BY <1>1 DEF IceChange, inject_ice, IceKind, Reports, MediaPossible, CallbacksPossible
  <2>2. Of(kind) \in Event /\ Of(kind).kind = kind /\ kind # "Accept"
    BY PlainEvents DEF EventKind, Of, IceKind
  <2>. QED
    BY <1>0, <2>1, <2>2, InjectIce
<1>2. CASE ReceiveStatus
  <2>1. PICK n \in 1..MaxSeqnum : inject_event([kind |-> "Status", seqnum |-> n])
    BY <1>2 DEF ReceiveStatus
  <2>2. PICK e : e = [kind |-> "Status", seqnum |-> n]
    OBVIOUS
  <2>3. e \in Event /\ e.kind \notin IceKind /\ e.kind # "Accept" /\ ice' = ice
    BY SMT, <1>2, <2>2 DEF Event, EventKind, IceKind, ReceiveStatus
  <2>. QED
    BY <1>0, <2>1, <2>2, <2>3, InjectIce
<1>3. CASE ReceiveAccept \/ ReceiveHangup \/ RequestJob
  <2>1. ice' = ice
    BY <1>3 DEF ReceiveAccept, ReceiveHangup, RequestJob
  <2>2. PICK kind \in EventKind : /\ inject_event(Of(kind)) /\ kind \notin IceKind
                                  /\ kind = "Accept" => type = "Incoming"
    BY SMT, <1>3 DEF ReceiveAccept, ReceiveHangup, RequestJob, EventKind, IceKind, AnyJob
  <2>3. Of(kind) \in Event /\ Of(kind).kind = kind
    BY PlainEvents DEF Of
  <2>. QED
    BY <1>0, <2>1, <2>2, <2>3, InjectIce
<1>. QED
  BY <1>1, <1>2, <1>3

(* A handler that leaves a state that agrees with ICE, if it handled the   *)
(* last report.                                                            *)
LEMMA HandlerIce ==
  ASSUME IceInv, fsm.pc = "handle", fsm' = Idle,
         UNCHANGED <<events, lost, ice, type, starter>>,
         starter # "idle",
         ~lost /\ NoIce(events) => Tracks(state', ice, type)
  PROVE  IceInv'
<1>1. fsm'.pc = "recv" /\ ~HandlingIce'
  BY DEF Idle, HandlingIce
<1>2. AcceptInv'
  BY <1>1 DEF IceInv, AcceptInv
<1>3. ASSUME ~lost, PendingInv PROVE PendingInv'
  BY <1>1, <1>3 DEF PendingInv
<1>4. StartingInv'
  BY <1>1 DEF StartingInv
<1>. QED
  BY <1>1, <1>2, <1>3, <1>4 DEF IceInv

(* The handlers of the state machine thread. *)
LEMMA HandlersIce ==
  ASSUME TypeOK, Inv, IceInv, FsmHandle
  PROVE  IceInv'
<1>. USE DEF Handling
<1>0. /\ fsm.pc = "handle" => starter # "idle"
      /\ fsm.pc = "handle" => state \in {fsm.read, "Terminating", "Terminated"}
      /\ fsm.read \in ConnectionState /\ type \in ConnectionType
  BY DEF Inv, StartedInv, StaleInv, TypeOK
<1>a. ASSUME fsm.pc = "handle", ~lost, NoIce(events)
      PROVE  /\ HandlingIce => ice = Reports(fsm.event.kind)
             /\ ~HandlingIce => Tracks(state, ice, type) /\ Tracks(fsm.read, ice, type)
  BY <1>a DEF IceInv, PendingInv
<1>b. ASSUME fsm.pc = "handle", NEW new, set_state(new), Tracks(new, ice, type)
      PROVE  Tracks(state', ice, type)
  BY <1>0, <1>b, FinalTracks DEF set_state
<1>1. CASE \/ handle_received_hangup \/ handle_job \/ handle_received_status
           \/ handle_internal_error \/ handle_send_hangup_via_rtp_data
  <2>1. /\ fsm.pc = "handle" /\ fsm' = Idle
        /\ UNCHANGED <<state, events, lost, ice, type, starter>>
    BY <1>1 DEF handle_received_hangup, handle_job, handle_received_status,
                handle_internal_error, handle_send_hangup_via_rtp_data, channel, owner, outside
  <2>2. ~HandlingIce
    BY <1>1 DEF handle_received_hangup, handle_job, handle_received_status,
                handle_internal_error, handle_send_hangup_via_rtp_data, HandlingIce,
                IceKind, AnyJob
  <2>. QED
    BY <1>0, <1>a, <2>1, <2>2, HandlerIce
<1>2. CASE DropEvent
  <2>1. /\ fsm.pc = "handle" /\ fsm' = Idle
        /\ UNCHANGED <<state, events, lost, ice, type, starter>>
        /\ fsm.read \in {"Terminating", "Terminated"}
    BY <1>2 DEF DropEvent, channel, owner, outside, terminating_or_terminated
  <2>. QED
    BY <1>0, <2>1, HandlerIce, FinalTracks
<1>3. CASE handle_ice_connected \/ handle_ice_disconnected \/ handle_ice_failed
  <2>1. /\ fsm.pc = "handle" /\ fsm' = Idle /\ fsm.event.kind \in IceKind
        /\ UNCHANGED <<events, lost, ice, type, starter>>
    BY <1>3 DEF handle_ice_connected, handle_ice_disconnected, handle_ice_failed, IceKind,
                channel, owner, outside
  <2>2. ASSUME ~lost, NoIce(events) PROVE Tracks(state', ice, type)
    <3>0. ice = Reports(fsm.event.kind)
      BY <1>a, <2>1, <2>2 DEF HandlingIce
    <3>1. CASE handle_ice_connected
      <4>1. ice = "connected" /\ set_state(OnIceConnected(fsm.read))
        BY <3>0, <3>1 DEF handle_ice_connected, Reports
      <4>. QED
        BY <1>0, <1>b, <2>1, <4>1, TransitionsTrack
    <3>2. CASE handle_ice_disconnected
      <4>1. ice = "disconnected" /\ set_state(OnIceDisconnected(fsm.read))
        BY <3>0, <3>2 DEF handle_ice_disconnected, Reports
      <4>. QED
        BY <1>0, <1>b, <2>1, <4>1, TransitionsTrack
    <3>3. CASE handle_ice_failed
      <4>1. ice = "failed" /\ set_state(OnIceFailed(fsm.read))
        BY <3>0, <3>3 DEF handle_ice_failed, Reports
      <4>. QED
        BY <1>0, <1>b, <2>1, <4>1, TransitionsTrack
    <3>. QED
      BY <1>3, <3>1, <3>2, <3>3
  <2>. QED
    BY <1>0, <2>1, <2>2, HandlerIce
<1>4. CASE handle_received_accepted_via_rtp_data \/ handle_accept
  <2>1. /\ fsm.pc = "handle" /\ fsm' = Idle /\ ~HandlingIce
        /\ UNCHANGED <<events, lost, ice, type, starter>>
    BY <1>4 DEF handle_received_accepted_via_rtp_data, handle_accept, IceKind, HandlingIce,
                channel, owner, outside
  <2>2. ASSUME ~lost, NoIce(events) PROVE Tracks(state', ice, type)
    <3>0. Tracks(fsm.read, ice, type)
      BY <1>a, <2>1, <2>2
    <3>1. CASE handle_received_accepted_via_rtp_data
      <4>1. set_state(OnReceivedAccepted(fsm.read))
        BY <3>1 DEF handle_received_accepted_via_rtp_data
      <4>. QED
        BY <1>0, <1>b, <2>1, <3>0, <4>1, TransitionsTrack
    <3>2. CASE handle_accept
      <4>1. set_state(OnAccept(fsm.read)) /\ type = "Incoming"
        BY <3>2 DEF handle_accept, IceInv, AcceptInv
      <4>. QED
        BY <1>0, <1>b, <2>1, <3>0, <4>1, TransitionsTrack
    <3>. QED
      BY <1>4, <3>1, <3>2
  <2>. QED
    BY <1>0, <2>1, <2>2, HandlerIce
<1>5. CASE handle_terminate
  <2>1. fsm'.pc = "exited" /\ events' = <<>>
    BY <1>5 DEF handle_terminate, Idle
  <2>. QED
    BY SMT, <2>1 DEF IceInv, AcceptInv
<1>. QED
  BY <1>1, <1>2, <1>3, <1>4, <1>5 DEF FsmHandle

(* Every step keeps what is said of ICE. *)
LEMMA NextIce == TypeOK /\ Inv /\ IceInv /\ [Next]_vars => IceInv'
<1>. SUFFICES ASSUME TypeOK, Inv, IceInv, [Next]_vars PROVE IceInv'
  OBVIOUS
<1>0. events \in Seq(Event)
  BY DEF TypeOK
<1>1. CASE Start
  <2>1. /\ UNCHANGED <<events, lost, fsm, type>> /\ starter = "idle" /\ starter' # "idle"
        /\ state' = "Starting" /\ ice' = "checking" /\ fsm.pc = "unstarted"
    BY <1>1 DEF Start, channel, Inv, StartedInv
  <2>2. ~connecting_or_connected(state')
    BY <2>1 DEF connecting_or_connected
  <2>3. AcceptInv'
    BY <2>1 DEF IceInv, AcceptInv
  <2>4. ASSUME ~lost PROVE NoIce(events)
    BY <2>1, <2>4 DEF IceInv, StartingInv
  <2>5. ASSUME ~lost PROVE PendingInv' /\ StartingInv'
    BY <2>1, <2>2, <2>4, <2>5 DEF PendingInv, StartingInv, NoIce, LastIce, Tracks, HandlingIce
  <2>. QED
    BY <2>1, <2>3, <2>5 DEF IceInv
<1>2. CASE StartEnds
  <2>1. /\ UNCHANGED <<events, lost, ice, type>> /\ starter' = "ended"
        /\ state' \in {"ConnectingBeforeAccepted", "IceGathering", "Starting"}
        /\ fsm.pc = "unstarted" /\ fsm'.pc = "recv"
    BY <1>2 DEF StartEnds, Started, channel, outside, Inv, StartedInv, Idle
  <2>2. AcceptInv'
    BY <2>1 DEF IceInv, AcceptInv
  <2>3. ASSUME ~lost, NoIce(events) PROVE Tracks(state', ice, type)
    <3>1. ice \in {"new", "checking"}
      BY <2>1, <2>3 DEF IceInv, StartingInv
    <3>. QED
      BY <2>1, <3>1 DEF Tracks, Connected
  <2>4. ASSUME ~lost PROVE PendingInv' /\ StartingInv'
    BY <2>1, <2>3, <2>4 DEF IceInv, PendingInv, StartingInv, HandlingIce
  <2>. QED
    BY <2>1, <2>2, <2>4 DEF IceInv
<1>3. CASE IceChange \/ ReceiveStatus \/ ReceiveAccept \/ ReceiveHangup
           \/ RequestJob
  BY <1>3, EnvironmentIce
<1>4. CASE FsmReceive
  <2>1. /\ UNCHANGED <<state, lost, ice, type, starter>> /\ fsm.pc = "recv"
        /\ events # <<>> /\ events' = Tail(events)
        /\ fsm'.pc = "handle" /\ fsm'.event = Head(events) /\ fsm'.read = state
    BY <1>4 DEF FsmReceive, owner, outside
  <2>2. /\ NoIce(events) <=> NoIce(events') /\ Head(events).kind \notin IceKind
        /\ NoIce(events') /\ Head(events).kind \in IceKind => LastIce(events, 1)
        /\ \A i \in 1..Len(events') :
             /\ i + 1 \in 1..Len(events) /\ events'[i] = events[i + 1]
             /\ LastIce(events', i) => LastIce(events, i + 1)
    BY <1>0, <2>1, TailReports
  <2>3. 1 \in 1..Len(events) /\ events[1] = Head(events)
    BY SMT, <1>0, <2>1
  <2>4. AcceptInv'
    BY <2>1, <2>2, <2>3 DEF IceInv, AcceptInv
  <2>5. ASSUME PendingInv PROVE PendingInv'
    <3>1. HandlingIce' <=> Head(events).kind \in IceKind
      BY <2>1 DEF HandlingIce
    <3>2. (\A i \in 1..Len(events) : LastIce(events, i) => ice = Reports(events[i].kind))'
      BY <2>1, <2>2, <2>5 DEF PendingInv
    <3>3. (NoIce(events) /\ HandlingIce => ice = Reports(fsm.event.kind))'
      BY <2>1, <2>2, <2>3, <2>5, <3>1 DEF PendingInv
    <3>4. ~HandlingIce
      BY <2>1 DEF HandlingIce
    <3>5. (NoIce(events) /\ ~HandlingIce =>
             /\ Tracks(state, ice, type)
             /\ fsm.pc = "handle" => Tracks(fsm.read, ice, type))'
      BY <2>1, <2>2, <2>5, <3>1, <3>4 DEF PendingInv
    <3>. QED
      BY <3>2, <3>3, <3>5 DEF PendingInv
  <2>6. StartingInv'
    BY <2>1 DEF StartingInv, Inv, StartedInv
  <2>. QED
    BY <2>1, <2>4, <2>5, <2>6 DEF IceInv
<1>5. CASE FsmHandle
  BY <1>5, HandlersIce
<1>6. CASE WorkerStep \/ NotifyStep
  <2>1. UNCHANGED <<state, fsm, starter, type, ice>>
    BY <1>6 DEF WorkerStep, NotifyStep, owner
  <2>2. CASE UNCHANGED channel
    BY <2>1, <2>2, QuietIce DEF channel
  <2>3. CASE inject_event(Of("InternalError"))
    <3>1. Of("InternalError") \in Event /\ Of("InternalError").kind = "InternalError"
      BY PlainEvents DEF EventKind, Of
    <3>. QED
      BY <2>1, <2>3, <3>1, InjectIce DEF IceKind
  <2>. QED
    BY <1>6, <2>2, <2>3 DEF WorkerStep, NotifyStep
<1>7. CASE inject_send_hangup_via_rtp_data \/ TerminateBegins \/ TerminateInjects
           \/ TerminateReturns
  <2>1. UNCHANGED <<fsm, starter, type, ice>>
    BY <1>7 DEF inject_send_hangup_via_rtp_data, TerminateBegins, TerminateInjects,
                TerminateReturns, outside
  <2>2. \/ UNCHANGED channel /\ state' \in {state, "Terminating", "Terminated"}
        \/ /\ state' = state
           /\ inject_event(Of("SendHangup")) \/ inject_event(Of("Terminate"))
    BY <1>7 DEF inject_send_hangup_via_rtp_data, TerminateBegins, TerminateInjects,
                TerminateReturns
  <2>3. /\ Of("SendHangup") \in Event /\ Of("SendHangup").kind = "SendHangup"
        /\ Of("Terminate") \in Event /\ Of("Terminate").kind = "Terminate"
    BY PlainEvents DEF EventKind, Of
  <2>4. CASE UNCHANGED channel /\ state' \in {state, "Terminating", "Terminated"}
    BY <2>1, <2>4, QuietIce DEF channel
  <2>5. CASE state' = state /\ inject_event(Of("SendHangup"))
    BY <2>1, <2>3, <2>5, InjectIce DEF IceKind
  <2>6. CASE state' = state /\ inject_event(Of("Terminate"))
    BY <2>1, <2>3, <2>6, InjectIce DEF IceKind
  <2>. QED
    BY <2>2, <2>4, <2>5, <2>6
<1>8. CASE UNCHANGED vars
  BY <1>8, QuietIce DEF vars, channel, owner, outside
<1>. QED
  BY <1>1, <1>2, <1>3, <1>4, <1>5, <1>6, <1>7, <1>8 DEF Next

(* While no event is lost, the state of a connection whose state machine   *)
(* has handled every report of ICE tells whether ICE is connected, for     *)
(* every order of reports, acceptance, hangup and termination.             *)
THEOREM IceTracked == Spec => []StateTracksIce
<1>1. Init => IceInv
  BY SMT DEF Init, IceInv, AcceptInv, PendingInv, StartingInv, NoIce, HandlingIce, Idle,
         Tracks, connecting_or_connected
<1>2. TypeOK /\ Inv /\ IceInv /\ [Next]_vars => IceInv'
  BY NextIce
<1>3. IceInv => StateTracksIce
  BY DEF IceInv, PendingInv, HandlingIce, Tracks, Connected, StateTracksIce, IceQuiet, NoIce
<1>. QED
  BY <1>1, <1>2, <1>3, InvHolds, PTL DEF Spec
=============================================================================
