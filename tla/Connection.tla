----------------------------- MODULE Connection -----------------------------
(***************************************************************************)
(* One connection of a direct call (core/connection.rs and                 *)
(* core/connection_fsm.rs) as the threads that share it:                   *)
(*   - the state machine thread, which takes an event from a bounded       *)
(*     channel, reads the state ONCE, and then handles the event with the  *)
(*     state it read;                                                      *)
(*   - the worker and the notify actors it spawns tasks on;                *)
(*   - the threads of the owning call, which start the connection, ask for *)
(*     a hangup over RTP data and terminate it: they write the state and   *)
(*     only then put an event in the channel;                              *)
(*   - WebRTC callbacks and the application, which only inject events.     *)
(***************************************************************************)
EXTENDS CallStates, Naturals, Sequences, FiniteSets

CONSTANTS
  QueueCapacity, \* slots of the event channel (256 in Connection::new)
  MaxSeqnum,     \* newest status message of the remote peer
  JobKind,       \* the requests for a task of the worker that occur
  MaxInputs      \* bound on what WebRTC, the peer, the user and failures do

AnyJob == {"UpdateSenderStatus", "UpdateDataMode", "LocalIceCandidates",
           "ReceivedIncomingMedia"}

ASSUME ConnectionAssumption ==
  /\ JobKind \subseteq AnyJob
  /\ QueueCapacity \in Nat \ {0}
  /\ MaxSeqnum \in Nat
  /\ MaxInputs \in Nat

VARIABLES
  type,       \* ConnectionType
  state,      \* the state behind the state mutex
  events,     \* the event channel
  fsm,        \* state machine thread: its step, its event, the state it read
  worker,     \* tasks queued on the worker actor
  notify,     \* notifications queued on the notify actor
  starter,    \* the thread that calls start_*
  hangup,     \* the thread that calls inject_send_hangup_via_rtp_data
  terminator, \* the thread that calls terminate
  ice,        \* what WebRTC last reported of ICE
  last,       \* last_remote_sender_status or _receiver_: its seqnum, or 0
  applied,    \* the value of that status in effect
  newest,     \* history: the largest seqnum handled
  sent,       \* history: the RTP data messages the worker sent
  told,       \* history: what the call was told
  lost,       \* history: some event found the channel full
  failed,     \* history: some task of the worker failed
  inputs      \* number of inputs so far

channel == <<events, lost>>
actors == <<worker, notify>>
owner == <<starter, hangup, terminator>>
statuses == <<last, applied, newest>>
history == <<sent, told, failed>>
outside == <<type, ice, history, inputs>>

vars == <<state, channel, fsm, actors, owner, statuses, outside>>

-----------------------------------------------------------------------------
ConnectionType == {"OutgoingParent", "OutgoingChild", "Incoming"}

IceKind == {"IceConnected", "IceDisconnected", "IceFailed"}

EventKind == JobKind \cup IceKind \cup
  {"Status", "ReceivedHangup", "ReceivedAccepted", "Accept", "SendHangup",
   "InternalError", "Terminate"}

Event == [kind : EventKind, seqnum : 0..MaxSeqnum]

Of(kind) == [kind |-> kind, seqnum |-> 0]

Task == {"Job", "SendAccepted", "SendHangup"}

(* What the notify actor tells the call.  The reports that ICE connected   *)
(* or disconnected are left out: the call state machine ignores them.      *)
Notice == {"ReceivedHangup", "InternalError"}

(* The status a message carries.  Messages 2 and 3 carry the same one: the *)
(* peer repeats its status under a new seqnum when other fields change.    *)
StatusValue(n) == n \div 2

Unset == MaxSeqnum + 1

Idle == [pc |-> "recv", event |-> Of("Terminate"), read |-> "NotYetStarted"]

-----------------------------------------------------------------------------
(* Connection::new.  The event channel exists before the state machine      *)
(* runs, so callbacks made while the connection starts are kept for it.    *)
Init ==
  /\ type \in ConnectionType
  /\ state = "NotYetStarted"
  /\ events = <<>>
  /\ fsm = [Idle EXCEPT !.pc = "unstarted"]
  /\ worker = <<>> /\ notify = <<>>
  /\ starter = "idle" /\ hangup = "idle" /\ terminator = "idle"
  /\ ice = "new"
  /\ last = 0 /\ applied = Unset /\ newest = 0
  /\ sent = {} /\ told = {}
  /\ lost = FALSE /\ failed = FALSE /\ inputs = 0

Closed == fsm.pc = "exited"

Full == ~Closed /\ Len(events) >= QueueCapacity

(* Deviation: the channel has no bound. *)
UnboundedChannel(e) ==
  /\ events' = IF Closed THEN events ELSE Append(events, e)
  /\ UNCHANGED lost

(* inject_event: try_send.  A closed channel eats the event; a full one    *)
(* returns an error, which the callbacks only log.                         *)
inject_event(e) ==
  /\ events' = IF Closed \/ Full THEN events ELSE Append(events, e)
  /\ lost' = (lost \/ Full)

-----------------------------------------------------------------------------
(* start_outgoing_parent, start_outgoing_child, start_incoming.            *)

Start ==
  /\ starter = "idle"
  /\ starter' = "starting"
  /\ state' = "Starting"
  /\ ice' = "checking"
  /\ UNCHANGED <<type, channel, fsm, actors, hangup, terminator, statuses,
                 history, inputs>>

Started == IF type = "OutgoingParent" THEN "IceGathering"
                                      ELSE "ConnectingBeforeAccepted"

(* Deviation: a start that fails leaves the state machine out. *)
StartEndsOnlyOnSuccess ==
  /\ starter = "starting"
  /\ starter' = "ended"
  /\ \/ state' = Started /\ fsm' = Idle
     \/ UNCHANGED <<state, fsm>>
  /\ UNCHANGED <<channel, actors, hangup, terminator, statuses, outside>>

(* The state machine is started whether or not WebRTC accepted the         *)
(* descriptions: terminate() waits for it.                                 *)
StartEnds ==
  /\ starter = "starting"
  /\ starter' = "ended"
  /\ state' \in {Started, "Starting"}
  /\ fsm' = Idle
  /\ UNCHANGED <<channel, actors, hangup, terminator, statuses, outside>>

-----------------------------------------------------------------------------
(* The environment.                                                        *)

Input ==
  /\ inputs < MaxInputs
  /\ inputs' = inputs + 1

(* WebRTC calls back from the moment a description is set; a parent never  *)
(* gets a remote description.  What comes after the state machine closed   *)
(* its channel has no effect and is left out.                              *)
CallbacksPossible == starter # "idle" /\ ~Closed

MediaPossible == CallbacksPossible /\ type # "OutgoingParent"

inject_ice(kind, from, to) ==
  /\ MediaPossible /\ ice \in from /\ ice' = to
  /\ inject_event(Of(kind))

IceChange ==
  /\ Input
  /\ \/ inject_ice("IceConnected", {"checking", "disconnected"}, "connected")
     \/ inject_ice("IceDisconnected", {"connected"}, "disconnected")
     \/ inject_ice("IceFailed", {"checking", "disconnected"}, "failed")
  /\ UNCHANGED <<type, state, fsm, actors, owner, statuses, history>>

(* inject_received_via_rtp_data: any message may come late, twice or never.*)
ReceiveStatus ==
  /\ MediaPossible
  /\ Input
  /\ \E n \in 1..MaxSeqnum : inject_event([kind |-> "Status", seqnum |-> n])
  /\ UNCHANGED <<type, state, fsm, actors, owner, ice, statuses, history>>

(* The callee's user accepts, or the callee's Accepted message comes in;   *)
(* the latter may overtake ICE's own report that it is connected.          *)
ReceiveAccept ==
  /\ Input
  /\ \/ type = "OutgoingChild" /\ MediaPossible
        /\ inject_event(Of("ReceivedAccepted"))
     \/ type = "Incoming" /\ starter = "ended" /\ ~Closed
        /\ inject_event(Of("Accept"))
  /\ UNCHANGED <<type, state, fsm, actors, owner, ice, statuses, history>>

ReceiveHangup ==
  /\ MediaPossible
  /\ Input
  /\ inject_event(Of("ReceivedHangup"))
  /\ UNCHANGED <<type, state, fsm, actors, owner, ice, statuses, history>>

RequestJob ==
  /\ CallbacksPossible
  /\ Input
  /\ \E k \in JobKind :
       /\ type = "OutgoingParent" => k = "LocalIceCandidates"
       /\ inject_event(Of(k))
  /\ UNCHANGED <<type, state, fsm, actors, owner, ice, statuses, history>>

-----------------------------------------------------------------------------
(* The state machine thread.                                               *)

FsmReceive ==
  /\ fsm.pc = "recv"
  /\ events # <<>>
  /\ fsm' = [pc |-> "handle", event |-> Head(events), read |-> state]
  /\ events' = Tail(events)
  /\ UNCHANGED <<state, actors, owner, statuses, lost, outside>>

Handling(kinds) ==
  /\ fsm.pc = "handle"
  /\ fsm.event.kind \in kinds
  /\ kinds \cap {"SendHangup", "Terminate"} = {} =>
       ~terminating_or_terminated(fsm.read)
  /\ fsm' = Idle

DropEvent ==
  /\ fsm.pc = "handle"
  /\ fsm.event.kind \notin {"SendHangup", "Terminate"}
  /\ terminating_or_terminated(fsm.read)
  /\ fsm' = Idle
  /\ UNCHANGED <<state, channel, actors, owner, statuses, outside>>

(* set_state overwrites whatever is there; the handler calls it only when  *)
(* the state it read leads to another one.                                 *)
set_state(new) == state' = IF new = fsm.read THEN state ELSE new

(* Deviation: what was cached while ringing stays in the cache. *)
KeepCached(event) == UNCHANGED <<applied, worker>>

(* The statuses cached while ringing take effect, and a callee tells the   *)
(* caller that it accepted.                                                *)
handle_connected_and_accepted_for_the_first_time(event) ==
  IF FirstTimeConnected(event, fsm.read)
  THEN /\ applied' = IF last = 0 THEN applied ELSE StatusValue(last)
       /\ worker' = IF type = "Incoming" THEN Append(worker, "SendAccepted")
                                         ELSE worker
  ELSE UNCHANGED <<applied, worker>>

handle_ice_connected ==
  /\ Handling({"IceConnected"})
  /\ set_state(OnIceConnected(fsm.read))
  /\ handle_connected_and_accepted_for_the_first_time("IceConnected")
  /\ UNCHANGED <<channel, notify, owner, last, newest, outside>>

(* Deviation: ICE may disconnect unseen while ringing. *)
IgnoreIceDisconnected ==
  /\ Handling({"IceDisconnected"})
  /\ set_state(IF fsm.read = "ConnectedBeforeAccepted" THEN fsm.read
               ELSE OnIceDisconnected(fsm.read))
  /\ UNCHANGED <<channel, actors, owner, statuses, outside>>

handle_ice_disconnected ==
  /\ Handling({"IceDisconnected"})
  /\ set_state(OnIceDisconnected(fsm.read))
  /\ UNCHANGED <<channel, actors, owner, statuses, outside>>

handle_ice_failed ==
  /\ Handling({"IceFailed"})
  /\ set_state(OnIceFailed(fsm.read))
  /\ UNCHANGED <<channel, actors, owner, statuses, outside>>

handle_received_accepted_via_rtp_data ==
  /\ Handling({"ReceivedAccepted"})
  /\ set_state(OnReceivedAccepted(fsm.read))
  /\ handle_connected_and_accepted_for_the_first_time("ReceivedAccepted")
  /\ UNCHANGED <<channel, notify, owner, last, newest, outside>>

handle_accept ==
  /\ Handling({"Accept"})
  /\ set_state(OnAccept(fsm.read))
  /\ handle_connected_and_accepted_for_the_first_time("Accept")
  /\ UNCHANGED <<channel, notify, owner, last, newest, outside>>

(* handle_received_{sender,receiver}_status_via_rtp_data, which differ in  *)
(* the value only: a message that is not newer than the last one is        *)
(* ignored; a newer one is remembered, and takes effect at once if the     *)
(* call is accepted and connected.                                         *)
handle_received_status ==
  /\ Handling({"Status"})
  /\ LET n == fsm.event.seqnum
         changed == last = 0 \/ StatusValue(last) # StatusValue(n)
     IN /\ newest' = IF n > newest THEN n ELSE newest
        /\ \/ n <= last /\ UNCHANGED <<last, applied>>
           \/ /\ n > last
              /\ last' = n
              /\ applied' = IF active(fsm.read) /\ changed THEN StatusValue(n)
                                                           ELSE applied
  /\ UNCHANGED <<state, channel, actors, owner, outside>>

(* Deviation: a hangup counts only once ICE connected. *)
HangupOnlyWhenConnected ==
  /\ Handling({"ReceivedHangup"})
  /\ notify' = IF connected_or_reconnecting(fsm.read)
               THEN Append(notify, "ReceivedHangup") ELSE notify
  /\ UNCHANGED <<state, channel, worker, owner, statuses, outside>>

handle_received_hangup ==
  /\ Handling({"ReceivedHangup"})
  /\ notify' = IF connecting_or_connected(fsm.read)
               THEN Append(notify, "ReceivedHangup") ELSE notify
  /\ UNCHANGED <<state, channel, worker, owner, statuses, outside>>

(* handle_update_sender_status, handle_update_data_mode,                   *)
(* handle_local_ice_candidates and handle_received_incoming_media: a task  *)
(* for the worker, if the state allows it.                                 *)
JobAllowed(kind, s) ==
  CASE kind = "UpdateSenderStatus" -> connected_or_reconnecting(s)
    [] kind = "LocalIceCandidates" -> can_send_ice_candidates(s)
    [] OTHER                       -> connecting_or_connected(s)

handle_job ==
  /\ Handling(JobKind)
  /\ worker' = IF JobAllowed(fsm.event.kind, fsm.read)
               THEN Append(worker, "Job") ELSE worker
  /\ UNCHANGED <<state, channel, notify, owner, statuses, outside>>

handle_internal_error ==
  /\ Handling({"InternalError"})
  /\ notify' = Append(notify, "InternalError")
  /\ UNCHANGED <<state, channel, worker, owner, statuses, outside>>

handle_send_hangup_via_rtp_data ==
  /\ Handling({"SendHangup"})
  /\ worker' = IF can_send_hangup_via_rtp(fsm.read)
               THEN Append(worker, "SendHangup") ELSE worker
  /\ UNCHANGED <<state, channel, notify, owner, statuses, outside>>

(* Deviation: the actors are not stopped. *)
LeaveActorsRunning ==
  /\ fsm.pc = "handle" /\ fsm.event.kind = "Terminate"
  /\ fsm' = [Idle EXCEPT !.pc = "exited"]
  /\ events' = <<>>
  /\ UNCHANGED <<state, actors, owner, statuses, lost, outside>>

(* handle_terminate: the channel is closed with what is left in it, and    *)
(* both actors are stopped and joined.  A stopped actor finishes the task  *)
(* it is in and discards the ones still queued.                            *)
handle_terminate ==
  /\ fsm.pc = "handle" /\ fsm.event.kind = "Terminate"
  /\ fsm' = [Idle EXCEPT !.pc = "exited"]
  /\ events' = <<>>
  /\ worker' = <<>> /\ notify' = <<>>
  /\ UNCHANGED <<state, owner, statuses, lost, outside>>

-----------------------------------------------------------------------------
(* The actors.  Every task but the hangup gives up on a terminating        *)
(* connection; one that fails injects an internal error.                   *)

WorkerStep ==
  /\ worker # <<>>
  /\ worker' = Tail(worker)
  /\ \/ /\ terminating_or_terminated(state) /\ Head(worker) # "SendHangup"
        /\ UNCHANGED <<sent, channel, failed, inputs>>
     \/ /\ ~terminating_or_terminated(state) \/ Head(worker) = "SendHangup"
        /\ \/ /\ sent' = sent \cup ({Head(worker)} \ {"Job"})
              /\ UNCHANGED <<channel, failed, inputs>>
           \/ /\ Input /\ failed' = TRUE
              /\ inject_event(Of("InternalError"))
              /\ UNCHANGED sent
  /\ UNCHANGED <<type, state, fsm, notify, owner, ice, statuses, told>>

(* The call hears of it only if the connection is not terminating.         *)
NotifyStep ==
  /\ notify # <<>>
  /\ notify' = Tail(notify)
  /\ told' = IF terminating_or_terminated(state) THEN told
                                                 ELSE told \cup {Head(notify)}
  /\ UNCHANGED <<type, state, channel, fsm, worker, owner, ice, statuses, sent,
                 failed, inputs>>

-----------------------------------------------------------------------------
(* The owning call.  It knows the connection once it has started, and asks *)
(* for the hangup, if any, before it terminates the connection.            *)

inject_send_hangup_via_rtp_data ==
  /\ \/ /\ hangup = "idle" /\ terminator = "idle" /\ starter = "ended"
        /\ hangup' = "inject"
        /\ state' = "Terminating"
        /\ UNCHANGED channel
     \/ /\ hangup = "inject"
        /\ hangup' = "done"
        /\ inject_event(Of("SendHangup"))
        /\ UNCHANGED state
  /\ UNCHANGED <<fsm, actors, starter, terminator, statuses, outside>>

(* terminate(): set the state, then inject Terminate, then wait on the     *)
(* condition variable, then close the peer connection.  A full channel     *)
(* makes it return before it waits.                                        *)
TerminateBegins ==
  /\ terminator = "idle" /\ hangup # "inject" /\ starter = "ended"
  /\ terminator' = "inject"
  /\ state' = "Terminating"
  /\ UNCHANGED <<channel, fsm, actors, hangup, starter, statuses, outside>>

TerminateInjects ==
  /\ terminator = "inject"
  /\ terminator' = IF Full THEN "failed" ELSE "wait"
  /\ inject_event(Of("Terminate"))
  /\ UNCHANGED <<state, fsm, actors, hangup, starter, statuses, outside>>

TerminateReturns ==
  /\ terminator = "wait" /\ fsm.pc = "exited"
  /\ terminator' = "returned"
  /\ state' = "Terminated"
  /\ UNCHANGED <<channel, fsm, actors, hangup, starter, statuses, outside>>

-----------------------------------------------------------------------------
FsmHandle ==
  \/ DropEvent \/ handle_ice_connected \/ handle_ice_disconnected
  \/ handle_ice_failed \/ handle_received_accepted_via_rtp_data
  \/ handle_accept \/ handle_received_status \/ handle_received_hangup
  \/ handle_job \/ handle_internal_error \/ handle_send_hangup_via_rtp_data
  \/ handle_terminate

Next ==
  \/ Start \/ StartEnds
  \/ IceChange \/ ReceiveStatus \/ ReceiveAccept \/ ReceiveHangup \/ RequestJob
  \/ FsmReceive \/ FsmHandle
  \/ WorkerStep \/ NotifyStep
  \/ inject_send_hangup_via_rtp_data
  \/ TerminateBegins \/ TerminateInjects \/ TerminateReturns

Spec == Init /\ [][Next]_vars

(* The threads of RingRTC are scheduled; nothing makes the environment act *)
(* or the call end, but a call of start_* or terminate that began goes on. *)
Fairness ==
  /\ WF_vars(FsmReceive) /\ WF_vars(FsmHandle)
  /\ WF_vars(WorkerStep) /\ WF_vars(NotifyStep)
  /\ WF_vars(StartEnds)
  /\ WF_vars(hangup = "inject" /\ inject_send_hangup_via_rtp_data)
  /\ WF_vars(TerminateInjects) /\ WF_vars(TerminateReturns)

FairSpec == Spec /\ Fairness

-----------------------------------------------------------------------------
TypeOK ==
  /\ type \in ConnectionType
  /\ state \in ConnectionState
  /\ events \in Seq(Event) /\ Len(events) <= QueueCapacity
  /\ fsm \in [pc : {"unstarted", "recv", "handle", "exited"},
              event : Event, read : ConnectionState]
  /\ worker \in Seq(Task) /\ notify \in Seq(Notice)
  /\ starter \in {"idle", "starting", "ended"}
  /\ hangup \in {"idle", "inject", "done"}
  /\ terminator \in {"idle", "inject", "wait", "failed", "returned"}
  /\ ice \in {"new", "checking", "connected", "disconnected", "failed"}
  /\ last \in 0..MaxSeqnum /\ applied \in 0..Unset /\ newest \in 0..MaxSeqnum
  /\ sent \subseteq {"SendAccepted", "SendHangup"} /\ told \subseteq Notice
  /\ lost \in BOOLEAN /\ failed \in BOOLEAN
  /\ inputs \in 0..MaxInputs

(* Whatever order status messages came in and however many came before the *)
(* call was accepted, an accepted and connected connection has in effect   *)
(* the status of the newest message handled: the cache that                *)
(* handle_connected_and_accepted_for_the_first_time applies, and the       *)
(* "changed" test of the two status handlers, never hide one.              *)
NewestStatusApplied ==
  fsm.pc = "recv" /\ active(state) /\ newest # 0 =>
    applied = StatusValue(newest)

(* Once the state machine has handled every report of ICE, the state tells *)
(* whether ICE is connected, however ICE changes and acceptance interleave.*)
(* For an incoming connection only one way: its user may accept            *)
(* while ICE is disconnected, which handle_accept turns into               *)
(* ConnectedAndAccepted.                                                   *)
IceQuiet ==
  /\ fsm.pc = "recv" /\ ~lost
  /\ \A i \in 1..Len(events) : events[i].kind \notin IceKind

StateTracksIce ==
  IceQuiet /\ connecting_or_connected(state) =>
    LET connected == state \in {"ConnectedBeforeAccepted",
                                "ConnectedAndAccepted"}
    IN /\ ice = "connected" => connected
       /\ type = "OutgoingChild" /\ connected => ice = "connected"

(* When terminate() has returned, nothing of the connection runs any more  *)
(* or will: the state machine and the actors have no work left, so the     *)
(* peer connection and its observer can be freed.                          *)
QuietAfterTerminate ==
  terminator = "returned" =>
    /\ fsm.pc = "exited" /\ events = <<>>
    /\ worker = <<>> /\ notify = <<>>

(* terminate() never waits for ever, also after a start_* that failed      *)
(* half-way: "Always start the FSM no matter what happened above because   *)
(* close() relies on it running" (connection.rs).                          *)
TerminateEnds == terminator = "inject" ~> terminator \in {"returned", "failed"}

(* A callee that becomes ConnectedAndAccepted tells the caller so, unless  *)
(* its call hangs up or terminates it, or the sending fails.               *)
OwnerLetsLive == hangup = "idle" /\ terminator = "idle"

AcceptedIsSent ==
  type = "Incoming" /\ state = "ConnectedAndAccepted" ~>
    "SendAccepted" \in sent \/ ~OwnerLetsLive \/ failed

(* A hangup that the peer sent over RTP data, once the state machine       *)
(* handles it on a live connection, reaches the call, unless the call is   *)
(* terminating the connection itself.                                      *)
HangupIsTold ==
  /\ fsm.pc = "handle" /\ fsm.event.kind = "ReceivedHangup"
  /\ connecting_or_connected(fsm.read)
  ~> "ReceivedHangup" \in told \/ ~OwnerLetsLive
=============================================================================
