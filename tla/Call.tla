-------------------------------- MODULE Call --------------------------------
(***************************************************************************)
(* One direct call (core/call.rs, core/call_fsm.rs) with the connections   *)
(* of its forks, one for each device of the peer that answers.             *)
(*                                                                         *)
(* The call's state machine thread takes an event, reads the state once    *)
(* and handles the event; handlers put tasks on a worker actor and         *)
(* application events on a notify actor.  The threads of the connections,  *)
(* the timer and the call manager only inject events, except that the call *)
(* manager also writes Terminating when it ends the call.                  *)
(*                                                                         *)
(* A connection is its state: how its own threads get there is the subject *)
(* of Connection.                                                          *)
(***************************************************************************)
EXTENDS CallStates, Naturals, Sequences, FiniteSets, TLC

CONSTANTS
  Devices,   \* devices of the peer; a caller rings with one of them
  MaxInputs  \* bound on what the peer, the user, ICE and failures do

ASSUME CallAssumption ==
  IsFiniteSet(Devices) /\ Devices # {} /\ MaxInputs \in Nat

VARIABLES
  direction,
  state,       \* the CallState behind the mutex
  activeDev,   \* active_device_id, or None
  forking,     \* the parent connection exists
  didSend,     \* did_send_offer
  offer,       \* pending_call: the device whose offer was received, or None
  conns,       \* connection_map: the state of a device's connection, or None
  accepting,   \* Accept is on its way to the active connection
  events,      \* the event channel
  fsm,         \* state machine thread: its step, its event, the state it read
  worker,      \* tasks queued on the worker
  notify,      \* application events queued on the notify actor
  media,       \* devices that media was enabled for
  heard,       \* history: application events delivered
  signalled,   \* history: a hangup to all devices was signalled
  managed,     \* the call is the call manager's active call
  terminator,  \* the call manager's task that terminates the call
  app,         \* what the application did about on_start_call
  inputs

connections == <<forking, didSend, offer, conns, accepting>>
queues == <<worker, notify>>
outcome == <<media, heard, signalled>>
manager == <<managed, terminator>>
fixed == <<direction, app, inputs>>

vars == <<state, activeDev, connections, events, fsm, queues, outcome, manager,
          fixed>>

None == "None"

Live(d) == conns[d] # None /\ ~terminating_or_terminated(conns[d])

Event(kind, d, arg) == [kind |-> kind, dev |-> d, arg |-> arg]

Plain(kind) == Event(kind, None, None)

Task(kind, d) == [kind |-> kind, dev |-> d]

Idle == [pc |-> "recv", event |-> Plain("Terminate"), read |-> "NotYetStarted"]

Closed == fsm.pc = "exited"

(* inject_event: a closed channel eats the event.  The channel has 256     *)
(* slots; MaxInputs keeps it far from full.                                *)
Injected(es) == IF Closed THEN events ELSE events \o es

inject_event(e) == events' = Injected(<<e>>)

-----------------------------------------------------------------------------
(* Call::new, handle_received_offer and inject_start_call.                 *)
Init ==
  /\ direction \in Directions
  /\ state = "NotYetStarted"
  /\ activeDev = None
  /\ forking = FALSE /\ didSend = FALSE
  /\ offer \in IF direction = "Incoming" THEN Devices ELSE {None}
  /\ conns = [d \in Devices |-> None]
  /\ accepting = FALSE
  /\ events = <<Plain("StartCall")>>
  /\ fsm = Idle
  /\ worker = <<>> /\ notify = <<>>
  /\ media = {} /\ heard = {} /\ signalled = FALSE
  /\ managed = TRUE /\ terminator = "idle"
  /\ app = "idle"
  /\ inputs = 0

Input ==
  /\ inputs < MaxInputs
  /\ inputs' = inputs + 1

Peers == IF direction = "Outgoing" THEN Devices
         ELSE {d \in Devices : d = offer \/ conns[d] # None}

-----------------------------------------------------------------------------
(* What the call manager passes on to its active call.                     *)

(* proceed(): the application answers on_start_call. *)
AppProceeds ==
  /\ app = "told" /\ managed
  /\ app' = "proceeded"
  /\ inject_event(Plain("Proceed"))
  /\ UNCHANGED <<state, activeDev, connections, fsm, queues, outcome, manager,
                 direction, inputs>>

(* The other devices of a forked call answer, send ICE candidates and hang *)
(* up in any order; signaling may deliver an ICE message late or again.    *)
ReceivesSignal ==
  /\ managed /\ Input
  /\ \E d \in Peers :
       \/ direction = "Outgoing" /\ didSend
          /\ inject_event(Event("Answer", d, None))
       \/ inject_event(Event("Ice", d, None))
       \/ \E type \in {"Normal", "Elsewhere", "ByThisDevice"} :
            /\ direction = "Outgoing" => type = "Normal" /\ didSend
            /\ inject_event(Event("Hangup", d, type))
  /\ UNCHANGED <<state, activeDev, connections, fsm, queues, outcome, manager,
                 direction, app>>

AcceptsCall ==
  /\ managed /\ direction = "Incoming" /\ Input
  /\ inject_event(Plain("Accept"))
  /\ UNCHANGED <<state, activeDev, connections, fsm, queues, outcome, manager,
                 direction, app>>

TimerFires ==
  /\ terminator # "done" /\ Input
  /\ inject_event(Plain("Timeout"))
  /\ UNCHANGED <<state, activeDev, connections, fsm, queues, outcome, manager,
                 direction, app>>

-----------------------------------------------------------------------------
(* The connections.                                                        *)

(* set_state tells the call of every change; the ones that the call        *)
(* ignores in every state are left out.                                    *)
Reported(s) == s # "ConnectingBeforeAccepted" /\ ~terminating_or_terminated(s)

ConnectionMoves(d, new) ==
  /\ Live(d) /\ new # conns[d]
  /\ conns' = [conns EXCEPT ![d] = new]
  /\ events' = IF Reported(new) THEN Injected(<<Event("Connection", d, new)>>)
                                ELSE events

ConnectionChanges ==
  /\ Input
  /\ \E d \in Devices :
       \/ ConnectionMoves(d, OnIceConnected(conns[d]))
       \/ ConnectionMoves(d, OnIceDisconnected(conns[d]))
       \/ ConnectionMoves(d, OnIceFailed(conns[d]))
       \/ /\ direction = "Outgoing"
          /\ ConnectionMoves(d, OnReceivedAccepted(conns[d]))
  /\ UNCHANGED <<state, activeDev, forking, didSend, offer, accepting, fsm,
                 queues, outcome, manager, direction, app>>

(* The connection handles the Accept that accept_locally injected. *)
ConnectionAccepts ==
  /\ accepting
  /\ accepting' = FALSE
  /\ LET s == conns[activeDev]
     IN IF Live(activeDev) /\ OnAccept(s) # s
        THEN ConnectionMoves(activeDev, OnAccept(s))
        ELSE UNCHANGED <<conns, events>>
  /\ UNCHANGED <<state, activeDev, forking, didSend, offer, fsm, queues,
                 outcome, manager, fixed>>

(* A hangup that comes over RTP data, or a task of a connection that fails. *)
ConnectionReports ==
  /\ Input
  /\ \E d \in Devices :
       /\ Live(d) /\ connecting_or_connected(conns[d])
       /\ \/ inject_event(Event("Hangup", d, "Normal"))
          \/ inject_event(Plain("InternalError"))
  /\ UNCHANGED <<state, activeDev, connections, fsm, queues, outcome, manager,
                 direction, app>>

(* inject_send_hangup_via_rtp_data marks a connection Terminating. *)
HungUp(devs) == [d \in Devices |-> IF d \in devs /\ conns[d] # None
                                   THEN "Terminating" ELSE conns[d]]

-----------------------------------------------------------------------------
(* The state machine thread.                                               *)

FsmReceive ==
  /\ fsm.pc = "recv" /\ events # <<>>
  /\ fsm' = [pc |-> "handle", event |-> Head(events), read |-> state]
  /\ events' = Tail(events)
  /\ UNCHANGED <<state, activeDev, connections, queues, outcome, manager,
                 fixed>>

Handles(kind) ==
  /\ fsm.pc = "handle" /\ fsm.event.kind = kind
  /\ kind # "SendHangup" => ~terminating_or_terminated(fsm.read)
  /\ fsm' = Idle

DropEvent ==
  /\ fsm.pc = "handle"
  /\ fsm.event.kind \notin {"SendHangup", "Terminate"}
  /\ terminating_or_terminated(fsm.read)
  /\ fsm' = Idle
  /\ UNCHANGED <<state, activeDev, connections, events, queues, outcome,
                 manager, fixed>>

handle_start_call ==
  /\ Handles("StartCall")
  /\ state' = "WaitingToProceed"
  /\ app' = "told"
  /\ UNCHANGED <<activeDev, connections, events, queues, outcome, manager,
                 direction, inputs>>

Spawns(task) == worker' = Append(worker, task)

handle_proceed ==
  /\ Handles("Proceed")
  /\ IF fsm.read = "WaitingToProceed"
     THEN state' = "ConnectingBeforeAccepted" /\ Spawns(Task("Proceed", None))
     ELSE UNCHANGED <<state, worker>>
  /\ UNCHANGED <<activeDev, connections, events, notify, outcome, manager,
                 fixed>>

(* Deviation: an answer is still taken when another device accepted. *)
AnswerAlsoWhenAccepted ==
  /\ Handles("Answer")
  /\ IF fsm.read \in {"ConnectingBeforeAccepted", "ConnectedBeforeAccepted",
                      "ConnectingAfterAccepted"}
     THEN Spawns(Task("Answer", fsm.event.dev)) ELSE UNCHANGED worker
  /\ UNCHANGED <<state, activeDev, connections, events, notify, outcome,
                 manager, fixed>>

handle_received_answer ==
  /\ Handles("Answer")
  /\ IF fsm.read \in {"ConnectingBeforeAccepted", "ConnectedBeforeAccepted"}
     THEN Spawns(Task("Answer", fsm.event.dev)) ELSE UNCHANGED worker
  /\ UNCHANGED <<state, activeDev, connections, events, notify, outcome,
                 manager, fixed>>

handle_received_ice ==
  /\ Handles("Ice")
  /\ IF CallCanReceiveIce(fsm.read) THEN Spawns(Task("Ice", fsm.event.dev))
                                    ELSE UNCHANGED worker
  /\ UNCHANGED <<state, activeDev, connections, events, notify, outcome,
                 manager, fixed>>

handle_accept_call ==
  /\ Handles("Accept")
  /\ IF CallCanBeAcceptedLocally(fsm.read)
     THEN /\ state' = "ConnectedAndAccepted"
          /\ Spawns(Task("AcceptLocally", None))
     ELSE UNCHANGED <<state, worker>>
  /\ UNCHANGED <<activeDev, connections, events, notify, outcome, manager,
                 fixed>>

(* A hangup ends the call unless it is this device's own, sent back by the *)
(* caller, or comes from another device than the active one.  A caller     *)
(* that is still ringing passes it on to the other devices.                *)
handle_received_hangup ==
  /\ Handles("Hangup")
  /\ LET d == fsm.event.dev
         ignored == \/ direction = "Incoming" /\ fsm.event.arg = "ByThisDevice"
                    \/ activeDev # None /\ activeDev # d
         propagates == /\ direction = "Outgoing"
                       /\ should_propagate_hangup(fsm.read)
     IN IF ignored
        THEN UNCHANGED <<state, conns, signalled, worker>>
        ELSE /\ state' = IF can_be_terminated_remotely(fsm.read)
                         THEN "Terminating" ELSE state
             /\ conns' = IF propagates THEN HungUp(Devices \ {d}) ELSE conns
             /\ signalled' = (signalled \/ propagates)
             /\ Spawns(Task("RemoteHangup", None))
  /\ UNCHANGED <<activeDev, forking, didSend, offer, accepting, events, notify,
                 media, heard, manager, fixed>>

(* handle_connection_observer_event, StateChanged: a case for each pair of *)
(* the call's state and the connection's new state that does something.    *)

StateChange(from, to) ==
  /\ Handles("Connection")
  /\ fsm.read \in from /\ fsm.event.arg \in to
  /\ UNCHANGED <<forking, didSend, offer, accepting, events, outcome, manager,
                 fixed>>

(* Deviation: a late report that ICE connected undoes acceptance. *)
RingsAgainWhenAccepted ==
  /\ StateChange({"ConnectingBeforeAccepted", "ConnectedAndAccepted"},
                 {"ConnectedBeforeAccepted"})
  /\ state' = "ConnectedBeforeAccepted"
  /\ notify' = Append(notify, "Ringing")
  /\ UNCHANGED <<activeDev, conns, worker>>

ConnectedRings ==
  /\ StateChange({"ConnectingBeforeAccepted"}, {"ConnectedBeforeAccepted"})
  /\ state' = "ConnectedBeforeAccepted"
  /\ notify' = Append(notify, "Ringing")
  /\ UNCHANGED <<activeDev, conns, worker>>

(* handle_remotely_accepted_connection: the device becomes the active one, *)
(* and the others are hung up, over RTP at once and by the worker later.   *)
AcceptedBeforeConnected ==
  /\ direction = "Outgoing"
  /\ StateChange({"ConnectingBeforeAccepted", "ConnectedBeforeAccepted"},
                 {"ConnectingAfterAccepted"})
  /\ state' = "ConnectingAfterAccepted"
  /\ activeDev' = fsm.event.dev
  /\ conns' = HungUp(Devices \ {fsm.event.dev})
  /\ Spawns(Task("DropOthers", fsm.event.dev))
  /\ UNCHANGED notify

AcceptedAfterConnected ==
  /\ direction = "Outgoing"
  /\ StateChange({"ConnectedBeforeAccepted"}, {"ConnectedAndAccepted"})
  /\ state' = "ConnectedAndAccepted"
  /\ activeDev' = fsm.event.dev
  /\ conns' = HungUp(Devices \ {fsm.event.dev})
  /\ worker' = worker \o <<Task("DropOthers", fsm.event.dev),
                           Task("AcceptRemotely", None)>>
  /\ UNCHANGED notify

FromActiveDevice == fsm.event.dev = activeDev

(* Deviation: the accepted connection is not activated when it connects. *)
ConnectedNotActivated ==
  /\ direction = "Outgoing" /\ FromActiveDevice
  /\ StateChange({"ConnectingAfterAccepted"}, {"ConnectedAndAccepted"})
  /\ notify' = Append(notify, "Ringing")
  /\ state' = "ConnectedAndAccepted"
  /\ UNCHANGED <<activeDev, conns, worker>>

ConnectedAfterAccepted ==
  /\ direction = "Outgoing" /\ FromActiveDevice
  /\ StateChange({"ConnectingAfterAccepted"}, {"ConnectedAndAccepted"})
  /\ notify' = Append(notify, "Ringing")
  /\ state' = "ConnectedAndAccepted"
  /\ Spawns(Task("AcceptRemotely", None))
  /\ UNCHANGED <<activeDev, conns>>

Reconnects ==
  /\ FromActiveDevice
  /\ \/ /\ StateChange({"ConnectedAndAccepted"}, {"ReconnectingAfterAccepted"})
        /\ state' = "ReconnectingAfterAccepted"
     \/ /\ StateChange({"ReconnectingAfterAccepted"}, {"ConnectedAndAccepted"})
        /\ state' = "ConnectedAndAccepted"
  /\ notify' = Append(notify, "Reconnect")
  /\ UNCHANGED <<activeDev, conns, worker>>

ConnectionFails ==
  /\ StateChange(CallState, {"IceFailed"})
  /\ Spawns(Task("IceFailed", fsm.event.dev))
  /\ UNCHANGED <<state, activeDev, conns, notify>>

(* Every other pair is ignored, with or without a log message. *)
Ignored(s, c) ==
  /\ c # "IceFailed"
  /\ ~(s = "ConnectingBeforeAccepted" /\ c = "ConnectedBeforeAccepted")
  /\ direction = "Outgoing" =>
       /\ ~(/\ s \in {"ConnectingBeforeAccepted", "ConnectedBeforeAccepted"}
            /\ c = "ConnectingAfterAccepted")
       /\ ~(s = "ConnectedBeforeAccepted" /\ c = "ConnectedAndAccepted")
       /\ FromActiveDevice =>
            ~(s = "ConnectingAfterAccepted" /\ c = "ConnectedAndAccepted")
  /\ FromActiveDevice => ~(active(s) /\ active(c) /\ s # c)

IgnoreStateChange ==
  /\ StateChange(CallState, ConnectionState)
  /\ Ignored(fsm.read, fsm.event.arg)
  /\ UNCHANGED <<state, activeDev, conns, queues>>

handle_connection_observer_event ==
  \/ ConnectedRings \/ AcceptedBeforeConnected \/ AcceptedAfterConnected
  \/ ConnectedAfterAccepted \/ Reconnects \/ ConnectionFails
  \/ IgnoreStateChange

handle_internal_error ==
  /\ Handles("InternalError")
  /\ Spawns(Task("InternalError", None))
  /\ UNCHANGED <<state, activeDev, connections, events, notify, outcome,
                 manager, fixed>>

handle_call_timeout ==
  /\ Handles("Timeout")
  /\ IF active(fsm.read) THEN UNCHANGED worker
                          ELSE Spawns(Task("Timeout", None))
  /\ UNCHANGED <<state, activeDev, connections, events, notify, outcome,
                 manager, fixed>>

handle_send_hangup_via_rtp_data_to_all ==
  /\ Handles("SendHangup")
  /\ IF can_send_hangup_via_rtp(fsm.read) THEN Spawns(Task("HangUpAll", None))
                                          ELSE UNCHANGED worker
  /\ UNCHANGED <<state, activeDev, connections, events, notify, outcome,
                 manager, fixed>>

(* Closes the channel, stops both actors, which discard what is queued. *)
handle_terminate ==
  /\ fsm.pc = "handle" /\ fsm.event.kind = "Terminate"
  /\ fsm' = [Idle EXCEPT !.pc = "exited"]
  /\ events' = <<>> /\ worker' = <<>> /\ notify' = <<>>
  /\ state' = "Terminated"
  /\ UNCHANGED <<activeDev, connections, outcome, manager, fixed>>

-----------------------------------------------------------------------------
(* The worker.  schedule_work_until_terminating gives up on a terminating  *)
(* call; a task that fails injects an internal error.                      *)

(* Deviation: the hangup task, too, gives up on a terminating call. *)
UntilTerminatingHangup ==
  {"Proceed", "Answer", "Ice", "AcceptLocally", "AcceptRemotely", "DropOthers",
   "IceFailed", "RemoteHangup"}

UntilTerminating == {"Proceed", "Answer", "Ice", "AcceptLocally",
                     "AcceptRemotely", "DropOthers", "IceFailed"}

EvenWhenTerminating ==
  {"RemoteHangup", "InternalError", "Timeout", "HangUpAll"}

Works(kind) ==
  /\ worker # <<>> /\ Head(worker).kind = kind
  /\ kind \in UntilTerminating => state # "Terminating"
  /\ worker' = Tail(worker)

SkipTask ==
  /\ worker # <<>> /\ Head(worker).kind \in UntilTerminating
  /\ state = "Terminating"
  /\ worker' = Tail(worker)
  /\ UNCHANGED <<state, activeDev, connections, events, fsm, notify, outcome,
                 manager, fixed>>

Fails == Input /\ inject_event(Plain("InternalError"))

Succeeds == UNCHANGED <<events, inputs>>

(* The callee starts its only connection; the caller starts the parent and *)
(* sends the offer.  Either may fail on the way.                           *)
proceed ==
  /\ Works("Proceed")
  /\ \/ /\ direction = "Incoming" /\ offer' = None
        /\ \/ /\ conns' = [conns EXCEPT ![offer] = "ConnectingBeforeAccepted"]
              /\ activeDev' = offer
              /\ Succeeds
           \/ Fails /\ UNCHANGED <<conns, activeDev>>
        /\ UNCHANGED <<forking, didSend>>
     \/ /\ direction = "Outgoing"
        /\ \/ forking' = TRUE /\ didSend' = TRUE /\ Succeeds
           \/ forking' \in BOOLEAN /\ UNCHANGED didSend /\ Fails
        /\ UNCHANGED <<offer, conns, activeDev>>
  /\ UNCHANGED <<state, accepting, fsm, notify, outcome, manager, direction,
                 app>>

received_answer ==
  /\ Works("Answer")
  /\ LET d == Head(worker).dev
     IN IF conns[d] # None \/ active(state)
        THEN UNCHANGED conns /\ Succeeds
        ELSE \/ /\ forking
                /\ conns' = [conns EXCEPT ![d] = "ConnectingBeforeAccepted"]
                /\ Succeeds
             \/ forking /\ Fails /\ UNCHANGED conns
             \/ /\ ~forking
                /\ inject_event(Plain("InternalError"))
                /\ UNCHANGED <<conns, inputs>>
  /\ UNCHANGED <<state, activeDev, forking, didSend, offer, accepting, fsm,
                 notify, outcome, manager, direction, app>>

(* Candidates for a device without a connection are ignored once the call  *)
(* is accepted and connected, and an error before.                         *)
received_ice ==
  /\ Works("Ice")
  /\ IF offer # None \/ conns[Head(worker).dev] # None \/ active(state)
     THEN UNCHANGED events
     ELSE inject_event(Plain("InternalError"))
  /\ UNCHANGED <<state, activeDev, connections, fsm, notify, outcome, manager,
                 fixed>>

ActiveConnection == activeDev # None /\ conns[activeDev] # None

(* enable_media turns media on before it finds that there is no incoming   *)
(* stream, so a failure leaves it on.                                      *)
EnablesMedia ==
  /\ media' = media \cup {activeDev}
  /\ \/ heard' = heard \cup {"Accepted"} /\ Succeeds
     \/ Fails /\ UNCHANGED heard

NoConnection ==
  /\ inject_event(Plain("InternalError"))
  /\ UNCHANGED <<media, heard, inputs>>

accept_locally ==
  /\ Works("AcceptLocally")
  /\ accepting' = ActiveConnection
  /\ IF ActiveConnection THEN EnablesMedia ELSE NoConnection
  /\ UNCHANGED <<state, activeDev, forking, didSend, offer, conns, fsm, notify,
                 signalled, manager, direction, app>>

accept_remotely ==
  /\ Works("AcceptRemotely")
  /\ IF ActiveConnection THEN EnablesMedia ELSE NoConnection
  /\ UNCHANGED <<state, activeDev, connections, fsm, notify, signalled,
                 manager, direction, app>>

(* send_hangup_via_signaling_to_all, terminate_connections_except_accepted. *)
terminate_connections_except_accepted ==
  /\ Works("DropOthers")
  /\ signalled' = TRUE
  /\ conns' = [d \in Devices |-> IF d = Head(worker).dev THEN conns[d]
                                                        ELSE None]
  /\ UNCHANGED <<state, activeDev, forking, didSend, offer, accepting, events,
                 fsm, notify, media, heard, manager, fixed>>

(* CallManager::terminate_active_call and terminate_call, for this call:   *)
(* what ends it first tells the application and, if it sends a hangup,     *)
(* marks the call Terminating; the rest is left to the manager's worker.   *)
EndCall(hangup) ==
  IF managed
  THEN /\ managed' = FALSE
       /\ heard' = heard \cup {"Ended"}
       /\ terminator' = IF hangup THEN "hangup" ELSE "queued"
       /\ state' = IF hangup THEN "Terminating" ELSE state
       /\ IF hangup THEN inject_event(Plain("SendHangup"))
                    ELSE UNCHANGED events
  ELSE UNCHANGED <<managed, heard, terminator, state, events>>

should_send_hangup_on_failure ==
  direction = "Outgoing" \/ CallAccepted(state)

(* The active connection failed, or the last one; one of several that are  *)
(* still ringing is only dropped.                                          *)
handle_ice_failed ==
  /\ Works("IceFailed")
  /\ LET d == Head(worker).dev
         last == Cardinality({e \in Devices : conns[e] # None}) = 1
     IN CASE activeDev = d \/ (activeDev = None /\ last) ->
               /\ EndCall(should_send_hangup_on_failure)
               /\ UNCHANGED conns
          [] activeDev = None /\ ~last ->
               /\ conns' = [conns EXCEPT ![d] = None]
               /\ UNCHANGED <<managed, heard, terminator, state, events>>
          [] OTHER ->
               UNCHANGED <<conns, managed, heard, terminator, state, events>>
  /\ UNCHANGED <<activeDev, forking, didSend, offer, accepting, fsm, notify,
                 media, signalled, fixed>>

(* CallManager::remote_hangup, internal_error and timeout. *)
EndsCall ==
  /\ \/ Works("RemoteHangup") /\ EndCall(FALSE)
     \/ Works("InternalError") /\ EndCall(should_send_hangup_on_failure)
     \/ Works("Timeout") /\ EndCall(TRUE)
  /\ UNCHANGED <<activeDev, connections, fsm, notify, media, signalled, fixed>>

send_hangup_via_rtp_data_to_all ==
  /\ Works("HangUpAll")
  /\ conns' = HungUp(Devices)
  /\ UNCHANGED <<state, activeDev, forking, didSend, offer, accepting, events,
                 fsm, notify, outcome, manager, fixed>>

(* The notify actor. *)
NotifyStep ==
  /\ notify # <<>>
  /\ notify' = Tail(notify)
  /\ heard' = IF state = "Terminating" THEN heard
                                       ELSE heard \cup {Head(notify)}
  /\ UNCHANGED <<state, activeDev, connections, events, fsm, worker, media,
                 signalled, manager, fixed>>

-----------------------------------------------------------------------------
(* The call manager's worker.                                              *)

(* handle_hangup: the local user ends the call. *)
LocalHangup ==
  /\ managed /\ Input
  /\ EndCall(TRUE)
  /\ UNCHANGED <<activeDev, connections, fsm, queues, media, signalled,
                 direction, app>>

(* The task that terminate_call spawns: signal the hangup if the peer can  *)
(* know of the call, then Call::terminate.                                 *)
TerminateBegins ==
  /\ terminator \in {"queued", "hangup"}
  /\ signalled' = \/ signalled
                  \/ /\ terminator = "hangup"
                     /\ direction = "Incoming" \/ didSend
  /\ terminator' = "wait"
  /\ state' = "Terminating"
  /\ inject_event(Plain("Terminate"))
  /\ UNCHANGED <<activeDev, connections, fsm, queues, media, heard, managed,
                 fixed>>

(* Deviation: only the connections in the map are terminated. *)
TerminateKeepsParent ==
  /\ terminator = "wait" /\ Closed
  /\ terminator' = "done"
  /\ conns' = [d \in Devices |-> None]
  /\ media' = {}
  /\ state' = "Terminated"
  /\ UNCHANGED <<activeDev, forking, didSend, offer, accepting, events, fsm,
                 queues, heard, signalled, managed, fixed>>

(* terminate_connections, once the state machine has ended. *)
TerminateReturns ==
  /\ terminator = "wait" /\ Closed
  /\ terminator' = "done"
  /\ conns' = [d \in Devices |-> None]
  /\ forking' = FALSE
  /\ media' = {}
  /\ state' = "Terminated"
  /\ UNCHANGED <<activeDev, didSend, offer, accepting, events, fsm, queues,
                 heard, signalled, managed, fixed>>

-----------------------------------------------------------------------------
FsmHandle ==
  \/ DropEvent \/ handle_start_call \/ handle_proceed
  \/ handle_received_answer \/ handle_received_ice \/ handle_accept_call
  \/ handle_received_hangup \/ handle_connection_observer_event
  \/ handle_internal_error \/ handle_call_timeout
  \/ handle_send_hangup_via_rtp_data_to_all \/ handle_terminate

WorkerStep ==
  \/ SkipTask \/ proceed \/ received_answer \/ received_ice
  \/ accept_locally \/ accept_remotely
  \/ terminate_connections_except_accepted \/ handle_ice_failed
  \/ EndsCall \/ send_hangup_via_rtp_data_to_all

Next ==
  \/ AppProceeds \/ ReceivesSignal \/ AcceptsCall \/ TimerFires
  \/ ConnectionChanges \/ ConnectionAccepts \/ ConnectionReports
  \/ FsmReceive \/ FsmHandle \/ WorkerStep \/ NotifyStep
  \/ LocalHangup \/ TerminateBegins \/ TerminateReturns

Spec == Init /\ [][Next]_vars

(* RingRTC's own threads are scheduled; nothing is assumed of the peer,    *)
(* the user, ICE or the timer.                                             *)
Fairness ==
  /\ WF_vars(FsmReceive) /\ WF_vars(FsmHandle)
  /\ WF_vars(WorkerStep) /\ WF_vars(NotifyStep)
  /\ WF_vars(TerminateBegins) /\ WF_vars(TerminateReturns)

FairSpec == Spec /\ Fairness

-----------------------------------------------------------------------------
TypeOK ==
  /\ direction \in Directions /\ state \in CallState
  /\ activeDev \in Devices \cup {None} /\ offer \in Devices \cup {None}
  /\ conns \in [Devices -> ConnectionState \cup {None}]
  /\ fsm.pc \in {"recv", "handle", "exited"} /\ fsm.read \in CallState
  /\ \A i \in 1..Len(worker) :
       worker[i].kind \in UntilTerminating \cup EvenWhenTerminating
  /\ media \subseteq Devices
  /\ heard \subseteq {"Ringing", "Accepted", "Reconnect", "Ended"}
  /\ {forking, didSend, accepting, signalled, managed} \subseteq BOOLEAN
  /\ terminator \in {"idle", "queued", "hangup", "wait", "done"}

(* Media flows to and from one device at most, the active one, and only    *)
(* after the call was accepted: however the acceptances of several devices *)
(* race, no other device is ever listened to.  (TypeOK is a part of it.)   *)
MediaOnlyOnActive ==
  /\ TypeOK
  /\ media # {} => media = {activeDev} /\ (managed => CallAccepted(state)
                                                 \/ state = "Terminating")

(* Once a caller's call is accepted and the worker is done with it, no     *)
(* connection is left but the accepted one, for as long as the call is the *)
(* manager's: every answer that came before was hung up, every later one   *)
(* is refused.                                                             *)
OneDeviceRemains ==
  /\ managed /\ direction = "Outgoing" /\ CallAccepted(state)
  /\ fsm.pc = "recv" /\ worker = <<>>
  => \A d \in Devices : conns[d] # None => d = activeDev

(* A call that ended is torn down completely: its state machine stops, its *)
(* connections and the parent of its forks are terminated, no media flows. *)
EndedIsTornDown ==
  "Ended" \in heard ~>
    /\ state = "Terminated" /\ ~forking /\ media = {}
    /\ \A d \in Devices : conns[d] = None

(* "if a call is being remotely hungup, the user should always know"       *)
(* (call_fsm.rs): a hangup that the state machine does not ignore ends the *)
(* call, although it is the handler itself that made the call Terminating. *)
HangupEndsCall ==
  "RemoteHangup" \in {worker[i].kind : i \in 1..Len(worker)} ~>
    "Ended" \in heard

(* A call accepted and connected gets media, or ends.                      *)
AcceptedGetsMedia ==
  state = "ConnectedAndAccepted" ~> media # {} \/ "Ended" \in heard

(* "received_ice from device {} when already accepted, so ignore"          *)
(* (call.rs, received_ice): once the call is accepted, candidates of a     *)
(* device whose connection was dropped do no harm.                         *)
LateIceHarmless ==
  [][worker # <<>> /\ Head(worker).kind = "Ice" /\ worker' = Tail(worker)
       /\ CallAccepted(state) => events' = events]_vars

(* The devices of the peer are interchangeable. *)
Symmetry == Permutations(Devices)
=============================================================================
