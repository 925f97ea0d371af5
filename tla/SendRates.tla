----------------------------- MODULE SendRates ------------------------------
(***************************************************************************)
(* How fast the two ends of an accepted direct call may send               *)
(* (core/connection.rs).  Each end keeps a BandwidthController behind one  *)
(* lock and its peer connection behind another, and three threads take     *)
(* them: the application's (or the worker that acts for it), which changes *)
(* the data mode; the state machine's, which learns of a new network route *)
(* and of what the remote end asks for; and the timer's, which sends the   *)
(* accumulated RTP data message again.  RTP data may be lost and           *)
(* reordered.  Rates are small numbers in the order of the code's.         *)
(***************************************************************************)
EXTENDS Naturals, Sequences, FiniteSets, FiniteSetsExt

CONSTANTS
  Ends,                  \* the two ends of the call
  Modes,                 \* max_bitrate of the data modes
  Routes,                \* network routes: <<whether relayed, adapter>>
  MIN_SEND_RATE,
  RELAYED_MAX_SEND_RATE,
  None,
  MaxChanges,            \* bound on new modes and routes
  MaxSent                \* bound on the RTP data messages of one end

Threads == {"app", "fsm"}

VARIABLES
  bandwidth,   \* per end, the BandwidthController
  rate,        \* per end, what set_send_rates last got
  stats,       \* per end, the route the stats observer was given
  lock,        \* per end, who holds the bandwidth_controller and webrtc locks
  doing,       \* per end and thread, what it is doing
  message,     \* per end, the accumulated message: seqnum, receiver status
  last_sent,   \* per end, last_sent_rtp_data_timestamp
  network,     \* RTP data messages that may arrive
  last_received, \* per end, last_received_rtp_data_timestamp
  last_status, \* per end, last_remote_receiver_status
  events,      \* per end, what is queued for the state machine
  changes

locks == <<lock, doing>>
sending == <<message, last_sent, network>>
receiving == <<last_received, last_status>>
vars == <<bandwidth, rate, stats, locks, sending, receiving, events, changes>>

Other(e) == CHOOSE f \in Ends : f # e

Idle == [op |-> "idle"]

-----------------------------------------------------------------------------
(* Min of local, remote, and relay maxs, but can't go below MIN_SEND_RATE *)
relay_max(b) == IF b.network_route[1] THEN {RELAYED_MAX_SEND_RATE} ELSE {}

max_send_rate(b) ==
  Max({Min({b.local_mode, b.remote_max} \union relay_max(b)), MIN_SEND_RATE})

(* Both ends have negotiated: each knows the other's first data mode. *)
Init ==
  /\ \E m \in [Ends -> Modes] :
       bandwidth = [e \in Ends |-> [local_mode |-> m[e], remote_max |-> m[Other(e)],
                                    network_route |-> <<FALSE, 0>>]]
  /\ rate = [e \in Ends |-> max_send_rate(bandwidth[e])]
  /\ stats = [e \in Ends |-> None]
  /\ lock = [e \in Ends |-> [bandwidth |-> None, webrtc |-> None]]
  /\ doing = [e \in Ends |-> [t \in Threads |-> Idle]]
  /\ message = [e \in Ends |-> [seqnum |-> 0, status |-> None]]
  /\ last_sent = [e \in Ends |-> 0]
  /\ network = {}
  /\ last_received = [e \in Ends |-> 0]
  /\ last_status = [e \in Ends |-> [seqnum |-> 0, max |-> None]]
  /\ events = [e \in Ends |-> <<>>]
  /\ changes = 0

Free(e, l) == lock[e][l] = None

Take(e, t, l) == lock' = [lock EXCEPT ![e][l] = t]

Becomes(e, t, d) == doing' = [doing EXCEPT ![e][t] = d]

-----------------------------------------------------------------------------
(* send_via_rtp_data: every packet gets a timestamp of its own. *)
send_via_rtp_data(e, m) ==
  /\ last_sent[e] < MaxSent
  /\ last_sent' = [last_sent EXCEPT ![e] = @ + 1]
  /\ network' = network \union
       {[to |-> Other(e), timestamp |-> last_sent'[e], seqnum |-> m.seqnum,
         status |-> m.status]}

update_and_send_rtp_data_message(e, status) ==
  /\ message' = [message EXCEPT ![e] = [seqnum |-> @.seqnum + 1, status |-> status]]
  /\ send_via_rtp_data(e, message'[e])

(* tick: the timer sends the accumulated message again. *)
send_latest_rtp_data_message(e) ==
  /\ Free(e, "webrtc")
  /\ message[e].seqnum > 0
  /\ send_via_rtp_data(e, message[e])
  /\ UNCHANGED <<bandwidth, rate, stats, locks, message, receiving, events, changes>>

(* Another part of the message changes, say whether video is enabled. *)
update_sender_status_from_fsm(e) ==
  /\ Free(e, "webrtc")
  /\ changes < MaxChanges
  /\ changes' = changes + 1
  /\ update_and_send_rtp_data_message(e, message[e].status)
  /\ UNCHANGED <<bandwidth, rate, stats, locks, receiving, events>>

-----------------------------------------------------------------------------
(* update_bandwidth_controller: with the first lock, the closure; when it  *)
(* changed something, apply_bandwidth_controller with the second as well.  *)
Updated(b, field, v) == [b EXCEPT ![field] = v]

After(d) == IF d.field = "local_mode" THEN [op |-> "announce", value |-> d.value] ELSE Idle

(* A form that stores what the remote end asks for and does not apply it. *)
update_bandwidth_controller_stores(e, t) ==
  LET d == doing[e][t] IN
  /\ d.op = "update"
  /\ Free(e, "bandwidth")
  /\ bandwidth' = [bandwidth EXCEPT ![e] = Updated(@, d.field, d.value)]
  /\ Becomes(e, t, IF d.field = "local_mode" THEN [d EXCEPT !.op = "apply"] ELSE Idle)
  /\ UNCHANGED <<rate, stats, lock, sending, receiving, events, changes>>

update_bandwidth_controller(e, t) ==
  LET d == doing[e][t] IN
  /\ d.op = "update"
  /\ Free(e, "bandwidth")
  /\ \/ /\ bandwidth[e][d.field] = d.value
        /\ Becomes(e, t, Idle)
        /\ UNCHANGED <<bandwidth, lock>>
     \/ /\ bandwidth[e][d.field] # d.value
        /\ bandwidth' = [bandwidth EXCEPT ![e] = Updated(@, d.field, d.value)]
        /\ Take(e, t, "bandwidth")
        /\ Becomes(e, t, [d EXCEPT !.op = "apply"])
  /\ UNCHANGED <<rate, stats, sending, receiving, events, changes>>

apply_bandwidth_controller(e, t) ==
  LET d == doing[e][t] IN
  /\ d.op = "apply"
  /\ Free(e, "webrtc")
  /\ rate' = [rate EXCEPT ![e] = max_send_rate(bandwidth[e])]
  /\ Take(e, None, "bandwidth")
  /\ Becomes(e, t, After(d))
  /\ UNCHANGED <<bandwidth, stats, sending, receiving, events, changes>>

-----------------------------------------------------------------------------
(* The application's thread: update_data_mode, then the receiver status. *)
update_data_mode(e) ==
  /\ doing[e]["app"] = Idle
  /\ changes < MaxChanges
  /\ changes' = changes + 1
  /\ \E m \in Modes : Becomes(e, "app", [op |-> "update", field |-> "local_mode", value |-> m])
  /\ UNCHANGED <<bandwidth, rate, stats, lock, sending, receiving, events>>

announce(e) ==
  /\ doing[e]["app"].op = "announce"
  /\ Free(e, "webrtc")
  /\ update_and_send_rtp_data_message(e, doing[e]["app"].value)
  /\ Becomes(e, "app", Idle)
  /\ UNCHANGED <<bandwidth, rate, stats, lock, receiving, events, changes>>

-----------------------------------------------------------------------------
(* The state machine's thread.  set_network_route compares the routes with *)
(* the webrtc lock held: network_route() takes the other lock inside it.   *)
handle_ice_network_route_changed(e) ==
  /\ changes < MaxChanges
  /\ changes' = changes + 1
  /\ \E r \in Routes : events' = [events EXCEPT ![e] = Append(@, [route |-> r])]
  /\ UNCHANGED <<bandwidth, rate, stats, locks, sending, receiving>>

set_network_route(e) ==
  /\ doing[e]["fsm"].op = "route"
  /\ Free(e, "webrtc")
  /\ Take(e, "fsm", "webrtc")
  /\ Becomes(e, "fsm", [doing[e]["fsm"] EXCEPT !.op = "compare"])
  /\ UNCHANGED <<bandwidth, rate, stats, sending, receiving, events, changes>>

network_route(e) ==
  LET d == doing[e]["fsm"] IN
  /\ d.op = "compare"
  /\ Free(e, "bandwidth")
  /\ stats' = [stats EXCEPT ![e] =
                 IF bandwidth[e].network_route[1] # d.value[1] THEN d.value ELSE @]
  /\ Take(e, None, "webrtc")
  /\ Becomes(e, "fsm", [op |-> "update", field |-> "network_route", value |-> d.value])
  /\ UNCHANGED <<bandwidth, rate, sending, receiving, events, changes>>

(* A status with a seqnum that is not newer is ignored, an equal rate       *)
(* changes nothing.                                                        *)
IsNew(e, s) == s.seqnum > last_status[e].seqnum

handle_received_receiver_status_via_rtp_data(e, s) ==
  /\ last_status' = [last_status EXCEPT ![e] = IF IsNew(e, s) THEN s ELSE @]
  /\ Becomes(e, "fsm",
       IF IsNew(e, s) /\ s.max # last_status[e].max
       THEN [op |-> "update", field |-> "remote_max", value |-> s.max] ELSE Idle)

HandleEvent(e) ==
  /\ doing[e]["fsm"] = Idle
  /\ events[e] # <<>>
  /\ events' = [events EXCEPT ![e] = Tail(@)]
  /\ IF "route" \in DOMAIN Head(events[e])
     THEN /\ Becomes(e, "fsm", [op |-> "route", value |-> Head(events[e]).route])
          /\ UNCHANGED last_status
     ELSE handle_received_receiver_status_via_rtp_data(e, Head(events[e]))
  /\ UNCHANGED <<bandwidth, rate, stats, lock, sending, last_received, changes>>

(* handle_rtp_received: the network thread drops what is older than the    *)
(* newest packet; a message without a receiver status injects nothing.     *)
handle_rtp_received(e) ==
  \E p \in network :
    /\ p.to = e
    /\ p.timestamp >= last_received[e]
    /\ last_received' = [last_received EXCEPT ![e] = p.timestamp]
    /\ events' = [events EXCEPT ![e] = IF p.status = None THEN @
                    ELSE Append(@, [seqnum |-> p.seqnum, max |-> p.status])]
    /\ network' = {q \in network : q.to # e \/ q.timestamp >= p.timestamp} \ {p}
    /\ UNCHANGED <<bandwidth, rate, stats, locks, message, last_sent, last_status, changes>>

Next ==
  \E e \in Ends :
    \/ send_latest_rtp_data_message(e)
    \/ update_sender_status_from_fsm(e)
    \/ \E t \in Threads : update_bandwidth_controller(e, t)
    \/ \E t \in Threads : apply_bandwidth_controller(e, t)
    \/ update_data_mode(e)
    \/ announce(e)
    \/ handle_ice_network_route_changed(e)
    \/ set_network_route(e)
    \/ network_route(e)
    \/ HandleEvent(e)
    \/ handle_rtp_received(e)

Spec == Init /\ [][Next]_vars

-----------------------------------------------------------------------------
TypeOK ==
  /\ bandwidth \in [Ends -> [local_mode : Modes, remote_max : Modes,
                             network_route : Routes \union {<<FALSE, 0>>}]]
  /\ lock \in [Ends -> [bandwidth : Threads \union {None}, webrtc : Threads \union {None}]]
  /\ last_sent \in [Ends -> 0..MaxSent]

(* What each end last told the other: its first data mode before any       *)
(* message, then that of its accumulated message.                          *)
Handled(e) ==
  /\ last_received[e] = last_sent[Other(e)]
  /\ events[e] = <<>>
  /\ doing[e]["fsm"] = Idle

(* Once an end has handled the newest message of the other, and no thread  *)
(* is between a change and its effect, its peer connection is limited to   *)
(* the least of its own data mode, the other's and what a relay allows,    *)
(* whatever changed at once on both ends and however messages were         *)
(* reordered: see max_send_rate and update_bandwidth_controller.           *)
RateHonoursBothEnds ==
  \A e \in Ends :
    (Handled(e) /\ doing[e]["app"].op # "apply") =>
      rate[e] = max_send_rate(
        [bandwidth[e] EXCEPT !.remote_max =
           IF message[Other(e)].status = None THEN @ ELSE message[Other(e)].status])

=============================================================================
