----------------------------- MODULE RemoteMute -----------------------------
(***************************************************************************)
(* Muting another device of a group call, and telling the user who muted   *)
(* whom (core/group_call.rs).  A request goes to every device through the  *)
(* SFU; the target's application obeys it; the target's next heartbeat     *)
(* names the requester; and whoever saw both the request and the heartbeat *)
(* reports the mute.  RTP data get lost and overtake each other.           *)
(*                                                                         *)
(* Modelled are one target and one device that watches it (and may itself  *)
(* ask); both run the same code.  The watcher's list of devices comes from *)
(* peeks, so that a stale one may drop the target and forget its state.    *)
(***************************************************************************)
EXTENDS Naturals, FiniteSets

CONSTANTS
  Watcher,     \* the device that watches
  Others,      \* further devices that ask the target to mute
  MaxInputs    \* bound on requests, on what users and peeks do, and on losses

Requesters == Others \cup {Watcher}
NoOne == "none"
Unknown == "unknown"       \* audio_muted is None

VARIABLES
  target,      \* the target's outgoing_heartbeat_state and mute_request
  told,        \* requesters its application was told of and has yet to obey
  device,      \* the watcher's RemoteDeviceState of the target
  heartbeats,  \* heartbeats on their way to the watcher
  asks,        \* requests on their way, with the device they go to
  mutes,       \* history: how often each requester muted the target
  reports,     \* history: mutes reported since the device was added
  inputs

vars == <<target, told, device, heartbeats, asks, mutes, reports, inputs>>

(* A device that is added is RemoteDeviceState::new. *)
NewDevice == [known |-> TRUE, muted |-> Unknown, by |-> NoOne, timestamp |-> 0, requesters |-> {}]

Init ==
  /\ target = [muted |-> Unknown, by |-> NoOne, request |-> NoOne, timestamp |-> 1]
  /\ told = {}
  /\ device = NewDevice
  /\ heartbeats = {} /\ asks = {}
  /\ mutes = [q \in Requesters |-> 0] /\ reports = [q \in Requesters |-> 0]
  /\ inputs = 0

Input == inputs < MaxInputs /\ inputs' = inputs + 1

(***************************************************************************)
(* The target.                                                             *)
(***************************************************************************)

(* Every heartbeat has a timestamp of its own, the count of messages. *)
send_heartbeat(t) ==
  heartbeats' = heartbeats \cup {[muted |-> t.muted, by |-> t.by, timestamp |-> t.timestamp]}

(* Deviation: the attribution is taken also by a device that was muted. *)
set_outgoing_audio_muted_always(muted, by) ==
  LET t == [target EXCEPT !.muted = muted, !.by = by]
  IN /\ target' = [t EXCEPT !.timestamp = @ + 1]
     /\ send_heartbeat(t)
     /\ mutes' = IF muted = "yes" /\ by # NoOne /\ target.muted # "yes"
                 THEN [mutes EXCEPT ![by] = @ + 1] ELSE mutes

(* Whoever mutes an unmuted device is named; a device that was muted keeps *)
(* the name, and unmuting clears it.                                       *)
set_outgoing_audio_muted_inner(muted, by) ==
  LET name == CASE muted = "no" -> NoOne
                [] muted = "yes" /\ target.muted = "yes" -> target.by
                [] OTHER -> by
      t == [target EXCEPT !.muted = muted, !.by = name]
  IN /\ target' = [t EXCEPT !.timestamp = @ + 1]
     /\ send_heartbeat(t)
     /\ mutes' = IF muted = "yes" /\ by # NoOne /\ target.muted # "yes"
                 THEN [mutes EXCEPT ![by] = @ + 1] ELSE mutes

set_outgoing_audio_muted(muted) ==
  /\ set_outgoing_audio_muted_inner(muted, NoOne)
  /\ Input /\ UNCHANGED <<told, device, asks, reports>>

set_outgoing_audio_muted_remotely(source) ==
  /\ source \in told /\ told' = told \ {source}
  /\ set_outgoing_audio_muted_inner("yes", source)
  /\ UNCHANGED <<device, asks, reports, inputs>>

(* Only the first request between two ticks counts. *)
TargetAsked(source) ==
  /\ <<source, "target">> \in asks /\ asks' = asks \ {<<source, "target">>}
  /\ target' = [target EXCEPT !.request = IF @ = NoOne THEN source ELSE @]
  /\ UNCHANGED <<told, device, heartbeats, mutes, reports, inputs>>

(* tick() of the target: the application is told of the request, and a     *)
(* heartbeat is due or not.                                                *)
tick(beats) ==
  /\ target.request # NoOne \/ beats
  /\ IF beats THEN Input ELSE UNCHANGED inputs
  /\ told' = told \cup ({target.request} \ {NoOne})
  /\ target' = [target EXCEPT !.request = NoOne, !.timestamp = IF beats THEN @ + 1 ELSE @]
  /\ IF beats THEN send_heartbeat(target) ELSE UNCHANGED heartbeats
  /\ UNCHANGED <<device, asks, mutes, reports>>

(***************************************************************************)
(* The watcher.                                                            *)
(***************************************************************************)

(* Sent to all; what the sender itself sees of it is noted at once, if the *)
(* target is known to be unmuted.                                          *)
send_remote_mute_request(source) ==
  /\ asks' = asks \cup ({source} \X (IF source = Watcher THEN {"target"}
                                                         ELSE {"target", "watcher"}))
  /\ device' = IF source = Watcher /\ device.known /\ device.muted = "no"
               THEN [device EXCEPT !.requesters = @ \cup {source}] ELSE device
  /\ Input /\ UNCHANGED <<target, told, heartbeats, mutes, reports>>

(* A request of another device is noted unless the target is known to be   *)
(* muted.                                                                  *)
handle_remote_mute_request(source) ==
  /\ <<source, "watcher">> \in asks /\ asks' = asks \ {<<source, "watcher">>}
  /\ device' = IF device.known /\ device.muted # "yes"
               THEN [device EXCEPT !.requesters = @ \cup {source}] ELSE device
  /\ UNCHANGED <<target, told, heartbeats, mutes, reports, inputs>>

(* Deviation: the age of a heartbeat is not looked at. *)
IsNewerAlways(h) == TRUE

IsNewer(h) == h.timestamp > device.timestamp

(* A mute is reported if the device was unmuted before, the heartbeat      *)
(* names someone else than before, and that one's request was seen.        *)
IsReported(h) ==
  /\ h.muted = "yes" /\ device.muted = "no"
  /\ h.by # device.by /\ h.by \in device.requesters

handle_heartbeat_received(h) ==
  /\ heartbeats' = heartbeats \ {h}
  /\ IF device.known /\ IsNewer(h)
     THEN /\ device' = [device EXCEPT
                          !.timestamp = h.timestamp, !.muted = h.muted, !.by = h.by,
                          !.requesters = IF h.muted = "no" /\ device.muted # "no"
                                         THEN {} ELSE @]
          /\ reports' = IF IsReported(h) THEN [reports EXCEPT ![h.by] = @ + 1] ELSE reports
     ELSE UNCHANGED <<device, reports>>
  /\ UNCHANGED <<target, told, asks, mutes, inputs>>

(* A peek without the target, then one with it. *)
PeekDrops ==
  /\ device.known /\ device' = [device EXCEPT !.known = FALSE]
  /\ Input /\ UNCHANGED <<target, told, heartbeats, asks, mutes, reports>>

PeekAdds ==
  /\ ~device.known /\ device' = NewDevice
  /\ reports' = [q \in Requesters |-> 0]
  /\ UNCHANGED <<target, told, heartbeats, asks, mutes, inputs>>

Lost ==
  /\ \/ \E h \in heartbeats : heartbeats' = heartbeats \ {h} /\ UNCHANGED asks
     \/ \E a \in asks : asks' = asks \ {a} /\ UNCHANGED heartbeats
  /\ Input /\ UNCHANGED <<target, told, device, mutes, reports>>

Next ==
  \/ \E muted \in {"yes", "no"} : set_outgoing_audio_muted(muted)
  \/ \E q \in Requesters :
       \/ set_outgoing_audio_muted_remotely(q) \/ TargetAsked(q)
       \/ send_remote_mute_request(q) \/ handle_remote_mute_request(q)
  \/ \E beats \in BOOLEAN : tick(beats)
  \/ \E h \in heartbeats : handle_heartbeat_received(h)
  \/ PeekDrops \/ PeekAdds \/ Lost

Spec == Init /\ [][Next]_vars

-----------------------------------------------------------------------------

(* A mute that is reported happened: the watcher reports no more mutes by  *)
(* one device than that device achieved, whatever heartbeats are late,     *)
(* lost or repeated and however often the target's state was forgotten.    *)
MutesReportedOnce == \A q \in Requesters : reports[q] <= mutes[q]

(* The name in the watcher's view is that of a device which really muted   *)
(* the target, and only with the mute.                                     *)
AttributionIsTrue ==
  device.by # NoOne => device.muted = "yes" /\ mutes[device.by] > 0
=============================================================================
