------------------------------ MODULE GroupTracks ------------------------------
(***************************************************************************)
(* How the devices of a group call get their video.  Every peek of the     *)
(* conference rewrites the client's list of remote devices; each device    *)
(* owns one transceiver of the peer connection, a slot that is freed when  *)
(* the device goes and handed to the next one that comes; WebRTC announces *)
(* a video track only when a transceiver starts to receive; the client's   *)
(* actor passes the track on, and the app keeps it with the device it      *)
(* belongs to.  The peek is handled in three steps (removals negotiated,   *)
(* additions negotiated, the app told) because other threads queue tasks   *)
(* for the actor while WebRTC is at work.                                  *)
(***************************************************************************)
EXTENDS Naturals, Sequences, SequencesExt, FiniteSets

CONSTANTS
    Ids,          \* the demux ids the SFU gives to remote devices
    None,         \* an empty slot (0 in the descriptions)
    MaxPeeks,     \* bound on the peeks that arrive
    MaxFailures   \* bound on the peer connection's failures

VARIABLES
    platform,     \* "android": the app runs in the actor's thread; "ios": on its main actor
    phase,        \* "connecting", "joined" or "ended"
    last,         \* last_peek_info: <<>> or <<ids>>
    devices,      \* remote_devices, by demux id
    slots,        \* remote_transceiver_demux_ids
    transceivers, \* what the peer connection last negotiated, slot by slot
    handler,      \* where set_peek_result_inner stands
    actor,        \* the tasks queued for the client's actor
    main,         \* the calls queued for iOS's main actor
    app,          \* the app's device states: demux id -> slot of its track, or 0
    peeks,
    failures

vars == <<platform, phase, last, devices, slots, transceivers, handler, actor,
          main, app, peeks, failures>>

Idle == [step |-> "idle"]

TypeOK ==
    /\ phase \in {"connecting", "joined", "ended"}
    /\ last \in {<<>>} \union {<<s>> : s \in SUBSET Ids}
    /\ devices \subseteq Ids
    /\ slots \in Seq(Ids \union {None})
    /\ transceivers \in Seq([id : Ids \union {None}, receiving : BOOLEAN])
    /\ handler.step \in {"idle", "add", "tell"}
    /\ DOMAIN app \subseteq Ids
    /\ \A d \in DOMAIN app : app[d] \in Nat

-----------------------------------------------------------------------------
(* The peer connection, and what the app is told.                            *)

\* the peer connection has a transceiver for every slot; a new one is inactive
update_transceivers(ids) ==
    [i \in DOMAIN ids |-> IF i <= Len(transceivers) THEN transceivers[i]
                           ELSE [id |-> None, receiving |-> FALSE]]

\* the SFU's description: a section for every slot, inactive where the id is 0
remote_for_group_call(ids) ==
    [i \in DOMAIN ids |-> [id |-> ids[i], receiving |-> ids[i] # None]]

\* WebRTC announces the receivers that start to receive, and only those
OnTrack(before, after) ==
    SelectSeq([i \in DOMAIN after |-> [type |-> "track", id |-> after[i].id, slot |-> i]],
              LAMBDA t : ~before[t.slot].receiving /\ after[t.slot].receiving)

\* every receiver announced with a demux id becomes a task of the actor
handle_incoming_video_added(queue, receivers) ==
    queue \o SelectSeq(receivers, LAMBDA t : t.id # None)

\* update_transceivers, the offer made for its side effect, and the two
\* descriptions
set_peer_connection_descriptions(ids, queue) ==
    /\ transceivers' = remote_for_group_call(ids)
    /\ actor' = handle_incoming_video_added(queue,
                   OnTrack(update_transceivers(ids), remote_for_group_call(ids)))
    /\ UNCHANGED <<phase, failures>>

\* one of those fails, and the handler ends the call
end ==
    /\ failures < MaxFailures
    /\ failures' = failures + 1
    /\ phase' = "ended"
    /\ handler' = Idle
    /\ UNCHANGED <<transceivers, actor>>

\* the app keeps the track of a device it already knows
handleRemoteDevicesChanged(ids) ==
    app' = [d \in ids |-> IF d \in DOMAIN app THEN app[d] ELSE 0]

\* a track of a device the app does not know is dropped
handleIncomingVideoTrack(id, slot) ==
    app' = IF id \in DOMAIN app THEN [app EXCEPT ![id] = slot] ELSE app

\* Android's callback runs at once, iOS's when its main actor comes to it
android_handle_remote_devices_changed(ids) ==
    /\ platform = "android"
    /\ handleRemoteDevicesChanged(ids)
    /\ UNCHANGED main

ios_handle_remote_devices_changed(ids) ==
    /\ platform = "ios"
    /\ main' = Append(main, [type |-> "devices", ids |-> ids])
    /\ UNCHANGED app

handle_remote_devices_changed(ids) ==
    \/ android_handle_remote_devices_changed(ids)
    \/ ios_handle_remote_devices_changed(ids)

android_handle_incoming_video_track(track) ==
    /\ platform = "android"
    /\ handleIncomingVideoTrack(track.id, track.slot)
    /\ UNCHANGED main

ios_handle_incoming_video_track(track) ==
    /\ platform = "ios"
    /\ main' = Append(main, track)
    /\ UNCHANGED app

handle_incoming_video_track(track) ==
    \/ android_handle_incoming_video_track(track)
    \/ ios_handle_incoming_video_track(track)

-----------------------------------------------------------------------------
(* set_peek_result_inner                                                     *)

Cleared(ids) ==
    [i \in DOMAIN slots |-> IF slots[i] \in ids THEN slots[i] ELSE None]

NegotiatesOnce(ids) == Cleared(ids) # slots /\ ids \ devices = {}

\* the removals are negotiated even though additions may follow
RemovalsApart(ids) == Cleared(ids) # slots

\* the empty slots take the added ids in turn, and new slots the rest
Filled(added) ==
    LET rank(i) == Cardinality({j \in 1..i : slots[j] = None})
        empty == rank(Len(slots))
    IN  [i \in DOMAIN slots |->
            IF slots[i] # None THEN slots[i]
            ELSE IF rank(i) <= Len(added) THEN added[rank(i)] ELSE None]
        \o SubSeq(added, empty + 1, Len(added))

ThenAdds(ids) ==
    handler' = [step |-> IF ids \subseteq devices THEN "tell" ELSE "add",
                added |-> ids \ devices]

ApplyPeek(ids, queue) ==
    /\ last' = <<ids>>
    /\ devices' = ids
    /\ IF ids = devices
       THEN /\ handler' = Idle
            /\ actor' = queue
            /\ UNCHANGED <<phase, slots, transceivers, failures>>
       ELSE /\ slots' = Cleared(ids)
            /\ \/ /\ RemovalsApart(ids)
                  /\ ThenAdds(ids)
                  /\ set_peer_connection_descriptions(Cleared(ids), queue)
               \/ RemovalsApart(ids) /\ end
               \/ /\ ~RemovalsApart(ids)
                  /\ ThenAdds(ids)
                  /\ actor' = queue
                  /\ UNCHANGED <<phase, transceivers, failures>>

\* the second negotiation of a peek, in the order the hash set yields the ids
Adds ==
    /\ handler.step = "add"
    /\ \E order \in SetToSeqs(handler.added) :
        /\ slots' = Filled(order)
        /\ \/ /\ set_peer_connection_descriptions(Filled(order), actor)
              /\ handler' = [handler EXCEPT !.step = "tell"]
           \/ end
    /\ UNCHANGED <<platform, last, devices, main, app, peeks>>

Tells ==
    /\ handler.step = "tell"
    /\ handler' = Idle
    /\ handle_remote_devices_changed(devices)
    /\ UNCHANGED <<platform, phase, last, devices, slots, transceivers, actor,
                   peeks, failures>>

-----------------------------------------------------------------------------
Init ==
    /\ platform \in {"android", "ios"}
    /\ phase = "connecting"
    /\ last = <<>>
    /\ devices = {}
    /\ slots = <<>>
    /\ transceivers = <<>>
    /\ handler = Idle
    /\ actor = <<>>
    /\ main = <<>>
    /\ app = [d \in {} |-> 0]
    /\ peeks = 0
    /\ failures = 0

\* a peek's answer, from the HTTP client's thread
PeekArrives ==
    /\ peeks < MaxPeeks
    /\ phase # "ended"
    /\ peeks' = peeks + 1
    /\ \E ids \in SUBSET Ids : actor' = Append(actor, [type |-> "peek", ids |-> ids])
    /\ UNCHANGED <<platform, phase, last, devices, slots, transceivers, handler,
                   main, app, failures>>

\* the descriptions without remote devices, and the SFU's addresses; the peek
\* seen before joining is then applied as if it had just come
start_peer_connection ==
    /\ phase = "connecting"
    /\ handler = Idle
    /\ \/ /\ phase' = "joined"
          /\ devices' = IF last = <<>> THEN {} ELSE last[1]
          /\ handler' = IF devices' = {} THEN Idle
                        ELSE [step |-> "add", added |-> devices']
          /\ UNCHANGED <<transceivers, actor, failures>>
       \/ end /\ UNCHANGED devices
    /\ UNCHANGED <<platform, last, slots, main, app, peeks>>

\* the actor's next task: a peek, or a track to pass on
ActorRuns ==
    /\ handler = Idle
    /\ phase # "ended"
    /\ actor # <<>>
    /\ \/ /\ Head(actor).type = "peek"
          /\ phase = "joined"
          /\ ApplyPeek(Head(actor).ids, Tail(actor))
          /\ UNCHANGED <<platform, main, app, peeks>>
       \/ /\ Head(actor).type = "peek"
          /\ phase = "connecting"
          /\ last' = <<Head(actor).ids>>
          /\ actor' = Tail(actor)
          /\ UNCHANGED <<platform, phase, devices, slots, transceivers, handler,
                         main, app, peeks, failures>>
       \/ /\ Head(actor).type = "track"
          /\ handle_incoming_video_track(Head(actor))
          /\ actor' = Tail(actor)
          /\ UNCHANGED <<platform, phase, last, devices, slots, transceivers,
                         handler, peeks, failures>>

MainActorRuns ==
    /\ main # <<>>
    /\ LET call == Head(main) IN
       \/ call.type = "devices" /\ handleRemoteDevicesChanged(call.ids)
       \/ call.type = "track" /\ handleIncomingVideoTrack(call.id, call.slot)
    /\ main' = Tail(main)
    /\ UNCHANGED <<platform, phase, last, devices, slots, transceivers, handler,
                   actor, peeks, failures>>

Next ==
    \/ PeekArrives
    \/ start_peer_connection
    \/ ActorRuns
    \/ Adds
    \/ Tells
    \/ MainActorRuns

Spec == Init /\ [][Next]_vars

-----------------------------------------------------------------------------
\* Once the tracks announced so far have been passed on, the app shows exactly
\* the devices of the last peek, and each has the track of the transceiver that
\* was negotiated for it, whatever order devices came, went and came back in
\* (set_peek_result_inner negotiates removals apart from additions for this).
EveryDeviceGetsItsTrack ==
    (/\ phase = "joined"
     /\ handler = Idle
     /\ main = <<>>
     /\ \A i \in DOMAIN actor : actor[i].type = "peek") =>
        /\ DOMAIN app = devices
        /\ \A d \in devices : app[d] # 0 /\ transceivers[app[d]].id = d

=============================================================================
