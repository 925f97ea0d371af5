---------------------------- MODULE AppSignaling ----------------------------
(***************************************************************************)
(* Signaling across the language boundary.  A core hands an outgoing       *)
(* message to its platform, which converts it for the library in Java,     *)
(* Swift or JavaScript; the library calls the application, which sends it  *)
(* with the Signal service; the receiving application converts it back and *)
(* gives it to its library and that to its core, one of three platforms on *)
(* either side.  Devices are pairs <<user, device id>>.  Call ids have     *)
(* Width bits and Java sees them signed.                                   *)
(*                                                                         *)
(* A message of the core: kind, peer (the user it is for), id, and "to",   *)
(* a device id or All, with a body that depends on the kind.  A message of *)
(* the platform: the same with the flag broadcast and a receiver.  A       *)
(* message of the application: with "dest", a device id or None for all.   *)
(***************************************************************************)
EXTENDS Integers, Sequences, SequencesExt

CONSTANTS
    Devices,    \* <<user, device id>>
    Width,      \* bits of a call id (64 in the code)
    CallIds,    \* ids calls are given
    Opaques,    \* serialised descriptions and candidates
    All,        \* the message is for every device of the user
    None,       \* Option::None, null
    MaxSent

VARIABLES
    platform,   \* device -> the platform it runs
    listening,  \* the devices whose application has set its delegate or handlers
    log,        \* messages the cores sent, with what their applications got
    delivered,  \* <<i, d>>: the application of d was given log[i]
    received    \* what the cores were given: [of, at, got]

vars == <<platform, listening, log, delivered, received>>

Platforms == {"android", "ios", "electron"}

Users == {d[1] : d \in Devices}

--------------------------------------------------------------------------
(* The types both sides agree on. *)

CallMediaTypes == <<"Audio", "Video">>

CallMediaType_from_i32(i) == CallMediaTypes[i + 1]

HangupTypes == <<"Normal", "AcceptedOnAnotherDevice", "DeclinedOnAnotherDevice",
                 "BusyOnAnotherDevice", "NeedPermission">>

HangupType_from_i32(i) ==
    IF i \in 0..4 THEN HangupTypes[i + 1] ELSE "Normal"

Urgencies == <<"Droppable", "HandleImmediately">>

AsInt(names, x) == (CHOOSE i \in DOMAIN names : names[i] = x) - 1

Hangup ==
    {[type |-> "Normal", device |-> None]}
    \union [type : {HangupTypes[i] : i \in 2..4}, device : {d[2] : d \in Devices}]
    \union [type : {"NeedPermission"}, device : {d[2] : d \in Devices} \union {None}]

unwrap_or_0(device) == IF device = None THEN 0 ELSE device

from_type_and_device_id(typ, device) ==
    [type |-> typ, device |-> IF typ = "Normal" THEN None ELSE device]

(* An ICE candidate travels as one opaque value: a candidate that was      *)
(* added, or the address of one that was removed with a candidate that     *)
(* older clients can parse and that pairs with nothing.                    *)
from_v3_sdp(sdp) == [added |-> sdp, removed |-> None]

from_removed_address(addr) == [added |-> "FAKE", removed |-> addr]

Ice == {<<from_v3_sdp(o)>> : o \in Opaques}
       \union {<<from_v3_sdp(o), from_removed_address(o)>> : o \in Opaques}

--------------------------------------------------------------------------
(* What a core sends: the callee answers one device, offers, hangups and   *)
(* busy messages are for all, candidates for one device or for all.        *)

SendMessages(u) ==
    [kind : {"offer"}, peer : {u}, id : CallIds, to : {All},
     body : [opaque : Opaques, media : {"Audio", "Video"}]]
    \union [kind : {"answer"}, peer : {u}, id : CallIds, to : {d[2] : d \in Devices},
            body : [opaque : Opaques]]
    \union [kind : {"ice"}, peer : {u}, id : CallIds,
            to : {d[2] : d \in Devices} \union {All}, body : Ice]
    \union [kind : {"hangup"}, peer : {u}, id : CallIds, to : {All}, body : Hangup]
    \union [kind : {"busy"}, peer : {u}, id : CallIds, to : {All}, body : {None}]

(* Call messages are for one user, for a group or the members of it that   *)
(* are named, or for the users of an ad hoc group with their endorsements. *)
CallMessages(u) ==
    [kind : {"message"}, peer : {u}, urgency : {Urgencies[1], Urgencies[2]}, body : Opaques]
    \union [kind : {"group"}, urgency : {Urgencies[1], Urgencies[2]},
            body : [message : Opaques, override : {{}, {u}}]]
    \union [kind : {"adhoc"}, urgency : {Urgencies[1], Urgencies[2]},
            body : [message : Opaques, endorsed : {[x \in {u} |-> o] : o \in Opaques}
                                                  \union {[x \in Users |-> x]}]]

--------------------------------------------------------------------------
(* Sending.  PlatformMessage is what an onSend... callback is called with. *)

PlatformMessage(m, id, broadcast, receiver, body) ==
    [kind |-> m.kind, peer |-> m.peer, id |-> id, broadcast |-> broadcast,
     receiver |-> receiver, body |-> body]

Broadcast(m, id, body) == PlatformMessage(m, id, TRUE, 0, body)

jlong(id) == IF id >= 2^(Width - 1) THEN id - 2^Width ELSE id

android_on_send_offer(m) ==
    Broadcast(m, jlong(m.id), [opaque |-> m.body.opaque,
                               media |-> AsInt(CallMediaTypes, m.body.media)])

android_on_send_answer(m) == PlatformMessage(m, jlong(m.id), FALSE, m.to, m.body)

android_on_send_ice_drops_receiver(m) == Broadcast(m, jlong(m.id), m.body)

android_on_send_ice(m) ==
    IF m.to = All THEN Broadcast(m, jlong(m.id), m.body)
                  ELSE PlatformMessage(m, jlong(m.id), FALSE, m.to, m.body)

android_on_send_hangup(m) ==
    Broadcast(m, jlong(m.id), <<AsInt(HangupTypes, m.body.type), unwrap_or_0(m.body.device)>>)

android_on_send_busy(m) == Broadcast(m, jlong(m.id), None)

ios_on_send_offer(m) ==
    Broadcast(m, m.id, [opaque |-> m.body.opaque,
                        media |-> AsInt(CallMediaTypes, m.body.media)])

ios_on_send_answer(m) == PlatformMessage(m, m.id, FALSE, m.to, m.body)

ios_on_send_ice(m) ==
    IF m.to = All THEN Broadcast(m, m.id, m.body)
                  ELSE PlatformMessage(m, m.id, FALSE, m.to, m.body)

ios_on_send_hangup(m) ==
    Broadcast(m, m.id, <<AsInt(HangupTypes, m.body.type), unwrap_or_0(m.body.device)>>)

ios_on_send_busy(m) == Broadcast(m, m.id, None)

(* The native platform keeps an optional receiver and the event loop of    *)
(* electron.rs turns it into a flag and a number.                          *)
native_on_send_offer(m) == [m EXCEPT !.to = None]

native_on_send_answer(m) == m

native_on_send_ice(m) == [m EXCEPT !.to = IF m.to = All THEN None ELSE m.to]

native_on_send_hangup(m) == [m EXCEPT !.to = None]

native_on_send_busy(m) == [m EXCEPT !.to = None]

electron_SendSignaling(m) ==
    PlatformMessage(m, m.id, m.to = None, unwrap_or_0(m.to),
        CASE m.kind = "offer"  -> [opaque |-> m.body.opaque,
                                   media |-> AsInt(CallMediaTypes, m.body.media)]
          [] m.kind = "hangup" -> <<AsInt(HangupTypes, m.body.type), m.body.device>>
          [] OTHER -> m.body)

on_send(p, m) ==
    CASE p = "android" /\ m.kind = "offer"  -> android_on_send_offer(m)
      [] p = "android" /\ m.kind = "answer" -> android_on_send_answer(m)
      [] p = "android" /\ m.kind = "ice"    -> android_on_send_ice(m)
      [] p = "android" /\ m.kind = "hangup" -> android_on_send_hangup(m)
      [] p = "android" /\ m.kind = "busy"   -> android_on_send_busy(m)
      [] p = "ios" /\ m.kind = "offer"  -> ios_on_send_offer(m)
      [] p = "ios" /\ m.kind = "answer" -> ios_on_send_answer(m)
      [] p = "ios" /\ m.kind = "ice"    -> ios_on_send_ice(m)
      [] p = "ios" /\ m.kind = "hangup" -> ios_on_send_hangup(m)
      [] p = "ios" /\ m.kind = "busy"   -> ios_on_send_busy(m)
      [] p = "electron" /\ m.kind = "offer"  -> electron_SendSignaling(native_on_send_offer(m))
      [] p = "electron" /\ m.kind = "answer" -> electron_SendSignaling(native_on_send_answer(m))
      [] p = "electron" /\ m.kind = "ice"    -> electron_SendSignaling(native_on_send_ice(m))
      [] p = "electron" /\ m.kind = "hangup" -> electron_SendSignaling(native_on_send_hangup(m))
      [] p = "electron" /\ m.kind = "busy"   -> electron_SendSignaling(native_on_send_busy(m))

(* Call messages: the users named, with their endorsements in an ad hoc    *)
(* group, which cross the iOS boundary as two arrays in the order the map  *)
(* iterates in.                                                            *)
CallMessage(m, to, message) ==
    [kind |-> m.kind, to |-> to, body |-> message, urgency |-> AsInt(Urgencies, m.urgency)]

android_send_call_message(m) == CallMessage(m, {m.peer}, m.body)

android_send_call_message_to_group(m) == CallMessage(m, m.body.override, m.body.message)

android_send_call_message_to_adhoc_group(m) == CallMessage(m, m.body.endorsed, m.body.message)

ios_send_call_message(m) == CallMessage(m, {m.peer}, m.body)

ios_send_call_message_to_group(m) == CallMessage(m, SetToSeq(m.body.override), m.body.message)

ios_send_call_message_to_adhoc_group(m) ==
    LET recipients == SetToSeq(DOMAIN m.body.endorsed) IN
    CallMessage(m, [recipients |-> recipients,
                    endorsements |-> [i \in DOMAIN recipients |-> m.body.endorsed[recipients[i]]]],
                m.body.message)

electron_send_call_message(m) == CallMessage(m, {m.peer}, m.body)

electron_send_call_message_to_group(m) == CallMessage(m, m.body.override, m.body.message)

electron_send_call_message_to_adhoc_group(m) ==
    CallMessage(m, {[recipientId |-> x, endorsement |-> m.body.endorsed[x]] : x \in DOMAIN m.body.endorsed},
                m.body.message)

send_message(p, m) ==
    CASE p = "android" /\ m.kind = "message" -> android_send_call_message(m)
      [] p = "android" /\ m.kind = "group" -> android_send_call_message_to_group(m)
      [] p = "android" /\ m.kind = "adhoc" -> android_send_call_message_to_adhoc_group(m)
      [] p = "ios" /\ m.kind = "message" -> ios_send_call_message(m)
      [] p = "ios" /\ m.kind = "group" -> ios_send_call_message_to_group(m)
      [] p = "ios" /\ m.kind = "adhoc" -> ios_send_call_message_to_adhoc_group(m)
      [] p = "electron" /\ m.kind = "message" -> electron_send_call_message(m)
      [] p = "electron" /\ m.kind = "group" -> electron_send_call_message_to_group(m)
      [] p = "electron" /\ m.kind = "adhoc" -> electron_send_call_message_to_adhoc_group(m)

--------------------------------------------------------------------------
(* The library in the language of the application.  Its enumerations have  *)
(* names of their own.  {} when it drops the message.                      *)

JavaMediaTypes == <<"AUDIO_CALL", "VIDEO_CALL">>

JavaHangupTypes == <<"NORMAL", "ACCEPTED", "DECLINED", "BUSY", "NEED_PERMISSION">>

JavaUrgencies == <<"DROPPABLE", "HANDLE_IMMEDIATELY">>

SwiftMediaTypes == <<"audioCall", "videoCall">>

SwiftHangupTypes == <<"normal", "accepted", "declined", "busy", "needPermission">>

SwiftUrgencies == <<"droppable", "handleImmediately">>

ToApp(w, body) ==
    [kind |-> w.kind, peer |-> w.peer, id |-> w.id,
     dest |-> IF w.broadcast THEN None ELSE w.receiver, body |-> body]

ToUsers(to, message, urgency) ==
    [kind |-> "message", to |-> to, body |-> message, urgency |-> urgency]

fromNativeIndex(names, i) == names[i + 1]

java_onSend(w) ==
    {ToApp(w, CASE w.kind = "offer"  -> [w.body EXCEPT !.media = fromNativeIndex(JavaMediaTypes, @)]
                [] w.kind = "hangup" -> <<fromNativeIndex(JavaHangupTypes, w.body[1]), w.body[2]>>
                [] OTHER -> w.body)}

java_sendCallMessage(w) == {ToUsers(w.to, w.body, JavaUrgencies[w.urgency + 1])}

(* A Swift enumeration of a raw value, and the bytes of a slice. *)
rawValue(names, i) == IF i + 1 \in DOMAIN names THEN {names[i + 1]} ELSE {}

asData(slice) == IF slice = None THEN {} ELSE {slice}

callManagerInterfaceOnSendOffer(w) ==
    {ToApp(w, [opaque |-> o, media |-> t]) :
        o \in asData(w.body.opaque), t \in rawValue(SwiftMediaTypes, w.body.media)}

callManagerInterfaceOnSendAnswer(w) == {ToApp(w, [opaque |-> o]) : o \in asData(w.body.opaque)}

callManagerInterfaceOnSendIceCandidates(w) ==
    {ToApp(w, SelectSeq(w.body, LAMBDA c : asData(c) # {}))}

callManagerInterfaceOnSendHangup(w) ==
    {ToApp(w, <<t, w.body[2]>>) : t \in rawValue(SwiftHangupTypes, w.body[1])}

callManagerInterfaceOnSendBusy(w) == {ToApp(w, None)}

callManagerInterfaceSendCallMessage(w) ==
    {ToUsers(w.to, o, t) : o \in asData(w.body), t \in rawValue(SwiftUrgencies, w.urgency)}

callManagerInterfaceSendCallMessageToGroup(w) ==
    {ToUsers(ToSet(w.to), o, t) : o \in asData(w.body), t \in rawValue(SwiftUrgencies, w.urgency)}

callManagerInterfaceSendCallMessageToAdhocGroup(w) ==
    LET users == w.to.recipients
        of(u) == CHOOSE i \in DOMAIN users : users[i] = u
    IN IF Len(users) # Len(w.to.endorsements) THEN {}
       ELSE {ToUsers([u \in ToSet(users) |-> w.to.endorsements[of(u)]], o, t) :
                o \in asData(w.body), t \in rawValue(SwiftUrgencies, w.urgency)}

interface_sends(w) ==
    CASE w.kind = "offer"  -> callManagerInterfaceOnSendOffer(w)
      [] w.kind = "answer" -> callManagerInterfaceOnSendAnswer(w)
      [] w.kind = "ice"    -> callManagerInterfaceOnSendIceCandidates(w)
      [] w.kind = "hangup" -> callManagerInterfaceOnSendHangup(w)
      [] w.kind = "busy"   -> callManagerInterfaceOnSendBusy(w)
      [] w.kind = "message" -> callManagerInterfaceSendCallMessage(w)
      [] w.kind = "group"   -> callManagerInterfaceSendCallMessageToGroup(w)
      [] w.kind = "adhoc"   -> callManagerInterfaceSendCallMessageToAdhocGroup(w)

(* The delegate is weak: what is for one that is gone is dropped. *)
swift_onSend(d, w) == IF d \in listening THEN interface_sends(w) ELSE {}

(* JavaScript's enumerations are numbers. *)
onSendOffer(w) == ToApp(w, w.body)

onSendAnswer(w) == ToApp(w, w.body)

onSendIceCandidates(w) == ToApp(w, w.body)

onSendHangup(w) == ToApp(w, <<w.body[1], unwrap_or_0(w.body[2])>>)

onSendBusy(w) == ToApp(w, None)

service_onSend(w) ==
    CASE w.kind = "offer"  -> onSendOffer(w)
      [] w.kind = "answer" -> onSendAnswer(w)
      [] w.kind = "ice"    -> onSendIceCandidates(w)
      [] w.kind = "hangup" -> onSendHangup(w)
      [] w.kind = "busy"   -> onSendBusy(w)

sendSignaling(d, w) == IF d \in listening THEN {service_onSend(w)} ELSE {}

sendCallMessage(d, w) ==
    LET endorsement(u) == (CHOOSE r \in w.to : r.recipientId = u).endorsement IN
    IF d \notin listening THEN {}
    ELSE {ToUsers(IF w.kind = "adhoc" THEN [u \in {r.recipientId : r \in w.to} |-> endorsement(u)]
                                      ELSE w.to,
                  w.body, w.urgency)}

(* What the application of d is called with for the message m. *)
to_application(d, m) ==
    LET p == platform[d]
        message == m.kind \in {"message", "group", "adhoc"}
        w == IF message THEN send_message(p, m) ELSE on_send(p, m)
    IN CASE p = "android"  -> IF message THEN java_sendCallMessage(w) ELSE java_onSend(w)
         [] p = "ios"      -> swift_onSend(d, w)
         [] p = "electron" -> IF message THEN sendCallMessage(d, w) ELSE sendSignaling(d, w)

--------------------------------------------------------------------------
(* Receiving.  e is the envelope: the sending and the receiving device and *)
(* with them the identity keys of their users.  {} when the message is     *)
(* refused or dropped, else what the core is called with.                  *)

CallId_from(id) == id % 2^Width

Received(w, e, id, body) ==
    {[kind |-> w.kind, id |-> id, sender |-> e.from[2], body |-> body]}

WithKeys(w, e, id, body) ==
    {[kind |-> w.kind, id |-> id, sender |-> e.from[2], body |-> body,
      keys |-> <<e.from[1], e.to[1]>>]}

android_received_offer(w, e) ==
    IF w.body.opaque = None THEN {}
    ELSE WithKeys(w, e, CallId_from(w.id), [w.body EXCEPT !.media = CallMediaType_from_i32(@)])

android_received_answer(w, e) ==
    IF w.body.opaque = None THEN {} ELSE WithKeys(w, e, CallId_from(w.id), w.body)

android_received_ice(w, e) == Received(w, e, CallId_from(w.id), w.body)

jni_received_hangup(w) == [w EXCEPT !.body = <<HangupType_from_i32(w.body[1]), w.body[2]>>]

android_received_hangup(w, e) ==
    Received(w, e, CallId_from(w.id), from_type_and_device_id(w.body[1], w.body[2]))

android_received_busy(w, e) == Received(w, e, CallId_from(w.id), None)

ios_received_offer(w, e) ==
    IF w.body.opaque = None THEN {}
    ELSE WithKeys(w, e, w.id, [w.body EXCEPT !.media = CallMediaType_from_i32(@)])

ios_received_answer(w, e) ==
    IF w.body.opaque = None THEN {} ELSE WithKeys(w, e, w.id, w.body)

ios_received_ice(w, e) == Received(w, e, w.id, w.body)

ringrtcReceivedHangup(w) == [w EXCEPT !.body = <<HangupType_from_i32(w.body[1]), w.body[2]>>]

ios_received_hangup(w, e) ==
    Received(w, e, w.id, from_type_and_device_id(w.body[1], w.body[2]))

ios_received_busy(w, e) == Received(w, e, w.id, None)

electron_receivedOffer(w, e) ==
    WithKeys(w, e, w.id, [w.body EXCEPT !.media = IF @ = 1 THEN "Video" ELSE "Audio"])

electron_receivedAnswer(w, e) == WithKeys(w, e, w.id, w.body)

electron_receivedIceCandidates(w, e) == Received(w, e, w.id, w.body)

electron_receivedHangup(w, e) ==
    Received(w, e, w.id,
        from_type_and_device_id(HangupType_from_i32(w.body[1]), unwrap_or_0(w.body[2])))

electron_receivedBusy(w, e) == Received(w, e, w.id, None)

(* JavaScript drops a message for another device, a description without    *)
(* the opaque value and, as 0n is false, any message of a call with id 0.  *)
handleCallingMessage(w, e) ==
    IF \/ w.dest \notin {None, 0, e.to[2]}
       \/ w.id = 0
       \/ w.kind \in {"offer", "answer"} /\ w.body.opaque = None
    THEN {}
    ELSE CASE w.kind = "offer"  -> electron_receivedOffer(w, e)
           [] w.kind = "answer" -> electron_receivedAnswer(w, e)
           [] w.kind = "ice"    -> electron_receivedIceCandidates(w, e)
           [] w.kind = "hangup" -> electron_receivedHangup(w, e)
           [] w.kind = "busy"   -> electron_receivedBusy(w, e)

(* The entry points the libraries in Java and Swift call. *)
jni_received(w, e) ==
    CASE w.kind = "offer"  -> android_received_offer(w, e)
      [] w.kind = "answer" -> android_received_answer(w, e)
      [] w.kind = "ice"    -> android_received_ice(w, e)
      [] w.kind = "hangup" -> android_received_hangup(jni_received_hangup(w), e)
      [] w.kind = "busy"   -> android_received_busy(w, e)

ringrtc_received(w, e) ==
    CASE w.kind = "offer"  -> ios_received_offer(w, e)
      [] w.kind = "answer" -> ios_received_answer(w, e)
      [] w.kind = "ice"    -> ios_received_ice(w, e)
      [] w.kind = "hangup" -> ios_received_hangup(ringrtcReceivedHangup(w), e)
      [] w.kind = "busy"   -> ios_received_busy(w, e)

(* The methods of these libraries that the applications call. *)
AsNumbers(medias, hangups, w) ==
    CASE w.kind = "offer"  -> [w EXCEPT !.body.media = AsInt(medias, @)]
      [] w.kind = "hangup" -> [w EXCEPT !.body[1] = AsInt(hangups, @)]
      [] OTHER -> w

java_received(w, e) == jni_received(AsNumbers(JavaMediaTypes, JavaHangupTypes, w), e)

swift_received(w, e) == ringrtc_received(AsNumbers(SwiftMediaTypes, SwiftHangupTypes, w), e)

(* The applications.  The service numbers the types of its messages, reads *)
(* a type of hangup it does not know as the first, and has unsigned ids;   *)
(* what is for another device the mobile applications drop.                *)
ServiceMediaTypes == <<{"AUDIO_CALL", "audioCall"}, {"VIDEO_CALL", "videoCall"}>>

ServiceHangupTypes ==
    <<{"NORMAL", "normal"}, {"ACCEPTED", "accepted"}, {"DECLINED", "declined"},
      {"BUSY", "busy"}, {"NEED_PERMISSION", "needPermission"}>>

ServiceUrgencies == <<{"DROPPABLE", "droppable"}, {"HANDLE_IMMEDIATELY", "handleImmediately"}>>

Number(types, x) == (CHOOSE i \in DOMAIN types : x \in types[i]) - 1

Named(types, i, names) ==
    CHOOSE x \in types[IF i + 1 \in DOMAIN types THEN i + 1 ELSE 1] : x \in ToSet(names)

OnTheWire(p, w) ==
    CASE w.kind = "message" ->
             IF p = "electron" THEN w ELSE [w EXCEPT !.urgency = Number(ServiceUrgencies, @)]
      [] p # "electron" /\ w.kind = "offer" ->
             [w EXCEPT !.id = CallId_from(@), !.body.media = Number(ServiceMediaTypes, @)]
      [] p # "electron" /\ w.kind = "hangup" ->
             [w EXCEPT !.id = CallId_from(@), !.body[1] = Number(ServiceHangupTypes, @)]
      [] OTHER -> [w EXCEPT !.id = CallId_from(@)]

FromTheWire(medias, hangups, w) ==
    CASE w.kind = "offer"  -> [w EXCEPT !.body.media = Named(ServiceMediaTypes, @, medias)]
      [] w.kind = "hangup" -> [w EXCEPT !.body[1] = Named(ServiceHangupTypes, @, hangups)]
      [] OTHER -> w

MobileReceives(p, w, e) ==
    CASE w.dest \notin {None, e.to[2]} -> {}
      [] p = "android" -> java_received([FromTheWire(JavaMediaTypes, JavaHangupTypes, w)
                                         EXCEPT !.id = jlong(@)], e)
      [] p = "ios" -> swift_received(FromTheWire(SwiftMediaTypes, SwiftHangupTypes, w), e)

android_received_call_message(w, e) ==
    {[kind |-> "message", user |-> e.from[1], sender |-> e.from[2], local |-> e.to[2], body |-> w.body]}

ios_received_call_message(w, e) ==
    {[kind |-> "message", user |-> e.from[1], sender |-> e.from[2], local |-> e.to[2], body |-> w.body]}

electron_receivedCallMessage(w, e) ==
    {[kind |-> "message", user |-> e.from[1], sender |-> e.from[2], local |-> e.to[2], body |-> w.body]}

ReceivesMessage(p, w, e) ==
    CASE p = "android" -> android_received_call_message(w, e)
      [] p = "ios" -> ios_received_call_message(w, e)
      [] p = "electron" -> electron_receivedCallMessage(w, e)

received_by(p, w, e) ==
    IF w.kind = "message" THEN ReceivesMessage(p, w, e)
    ELSE IF p = "electron" THEN handleCallingMessage(w, e) ELSE MobileReceives(p, w, e)

--------------------------------------------------------------------------
Init ==
    /\ platform \in [Devices -> Platforms]
    /\ listening = Devices
    /\ log = <<>>
    /\ delivered = {}
    /\ received = {}

(* The application of a device goes away while its library stays: Swift's  *)
(* delegate is weak and JavaScript's handlers may be unset.  Bound: one    *)
(* device, before anything is sent.                                        *)
StopsListening(d) ==
    /\ platform[d] # "android" /\ listening = Devices /\ log = <<>>
    /\ listening' = Devices \ {d}
    /\ UNCHANGED <<platform, log, delivered, received>>

(* The users the application sends a call message to: those that are       *)
(* named, or the whole group.                                              *)
Recipients(m, w) ==
    CASE m.kind = "adhoc" -> DOMAIN w.to
      [] m.kind = "group" /\ w.to = {} -> Users
      [] OTHER -> w.to

(* The core of d sends the message m; if the library drops it, to nobody.  *)
Sends(d, m) ==
    LET given == to_application(d, m)
        signal == m.kind \in {"offer", "answer", "ice", "hangup", "busy"}
    IN log' = Append(log,
           [from |-> d, msg |-> m,
            wire |-> IF given = {} THEN None ELSE OnTheWire(platform[d], CHOOSE w \in given : TRUE),
            users |-> UNION {IF signal THEN {w.peer} ELSE Recipients(m, w) : w \in given}])

SendSignaling(d, u) ==
    /\ Len(log) < MaxSent
    /\ \E m \in SendMessages(u) : Sends(d, m)
    /\ UNCHANGED <<platform, listening, delivered, received>>

SendCallMessage(d, u) ==
    /\ Len(log) < MaxSent
    /\ \E m \in CallMessages(u) : Sends(d, m)
    /\ UNCHANGED <<platform, listening, delivered, received>>

(* A client of another version: a description without an opaque value, or  *)
(* a hangup of a type this version does not know.                          *)
OtherVersions(u) ==
    {[kind |-> k, peer |-> u, id |-> 1, dest |-> None,
      body |-> [opaque |-> None, media |-> 0]] : k \in {"offer", "answer"}}
    \union {[kind |-> "hangup", peer |-> u, id |-> 1, dest |-> None, body |-> <<5, 0>>]}

SendFromOtherVersion(d, u) ==
    /\ Len(log) < MaxSent
    /\ \E w \in OtherVersions(u) :
           log' = Append(log, [from |-> d, wire |-> w, users |-> {u},
                               msg |-> [kind |-> w.kind, id |-> 1, other |-> TRUE]])
    /\ UNCHANGED <<platform, listening, delivered, received>>

(* The service gives message i to a device of a user it is for. *)
Deliver(i, d) ==
    /\ i \in DOMAIN log /\ d # log[i].from /\ d[1] \in log[i].users
    /\ <<i, d>> \notin delivered
    /\ delivered' = delivered \union {<<i, d>>}
    /\ received' = received \union
           {[of |-> i, at |-> d, got |-> g] :
                g \in received_by(platform[d], log[i].wire, [from |-> log[i].from, to |-> d])}
    /\ UNCHANGED <<platform, listening, log>>

Next ==
    \/ \E d \in Devices : StopsListening(d)
    \/ \E d \in Devices : \E u \in Users \ {d[1]} :
           SendSignaling(d, u) \/ SendCallMessage(d, u) \/ SendFromOtherVersion(d, u)
    \/ \E d \in Devices : \E i \in 1..MaxSent : Deliver(i, d)

Spec == Init /\ [][Next]_vars

--------------------------------------------------------------------------
(* What the core at d must be given for a message: nothing for a           *)
(* description of another version or a message for another device; else    *)
(* the call id, the sending device, the body and the keys of the sender,   *)
(* with NeedPermission of no device read as of device 0.                   *)
Expected(r, d) ==
    LET m == r.msg IN
    IF "other" \in DOMAIN m THEN
        IF m.kind # "hangup" THEN {}
        ELSE {[kind |-> "hangup", id |-> m.id, sender |-> r.from[2],
               body |-> [type |-> "Normal", device |-> None]]}
    ELSE IF m.kind \in {"message", "group", "adhoc"} THEN
        {[kind |-> "message", user |-> r.from[1], sender |-> r.from[2], local |-> d[2],
          body |-> IF m.kind = "message" THEN m.body ELSE m.body.message]}
    ELSE IF m.to \notin {All, d[2]} THEN {}
    ELSE IF m.kind \in {"offer", "answer"} THEN
        {[kind |-> m.kind, id |-> m.id, sender |-> r.from[2], body |-> m.body,
          keys |-> <<r.from[1], d[1]>>]}
    ELSE {[kind |-> m.kind, id |-> m.id, sender |-> r.from[2],
           body |-> IF m.kind = "hangup" /\ m.body.type = "NeedPermission"
                    THEN [m.body EXCEPT !.device = unwrap_or_0(@)] ELSE m.body]}

(* The users a message is for. *)
Intended(m) ==
    CASE m.kind = "group" -> IF m.body.override = {} THEN Users ELSE m.body.override
      [] m.kind = "adhoc" -> DOMAIN m.body.endorsed
      [] OTHER -> {m.peer}

(* An application that listens is told to send a message to the users the  *)
(* core named, in an ad hoc group each with the endorsement of that user,  *)
(* and as urgently as the core said; and whatever the platforms of the two *)
(* devices, one the service has given to a device reaches its core exactly *)
(* if it is for that device, and with the call id, device ids, media type, *)
(* kind of hangup, keys and payload the sending core gave it.  Call id 0   *)
(* is left out: the JavaScript of the desktop application drops such a     *)
(* message.                                                                *)
ArrivesAsSent ==
    /\ \A i \in DOMAIN log :
        LET m == log[i].msg
            w == log[i].wire
        IN "other" \in DOMAIN m \/ log[i].from \notin listening \/
               /\ w # None /\ log[i].users = Intended(m)
               /\ m.kind = "adhoc" => w.to = m.body.endorsed
               /\ w.kind = "message" => w.urgency = AsInt(Urgencies, m.urgency)
    /\ \A x \in delivered :
        LET r == log[x[1]] IN
        (r.wire.kind # "message" => r.msg.id # 0) =>
            {y.got : y \in {y \in received : y.of = x[1] /\ y.at = x[2]}} = Expected(r, x[2])
=============================================================================
