--------------------------- MODULE AppGroupCalls ---------------------------
(***************************************************************************)
(* The group call objects of the applications (GroupCall in Java, Swift    *)
(* and TypeScript) and the group call clients of the core behind them.     *)
(* What happens in the layers between the two is in GroupCallLayers.       *)
(*                                                                         *)
(* Java calls its objects from the thread of the application and from the  *)
(* actor of each client, which runs the callbacks, with no lock.  Swift    *)
(* runs everything on the main actor and JavaScript on its one thread, and *)
(* queues the callbacks.  What a client does with its operations is in     *)
(* modules GroupCall, GroupControls, MediaKeys and RemoteMute; here it     *)
(* connects, joins, leaves, ends, and knows what is muted.                 *)
(***************************************************************************)
EXTENDS Integers, Sequences, GroupCallLayers

CONSTANTS
    Objs,        \* GroupCall objects of the application, 1..n
    Media,       \* {"audio", "video"}
    Operations,  \* the other operations the application uses
    None,
    MaxClients,
    MaxInputs

VARIABLES
    platform,
    objs,        \* object -> None or its fields
    tracks,      \* owner of a track -> medium -> it is enabled
    thread,      \* what the thread of the application is in the middle of (Java)
    clients,     \* the clients of the core, by id
    running,     \* client -> the callbacks its actor is running (Java)
    events,      \* the callbacks that are queued (Swift, JavaScript)
    inputs

vars == <<platform, objs, tracks, thread, clients, running, events, inputs>>

Idle == [at |-> "idle"]

Shared == 0

(* Electron has one pair of tracks, of the endpoint. *)
Owner(o) == IF platform = "electron" THEN Shared ELSE o

(* The operation of the core that an operation of the application comes    *)
(* to, or None where the platform does not offer it; the method of the     *)
(* object that a callback of the core comes to, and what it tells.         *)
CoreOperation(op) == IF op \in DOMAIN Calls[platform] THEN Calls[platform][op] ELSE None

Method(kind) == IF kind \in DOMAIN Callbacks[platform] THEN Callbacks[platform][kind] ELSE None

Told(kind) == IF kind \in DOMAIN Observers[platform] THEN Observers[platform][kind] ELSE None

--------------------------------------------------------------------------
(* The call manager's table of clients. *)

NewClient(o, kind) ==
    [obj |-> o, held |-> TRUE, active |-> TRUE, queue |-> <<>>, connected |-> FALSE,
     joined |-> FALSE, ending |-> FALSE, ended |-> FALSE,
     status |-> [m \in Media |-> None], did |-> None, said |-> None,
     kind |-> CoreOperation(kind)]

(* There is an active client of the same group, or of the same call link. *)
Refused(kind) ==
    \E c \in DOMAIN clients : clients[c].held /\ clients[c].active /\ clients[c].kind = CoreOperation(kind)

(* with_group_call: an id that is not in the table is only logged. *)
with_group_call(table, c, op) ==
    IF c \in DOMAIN table /\ table[c].held
    THEN [table EXCEPT ![c].queue = Append(@, op)] ELSE table

disconnect_client(table, c) ==
    IF c \in DOMAIN table /\ table[c].held
    THEN [table EXCEPT ![c].active = FALSE, ![c].queue = Append(@, <<"disconnect">>)] ELSE table

delete_group_call_client(table, c) ==
    IF c \in DOMAIN table THEN [table EXCEPT ![c].held = FALSE] ELSE table

(* An operation of the application on a client. *)
Tell(table, c, op, args) ==
    CASE CoreOperation(op) = None -> table
      [] CoreOperation(op) = "disconnect" -> disconnect_client(table, c)
      [] CoreOperation(op) = "delete_group_call_client" -> delete_group_call_client(table, c)
      [] OTHER -> with_group_call(table, c, <<CoreOperation(op)>> \o args)

--------------------------------------------------------------------------
(* The objects of the application. *)

NewObj(client, kind) ==
    [client |-> client, muted |-> [m \in Media |-> platform # "ios"], joined |-> FALSE,
     disconnectCalled |-> FALSE, handleEndedCalled |-> FALSE, disposed |-> FALSE,
     hasTracks |-> platform # "ios", asked |-> [m \in Media |-> None], last |-> None,
     kind |-> kind, seen |-> None]

Init ==
    /\ platform \in {"android", "ios", "electron"}
    /\ objs = [o \in Objs |-> None]
    /\ tracks = [x \in Objs \union {Shared} |-> [m \in Media |-> FALSE]]
    /\ thread = Idle
    /\ clients = <<>>
    /\ running = [c \in 1..MaxClients |-> <<>>]
    /\ events = <<>>
    /\ inputs = 0

Input == thread = Idle /\ inputs < MaxInputs /\ inputs' = inputs + 1

Exists(o) == objs[o] # None /\ ~objs[o].disposed

TracksOff(o) == tracks' = [tracks EXCEPT ![Owner(o)] = [m \in Media |-> FALSE]]

(* In Java and JavaScript the object is created with its client; if the    *)
(* core refuses the client there is no object.  In Swift the client is     *)
(* created when the object first connects.                                 *)
create(o, kind) ==
    /\ Input /\ objs[o] = None
    /\ o > 1 => objs[o - 1] # None              \* bound: objects in order,
    /\ o = 1 => kind = "group"                  \* the first of a group
    /\ IF platform = "ios"
       THEN objs' = [objs EXCEPT ![o] = NewObj(0, kind)] /\ UNCHANGED clients
       ELSE /\ ~Refused(kind) /\ Len(clients) < MaxClients
            /\ clients' = Append(clients, NewClient(o, kind))
            /\ objs' = [objs EXCEPT ![o] = NewObj(Len(clients) + 1, kind)]
    /\ UNCHANGED <<platform, tracks, thread, running, events>>

ios_create_client(o) ==
    /\ platform = "ios" /\ Input /\ Exists(o) /\ objs[o].client = 0
    /\ Len(clients) < MaxClients
    /\ tracks' = [tracks EXCEPT ![o] = [m \in Media |-> ~objs[o].muted[m]]]
    /\ IF Refused(objs[o].kind)
       THEN objs' = [objs EXCEPT ![o].hasTracks = TRUE] /\ UNCHANGED clients
       ELSE /\ objs' = [objs EXCEPT ![o].client = Len(clients) + 1, ![o].hasTracks = TRUE]
            /\ clients' =
                   LET c == Len(clients) + 1
                       created == Append(clients, NewClient(o, objs[o].kind))
                       mutes == Tell(Tell(created, c, "audio", <<objs[o].muted["audio"]>>),
                                     c, "video", <<objs[o].muted["video"]>>)
                   IN Tell(mutes, c, "connect", <<>>)
    /\ UNCHANGED <<platform, thread, running, events>>

(* connect() and join(), and the operations that only pass through. *)
Forward(o) ==
    /\ Input /\ Exists(o) /\ (platform = "ios" => objs[o].client # 0)
    /\ \/ \E op \in {"connect", "join"} :
            /\ clients' = Tell(clients, objs[o].client, op, <<>>)
            /\ UNCHANGED objs
       \/ \E op \in Operations :
            /\ CoreOperation(op) # None
            /\ inputs' = MaxInputs                \* bound: only as the last input
            /\ clients' = Tell(clients, objs[o].client, op, <<>>)
            /\ objs' = [objs EXCEPT ![o].last = Meaning[op]]
    /\ UNCHANGED <<platform, tracks, thread, running, events>>

leave(o) ==
    /\ Input /\ Exists(o) /\ (platform = "ios" => objs[o].client # 0)
    /\ TracksOff(o)
    /\ clients' = Tell(clients, objs[o].client, "leave", <<>>)
    /\ UNCHANGED <<platform, objs, thread, running, events>>

disconnect(o) ==
    /\ platform # "android" /\ Input /\ Exists(o) /\ (platform = "ios" => objs[o].client # 0)
    /\ TracksOff(o)
    /\ clients' = Tell(clients, objs[o].client, "disconnect", <<>>)
    /\ UNCHANGED <<platform, objs, thread, running, events>>

(* Muting: the flag, the track, the core.  remotely: another user asked.   *)
ios_set_muted(o, m, v) ==
    /\ objs' = [objs EXCEPT ![o].muted[m] = v, ![o].asked[m] = v]
    /\ tracks' = IF objs[o].hasTracks THEN [tracks EXCEPT ![o][m] = ~v] ELSE tracks
    /\ clients' = Tell(clients, objs[o].client, m, <<v>>)

ios_muted_remotely(o) ==
    /\ objs' = [objs EXCEPT ![o].muted["audio"] = TRUE, ![o].asked["audio"] = TRUE]
    /\ tracks' = IF objs[o].hasTracks THEN [tracks EXCEPT ![o]["audio"] = FALSE] ELSE tracks
    /\ clients' = Tell(clients, objs[o].client, "remotely", <<>>)

electron_set_muted(o, m, v) ==
    /\ objs' = [objs EXCEPT ![o].muted[m] = v, ![o].asked[m] = v]
    /\ tracks' = [tracks EXCEPT ![Shared][m] = ~v]
    /\ clients' = Tell(clients, objs[o].client, m, <<v>>)

electron_muted_remotely_untold(o) ==
    /\ objs' = [objs EXCEPT ![o].muted["audio"] = TRUE, ![o].asked["audio"] = TRUE]
    /\ tracks' = [tracks EXCEPT ![Shared]["audio"] = FALSE]
    /\ UNCHANGED clients

electron_muted_remotely(o) ==
    /\ objs' = [objs EXCEPT ![o].muted["audio"] = TRUE, ![o].asked["audio"] = TRUE]
    /\ tracks' = [tracks EXCEPT ![Shared]["audio"] = FALSE]
    /\ clients' = Tell(clients, objs[o].client, "remotely", <<>>)

set_muted(o, m, v) ==
    /\ platform # "android" /\ Input /\ Exists(o)
    /\ \/ platform = "ios" /\ ios_set_muted(o, m, v)
       \/ platform = "electron" /\ electron_set_muted(o, m, v)
       \/ platform = "ios" /\ m = "audio" /\ v /\ ios_muted_remotely(o)
       \/ platform = "electron" /\ m = "audio" /\ v /\ electron_muted_remotely(o)
    /\ UNCHANGED <<platform, thread, running, events>>

--------------------------------------------------------------------------
(* Java, statement by statement.  The flag is read again for the track,    *)
(* unless another user asked; with video go the kind of the source and     *)
(* then the mute.                                                          *)

android_set_muted(o, m, v) ==
    /\ platform = "android" /\ Input /\ Exists(o)
    /\ objs' = [objs EXCEPT ![o].muted[m] = v, ![o].asked[m] = v]
    /\ \E op \in {m} \union {r \in {"remotely"} : m = "audio" /\ v} :
           thread' = [at |-> "track", obj |-> o, media |-> m, op |-> op, muted |-> v]
    /\ UNCHANGED <<platform, tracks, clients, running, events>>

android_sets_track ==
    /\ thread.at = "track"
    /\ IF objs[thread.obj].disposed
       THEN thread' = Idle /\ UNCHANGED tracks          \* NullPointerException
       ELSE /\ tracks' = [tracks EXCEPT ![thread.obj][thread.media] =
                              thread.op # "remotely" /\ ~objs[thread.obj].muted[thread.media]]
            /\ thread' = [thread EXCEPT !.at = IF thread.op = "video" THEN "share" ELSE "core"]
    /\ UNCHANGED <<platform, objs, clients, running, events, inputs>>

setOutgoingVideoIsScreenShare ==
    /\ thread.at = "share"
    /\ clients' = Tell(clients, objs[thread.obj].client, "screenshare", <<>>)
    /\ objs' = [objs EXCEPT ![thread.obj].last = Meaning["screenshare"]]
    /\ thread' = [thread EXCEPT !.at = "core"]
    /\ UNCHANGED <<platform, tracks, running, events, inputs>>

android_tells_core ==
    /\ thread.at = "core"
    /\ clients' = Tell(clients, objs[thread.obj].client, thread.op,
                       IF thread.op = "remotely" THEN <<>> ELSE <<thread.muted>>)
    /\ thread' = Idle
    /\ UNCHANGED <<platform, objs, tracks, running, events, inputs>>

android_disconnect(o) ==
    /\ platform = "android" /\ Input /\ Exists(o) /\ ~objs[o].disconnectCalled
    /\ objs' = [objs EXCEPT ![o].disconnectCalled = TRUE]
    /\ thread' = [at |-> "ended?", obj |-> o]
    /\ UNCHANGED <<platform, tracks, clients, running, events>>

android_reads_ended ==
    /\ thread.at = "ended?"
    /\ thread' = [thread EXCEPT !.at = IF objs[thread.obj].handleEndedCalled
                                       THEN "dispose" ELSE "disconnect"]
    /\ UNCHANGED <<platform, objs, tracks, clients, running, events, inputs>>

dispose(o) ==
    /\ clients' = Tell(clients, objs[o].client, "delete", <<>>)
    /\ objs' = [objs EXCEPT ![o].client = 0, ![o].disposed = TRUE]

android_finishes_disconnect ==
    /\ \/ thread.at = "dispose" /\ dispose(thread.obj) /\ UNCHANGED tracks
       \/ /\ thread.at = "disconnect" /\ ~objs[thread.obj].disposed
          /\ TracksOff(thread.obj)
          /\ clients' = Tell(clients, objs[thread.obj].client, "disconnect", <<>>)
          /\ UNCHANGED objs
       \/ /\ thread.at = "disconnect" /\ objs[thread.obj].disposed   \* NullPointerException
          /\ UNCHANGED <<objs, tracks, clients>>
    /\ thread' = Idle
    /\ UNCHANGED <<platform, running, events, inputs>>

--------------------------------------------------------------------------
(* The clients.  A callback is run by the actor in Java, else queued. *)

Callback(kind, value) == [kind |-> kind, value |-> value, at |-> "start", copy |-> None]

Notify(c, callbacks) ==
    IF platform = "android"
    THEN running' = [running EXCEPT ![c] = callbacks] /\ UNCHANGED events
    ELSE /\ events' = events \o [i \in DOMAIN callbacks |-> <<c, callbacks[i]>>]
         /\ UNCHANGED running

(* end(): leaves, and closes after a delay. *)
end(c, x) ==
    /\ clients' = [clients EXCEPT ![c] = [x EXCEPT !.joined = FALSE, !.ending = x.connected]]
    /\ Notify(c, IF x.joined THEN <<Callback("join", FALSE)>> ELSE <<>>)

Mutes == [set_outgoing_audio_muted |-> "audio", set_outgoing_video_muted |-> "video"]

Runs(c) ==
    /\ c \in DOMAIN clients /\ clients[c].queue # <<>> /\ ~clients[c].ended /\ running[c] = <<>>
    /\ LET op == Head(clients[c].queue)
           x == [clients[c] EXCEPT !.queue = Tail(@)]
           Becomes(y, callbacks) == clients' = [clients EXCEPT ![c] = y] /\ Notify(c, callbacks)
       IN \/ /\ op[1] = "connect"
             /\ IF x.connected THEN Becomes(x, <<>>)
                ELSE Becomes([x EXCEPT !.connected = TRUE], <<Callback("connection", TRUE)>>)
          \/ /\ op[1] = "join"
             /\ IF x.connected /\ ~x.joined
                THEN Becomes([x EXCEPT !.joined = TRUE], <<Callback("join", TRUE)>>)
                ELSE Becomes(x, <<>>)
          \/ /\ op[1] = "leave"
             /\ IF x.joined THEN Becomes([x EXCEPT !.joined = FALSE], <<Callback("join", FALSE)>>)
                ELSE Becomes(x, <<>>)
          \/ op[1] = "disconnect" /\ end(c, x)
          \/ /\ op[1] \in DOMAIN Mutes
             /\ Becomes([x EXCEPT !.status[Mutes[op[1]]] = op[2]], <<>>)
          \/ /\ op[1] = "set_outgoing_audio_muted_remotely"
             /\ Becomes([x EXCEPT !.status["audio"] = TRUE], <<>>)
          \/ /\ op[1] \in {Meaning[n] : n \in DOMAIN Meaning}
             /\ Becomes([x EXCEPT !.did = op[1]], <<>>)
    /\ UNCHANGED <<platform, objs, tracks, thread, inputs>>

(* The SFU ends the call. *)
RemoteEnds(c) ==
    /\ c \in DOMAIN clients /\ clients[c].connected /\ ~clients[c].ending /\ running[c] = <<>>
    /\ inputs < MaxInputs /\ inputs' = inputs + 1
    /\ end(c, clients[c])
    /\ UNCHANGED <<platform, objs, tracks, thread>>

(* The client tells the application anything else. *)
Says(c, kind) ==
    /\ c \in DOMAIN clients /\ clients[c].connected /\ running[c] = <<>>
    /\ inputs < MaxInputs /\ inputs' = MaxInputs      \* bound: only as the last input
    /\ clients' = [clients EXCEPT ![c].said = kind]
    /\ Notify(c, <<Callback(kind, None)>>)
    /\ UNCHANGED <<platform, objs, tracks, thread>>

closes_silently(c) ==
    /\ clients' = [clients EXCEPT ![c].ending = FALSE, ![c].connected = FALSE, ![c].ended = TRUE]
    /\ Notify(c, <<Callback("connection", FALSE)>>)

closes(c) ==
    /\ clients' = [clients EXCEPT ![c].ending = FALSE, ![c].connected = FALSE, ![c].ended = TRUE]
    /\ Notify(c, <<Callback("connection", FALSE), Callback("ended", None)>>)

Closes(c) ==
    /\ c \in DOMAIN clients /\ clients[c].ending /\ running[c] = <<>>
    /\ closes(c)
    /\ UNCHANGED <<platform, objs, tracks, thread, inputs>>

(* A Java callback.  A state change replaces the object that holds the     *)
(* local state by a changed copy of it.                                    *)
android_callback(c) ==
    /\ running[c] # <<>>
    /\ LET o == clients[c].obj
           cb == Head(running[c])
           Step(at, copy) == running' = [running EXCEPT ![c][1].at = at, ![c][1].copy = copy]
           Returns == running' = [running EXCEPT ![c] = Tail(@)]
           method == Method(cb.kind)
       IN \/ /\ cb.at = "start"
             /\ method \in {"handleConnectionStateChanged", "handleJoinStateChanged",
                            "handleNetworkRouteChanged"}
             /\ Step("replace", objs[o].muted) /\ UNCHANGED <<objs, clients>>
          \/ /\ cb.at = "replace"
             /\ objs' = [objs EXCEPT ![o].muted = cb.copy,
                                     ![o].joined =
                                         IF method = "handleJoinStateChanged" THEN cb.value ELSE @,
                                     ![o].seen = IF cb.kind = "route" THEN Told("route") ELSE @]
             /\ Returns /\ UNCHANGED clients
          \/ /\ cb.kind \in DOMAIN Tells \ {"route"} /\ cb.at = "start"
             /\ objs' = [objs EXCEPT ![o].seen = Told(cb.kind)]
             /\ Returns /\ UNCHANGED clients
          \/ /\ method = "handleEnded" /\ cb.at = "start"
             /\ objs' = [objs EXCEPT ![o].handleEndedCalled = TRUE]
             /\ Step("disconnected?", None) /\ UNCHANGED clients
          \/ /\ cb.at = "disconnected?"
             /\ IF objs[o].disconnectCalled THEN dispose(o) ELSE UNCHANGED <<objs, clients>>
             /\ Returns
    /\ UNCHANGED <<platform, tracks, thread, events, inputs>>

(* A queued callback.  The object is looked up by the id of the client. *)
ios_callback(o, c, cb) ==
    IF Method(cb.kind) = "handleEnded"
    THEN /\ objs' = [objs EXCEPT ![o].client = 0, ![o].joined = FALSE, ![o].hasTracks = FALSE]
         /\ TracksOff(o)
         /\ clients' = Tell(clients, c, "delete", <<>>)
    ELSE /\ objs' = [objs EXCEPT ![o].joined =
                                     IF Method(cb.kind) = "handleJoinStateChanged" THEN cb.value ELSE @,
                                 ![o].seen = IF cb.kind \in DOMAIN Tells THEN Told(cb.kind) ELSE @]
         /\ UNCHANGED <<tracks, clients>>

electron_callback(o, c, cb) ==
    /\ IF Method(cb.kind) = "handleEnded"
       THEN clients' = Tell(clients, c, "delete", <<>>) /\ UNCHANGED objs
       ELSE /\ objs' = [objs EXCEPT ![o].joined =
                                     IF Method(cb.kind) = "handleJoinStateChanged" THEN cb.value ELSE @,
                                    ![o].seen = IF cb.kind \in DOMAIN Tells THEN Told(cb.kind) ELSE @]
            /\ UNCHANGED clients
    /\ UNCHANGED tracks

Handles ==
    /\ events # <<>>
    /\ LET c == Head(events)[1]
           cb == Head(events)[2]
           o == clients[c].obj
       IN IF clients[c].held /\ objs[o].client = c
          THEN \/ platform = "ios" /\ ios_callback(o, c, cb)
               \/ platform = "electron" /\ electron_callback(o, c, cb)
          ELSE UNCHANGED <<objs, tracks, clients>>
    /\ events' = Tail(events)
    /\ UNCHANGED <<platform, thread, running, inputs>>

AppThread ==
    \/ android_sets_track \/ setOutgoingVideoIsScreenShare \/ android_tells_core
    \/ android_reads_ended \/ android_finishes_disconnect

Next ==
    \/ \E o \in Objs :
         \/ \E kind \in {"group", "link"} : create(o, kind)
         \/ ios_create_client(o) \/ Forward(o) \/ leave(o) \/ disconnect(o)
         \/ android_disconnect(o)
         \/ \E m \in Media, v \in BOOLEAN : set_muted(o, m, v) \/ android_set_muted(o, m, v)
    \/ AppThread
    \/ \E c \in 1..MaxClients : Runs(c) \/ RemoteEnds(c) \/ Closes(c) \/ android_callback(c)
    \/ \E c \in 1..MaxClients : \E kind \in DOMAIN Tells : Says(c, kind)
    \/ Handles

Spec == Init /\ [][Next]_vars

(* Threads, actors and event loops run what they have been given. *)
Fair(i) ==
    \/ i = 1 /\ AppThread
    \/ i = 2 /\ Handles
    \/ i = 3 /\ \E c \in 1..MaxClients : Runs(c)
    \/ i = 4 /\ \E c \in 1..MaxClients : Closes(c)
    \/ i = 5 /\ \E c \in 1..MaxClients : android_callback(c)

--------------------------------------------------------------------------
(* When a client has run what the application asked of its object, it      *)
(* tells the call exactly what the user last muted or unmuted, though the  *)
(* object may have had an earlier client or a request by another user, and *)
(* the last operation it ran is the one the application meant; and the     *)
(* application was told what the client last said.  No layer of the        *)
(* platform dropped, swapped or reordered one.                             *)
StatusFollowsApp ==
    \A c \in DOMAIN clients :
        LET x == clients[c]
            o == objs[x.obj]
        IN x.held /\ ~x.ended /\ x.queue = <<>> /\ thread = Idle /\ o.client = c =>
               /\ \A m \in Media : o.asked[m] # None => x.status[m] = o.asked[m]
               /\ x.did # None => x.did = o.last
               /\ x.said # None /\ running[c] = <<>> /\ events = <<>> => o.seen \in Tells[x.said]

(* The client c has ended and, where Java waits for both, the application  *)
(* has disconnected.                                                       *)
Done(c) ==
    IF c \in DOMAIN clients
    THEN clients[c].ended /\ (platform = "android" => objs[clients[c].obj].disconnectCalled)
    ELSE FALSE

Deleted(c) == IF c \in DOMAIN clients THEN ~clients[c].held ELSE FALSE

(* A client that has ended is deleted from the core in the end, once the   *)
(* application has also disconnected where Java waits for both, whichever  *)
(* of the two threads comes first.                                         *)
EndedIsDeleted == \A c \in 1..MaxClients : Done(c) => Deleted(c)

=============================================================================
