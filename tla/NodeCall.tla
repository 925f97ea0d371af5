------------------------------ MODULE NodeCall ------------------------------
(* The one-to-one call of the desktop client: RingRTCType and Call of           *)
(* Service.ts on the JavaScript thread, the events the native platform          *)
(* (native.rs) queues for it, and the requests electron.rs hands to the call    *)
(* manager's worker thread.  The call manager is reduced to its active call.    *)
(*                                                                              *)
(* JavaScript runs one task at a time.  A batch of events is handled to its     *)
(* end, then the functions given to sillyDeadlockProtection run in order, and   *)
(* only then timers, promises of the application and the user.                  *)
EXTENDS Integers, Sequences

CONSTANTS Calls,        \* call ids, compared as numbers in a glare
          Peerings,     \* who each call may be with: a set of functions on Calls
          None,
          MaxUser,      \* bound on the user's calls into the library
          MaxEvents     \* bound on the events waiting when the remote side acts

VARIABLES PeerOf,       \* the peer of each call
          active,       \* the call manager's active call, or None
          phase,        \* how far that call is: "started", "ready", "ringing", "connected", "reconnecting"
          incoming,     \* whether it is incoming
          worker,       \* requests queued for the worker thread
          events,       \* events queued for JavaScript
          left,         \* events of the current batch not handled yet
          _call,        \* RingRTCType._call: the id its Call object was made with, or None
          objs,         \* the Call objects
          tasks,        \* functions waiting in sillyDeadlockProtection
          timers,       \* incoming calls delayed after a glare
          promises,     \* <<call object, stage>>: answers the application owes
          refused,      \* calls the application failed to handle
          tracks,       \* the outgoing tracks: audio, video, and the screen-share hint
          used,         \* call ids in use
          inputs

core == <<PeerOf, active, phase, incoming>>
js == <<_call, objs, tasks, timers, promises, refused, tracks>>
vars == <<PeerOf, active, phase, incoming, worker, events, left, _call, objs, tasks,
          timers, promises, refused, tracks, used, inputs>>

Event(kind, c, arg) == [kind |-> kind, call |-> c, arg |-> arg]

Request(kind, c) == [kind |-> kind, call |-> c]

NewCall(c, isIncoming) ==
  [id |-> c, incoming |-> isIncoming, state |-> "prering", reason |-> "none",
   session |-> FALSE, audio |-> FALSE, video |-> FALSE, share |-> FALSE]

Init ==
  /\ PeerOf \in Peerings
  /\ active = None /\ phase = "none" /\ incoming = FALSE
  /\ worker = <<>> /\ events = <<>> /\ left = 0
  /\ _call = None /\ objs = [c \in Calls |-> None]
  /\ tasks = <<>> /\ timers = {} /\ promises = {} /\ refused = {}
  /\ tracks = [audio |-> FALSE, video |-> FALSE, share |-> FALSE]
  /\ used = {} /\ inputs = 0

-----------------------------------------------------------------------------
(* The platform: what the call manager tells the application.                  *)
on_start_call(c, isIncoming) ==
  <<Event(IF isIncoming THEN "incoming" ELSE "outgoing", c, None)>>

on_call_ended(c, reason) == <<Event("ended", c, reason)>>

on_event(c, e) ==
  CASE e \in {"LocalRinging", "RemoteRinging"} -> <<Event("state", c, "ringing")>>
    [] e \in {"LocalAccepted", "RemoteAccepted", "Reconnected"} ->
         <<Event("state", c, "connected")>>
    [] e = "Reconnecting" -> <<Event("state", c, "connecting")>>
    [] OTHER -> <<Event("rejected", c, e)>>

on_call_concluded(c) == <<Event("concluded", c, None)>>

Concluded(c, reason) == on_call_ended(c, reason) \o on_call_concluded(c)

-----------------------------------------------------------------------------
(* The worker thread: one queued request.                                      *)
NoActive == active' = None /\ phase' = "none" /\ UNCHANGED <<PeerOf, incoming>>

Starts(c, isIncoming) ==
  active' = c /\ phase' = "started" /\ incoming' = isIncoming /\ UNCHANGED PeerOf

handle_call(c) ==
  \/ /\ active = None
     /\ Starts(c, FALSE)
     /\ events' = events \o on_start_call(c, FALSE)
  \/ /\ active # None /\ PeerOf[active] = PeerOf[c]
     /\ NoActive
     /\ events' = events \o Concluded(active, "InternalFailure")
  \/ /\ active # None /\ PeerOf[active] # PeerOf[c]
     /\ UNCHANGED core
     /\ events' = events \o Concluded(c, "InternalFailure")

handle_proceed(c) ==
  /\ phase' = IF active = c /\ phase = "started" THEN "ready" ELSE phase
  /\ UNCHANGED <<PeerOf, active, incoming, events>>

handle_accept_call(c) ==
  IF active = c /\ incoming /\ phase = "ringing"
  THEN /\ phase' = "connected" /\ UNCHANGED <<PeerOf, active, incoming>>
       /\ events' = events \o on_event(c, "LocalAccepted")
  ELSE UNCHANGED <<core, events>>

handle_drop_call(c) ==
  IF active = c
  THEN NoActive /\ events' = events \o Concluded(c, "AppDroppedCall")
  ELSE UNCHANGED <<core, events>>

handle_hangup ==
  IF active # None
  THEN NoActive /\ events' = events \o Concluded(active, "LocalHangup")
  ELSE UNCHANGED <<core, events>>

WorkerRuns ==
  /\ worker # <<>>
  /\ LET r == Head(worker)
     IN \/ r.kind = "call" /\ handle_call(r.call)
        \/ r.kind = "proceed" /\ handle_proceed(r.call)
        \/ r.kind = "accept" /\ handle_accept_call(r.call)
        \/ r.kind = "drop" /\ handle_drop_call(r.call)
        \/ r.kind = "hangup" /\ handle_hangup
  /\ worker' = Tail(worker)
  /\ UNCHANGED <<js, left, used, inputs>>

Glares(c) == PeerOf[active] = PeerOf[c] /\ phase \notin {"connected", "reconnecting"}

ReCalls(c) == PeerOf[active] = PeerOf[c] /\ phase \in {"connected", "reconnecting"}

\* An offer with a new call id.  A second device of the peer's is a busy one.
handle_received_offer(c) ==
  /\ Len(events) < MaxEvents
  /\ c \notin used /\ used' = used \cup {c}
  /\ \/ /\ active = None /\ Starts(c, TRUE)
        /\ events' = events \o on_start_call(c, TRUE)
     \/ /\ active # None /\ Glares(c) /\ c < active
        /\ UNCHANGED core
        /\ events' = events \o on_event(c, "ReceivedOfferWithGlare")
     \/ /\ active # None
        /\ \/ Glares(c) /\ c > active
           \/ ReCalls(c)
        /\ Starts(c, TRUE)
        /\ events' = events \o on_call_ended(active, IF ReCalls(c) THEN "RemoteReCall" ELSE "RemoteGlare")
                            \o on_start_call(c, TRUE) \o on_call_concluded(active)
     \/ /\ active # None /\ (~Glares(c) \/ phase = "ringing")
        /\ UNCHANGED core
        /\ events' = events \o on_event(c, "ReceivedOfferWhileActive")
     \/ /\ UNCHANGED core
        /\ events' = events \o on_event(c, "ReceivedOfferExpired")
  /\ UNCHANGED <<js, worker, left, inputs>>

\* What the remote side and the network make of the active call.
CallProceeds(from, to, e) ==
  /\ Len(events) < MaxEvents
  /\ active # None /\ phase = from
  /\ phase' = to /\ UNCHANGED <<PeerOf, active, incoming>>
  /\ events' = events \o on_event(active, e)
  /\ UNCHANGED <<js, worker, left, used, inputs>>

CallAdvances ==
  \/ CallProceeds("ready", "ringing", "RemoteRinging")
  \/ ~incoming /\ CallProceeds("ringing", "connected", "RemoteAccepted")
  \/ CallProceeds("connected", "reconnecting", "Reconnecting")
  \/ CallProceeds("reconnecting", "connected", "Reconnected")

CallEnds ==
  /\ Len(events) < MaxEvents
  /\ active # None
  /\ NoActive /\ events' = events \o Concluded(active, "RemoteHangup")
  /\ UNCHANGED <<js, worker, left, used, inputs>>

-----------------------------------------------------------------------------
(* The JavaScript thread.                                                      *)
Idle == left = 0 /\ tasks = <<>>

\* set state(): Accepted starts the media session once, Ended stops it.
set_state_keeps_session(call, s) ==
  CASE call.state = s -> call
    [] call.state # s /\ s = "connected" -> [call EXCEPT !.state = s, !.session = TRUE]
    [] call.state # s /\ s = "ended" ->
         [call EXCEPT !.state = s, !.audio = FALSE, !.video = FALSE, !.share = FALSE]
    [] OTHER -> [call EXCEPT !.state = s]

set_state(call, s) ==
  CASE call.state = s -> call
    [] call.state # s /\ s = "connected" -> [call EXCEPT !.state = s, !.session = TRUE]
    [] call.state # s /\ s = "ended" ->
         [call EXCEPT !.state = s, !.audio = FALSE, !.video = FALSE, !.share = FALSE,
                      !.session = FALSE]
    [] OTHER -> [call EXCEPT !.state = s]

\* The function the setter defers.
Deferred(o, s) ==
  CASE objs[o].state # s /\ s = "connected" /\ ~objs[o].session -> <<Request("start media", o)>>
    [] objs[o].state # s /\ s = "ended" -> <<Request("stop media", o)>>
    [] OTHER -> <<>>

onStartOutgoingCall(e) ==
  IF _call = None \/ PeerOf[_call] # PeerOf[e.call]
  THEN UNCHANGED js
  ELSE /\ objs' = [objs EXCEPT ![_call].id = e.call]
       /\ promises' = promises \cup {<<_call, "start">>}
       /\ UNCHANGED <<_call, tasks, timers, refused, tracks>>

Delayed == _call # None /\ objs[_call].reason \in {"RemoteGlare", "RemoteReCall"}

onStartIncomingCall(c) ==
  IF Delayed
  THEN /\ objs' = [objs EXCEPT ![_call].reason = "none"]
       /\ timers' = timers \cup {c}
       /\ UNCHANGED <<_call, tasks, promises, refused, tracks>>
  ELSE /\ _call' = c /\ objs' = [objs EXCEPT ![c] = NewCall(c, TRUE)]
       /\ promises' = promises \cup {<<c, "incoming">>}
       /\ timers' = timers \ {c}
       /\ UNCHANGED <<tasks, refused, tracks>>

onCallState(e) ==
  /\ IF _call = None \/ PeerOf[_call] # PeerOf[e.call]
     THEN UNCHANGED <<objs, tasks>>
     ELSE /\ objs' = [objs EXCEPT ![_call] = set_state(@, e.arg)]
          /\ tasks' = tasks \o Deferred(_call, e.arg)
  /\ UNCHANGED <<_call, timers, promises, refused, tracks>>

\* The end is applied to whichever call is current.
onCallEnded(e) ==
  /\ IF _call = None THEN UNCHANGED <<objs, tasks>>
     ELSE /\ objs' = [objs EXCEPT ![_call] = set_state([@ EXCEPT !.reason = e.arg], "ended")]
          /\ tasks' = tasks \o Deferred(_call, "ended")
  /\ UNCHANGED <<_call, timers, promises, refused, tracks>>

processEvents ==
  /\ tasks = <<>> /\ left = 0 /\ events # <<>>
  /\ left' = Len(events)
  /\ UNCHANGED <<core, worker, events, js, used, inputs>>

\* A rejected offer only reaches the call history; a conclusion clears the video sink.
HandleEvent ==
  /\ left > 0
  /\ LET e == Head(events)
     IN \/ e.kind = "outgoing" /\ onStartOutgoingCall(e)
        \/ e.kind = "incoming" /\ onStartIncomingCall(e.call)
        \/ e.kind = "state" /\ onCallState(e)
        \/ e.kind = "ended" /\ onCallEnded(e)
        \/ e.kind \in {"rejected", "concluded"} /\ UNCHANGED js
  /\ events' = Tail(events) /\ left' = left - 1
  /\ UNCHANGED <<core, worker, used, inputs>>

TimerFires ==
  /\ Idle
  /\ \E c \in timers : onStartIncomingCall(c)
  /\ UNCHANGED <<core, worker, events, left, used, inputs>>

\* A deferred function.  Starting media reads the settings when it runs.
StartMedia(t, c) ==
  [audio |-> c.audio, video |-> t.video \/ c.share \/ c.video, share |-> t.share \/ c.share]

StopMedia(t) == [t EXCEPT !.audio = FALSE, !.video = FALSE]

proceed(t) == [t EXCEPT !.share = FALSE]

sillyDeadlockProtection ==
  /\ left = 0 /\ tasks # <<>>
  /\ LET t == Head(tasks)
     IN /\ tracks' = CASE t.kind = "start media" -> StartMedia(tracks, objs[t.call])
                       [] t.kind = "stop media" -> StopMedia(tracks)
                       [] t.kind = "proceed" -> proceed(tracks)
                       [] t.kind \in {"audio", "video", "share"} -> [tracks EXCEPT ![t.kind] = t.call]
                       [] OTHER -> tracks
        /\ worker' = IF t.kind \in {"proceed", "hangup"} THEN Append(worker, t) ELSE worker
  /\ tasks' = Tail(tasks)
  /\ UNCHANGED <<core, events, left, _call, objs, timers, promises, refused, used, inputs>>

\* The application answers handleIncomingCall or handleStartCall; once it can start the
\* call it proceeds with it.  Call.ignore() follows a failure.
ignore_forgets(o) == worker

ignore(o) == Append(worker, Request("drop", objs[o].id))

AppAnswers ==
  /\ Idle
  /\ \E p \in promises, ok \in BOOLEAN :
       LET o == p[1]
           more == IF ok /\ p[2] = "incoming" THEN {<<o, "start">>} ELSE {}
       IN /\ promises' = (promises \ {p}) \cup more
          /\ tasks' = IF ok /\ p[2] = "start"
                      THEN Append(tasks, Request("proceed", objs[o].id)) ELSE tasks
          /\ worker' = IF ok THEN worker ELSE ignore(o)
          /\ refused' = IF ok THEN refused ELSE refused \cup {objs[o].id}
  /\ UNCHANGED <<core, events, left, _call, objs, timers, tracks, used, inputs>>

-----------------------------------------------------------------------------
(* The user.                                                                   *)
User == Idle /\ inputs < MaxUser /\ inputs' = inputs + 1

startOutgoingCall ==
  /\ User
  /\ \E c \in Calls \ used :
       /\ used' = used \cup {c}
       /\ objs' = [objs EXCEPT ![c] = NewCall(c, FALSE)] /\ _call' = c
       /\ worker' = Append(worker, Request("call", c))
  /\ UNCHANGED <<core, events, left, tasks, timers, promises, refused, tracks>>

accept ==
  /\ User /\ _call # None
  /\ worker' = Append(worker, Request("accept", objs[_call].id))
  /\ UNCHANGED <<core, events, left, js, used>>

hangup ==
  /\ User /\ _call # None
  /\ tasks' = Append(tasks, Request("hangup", None))
  /\ UNCHANGED <<core, worker, events, left, _call, objs, timers, promises, refused, tracks, used>>

\* setOutgoingAudioMuted, setOutgoingVideoMuted, setOutgoingVideoIsScreenShare.
SetOutgoing(kind) ==
  /\ User /\ _call # None
  /\ \E on \in BOOLEAN :
       /\ objs' = [objs EXCEPT ![_call][kind] = on]
       /\ tasks' = IF objs[_call].session /\ objs[_call][kind] # on
                   THEN Append(tasks, Request(kind, on)) ELSE tasks
  /\ UNCHANGED <<core, worker, events, left, _call, timers, promises, refused, tracks, used>>

Next ==
  \/ WorkerRuns \/ CallAdvances \/ CallEnds
  \/ \E c \in Calls : handle_received_offer(c)
  \/ processEvents \/ HandleEvent \/ TimerFires \/ sillyDeadlockProtection \/ AppAnswers
  \/ startOutgoingCall \/ accept \/ hangup
  \/ \E kind \in {"audio", "video", "share"} : SetOutgoing(kind)

Spec == Init /\ [][Next]_vars

\* The worker thread and the JavaScript event loop run whatever is queued for them.
Fair(i) ==
  \/ i = 1 /\ WorkerRuns
  \/ i = 2 /\ processEvents
  \/ i = 3 /\ HandleEvent
  \/ i = 4 /\ sillyDeadlockProtection

-----------------------------------------------------------------------------
TypeOK ==
  /\ active \in Calls \cup {None} /\ _call \in used \cup {None}
  /\ timers \subseteq used /\ left \in 0..Len(events)

InMedia(o) == objs[o] # None /\ objs[o].state \in {"connected", "connecting"}

\* When the JavaScript thread has run what it deferred, the microphone, the camera and the
\* screen-share hint follow the call: nothing is captured unless some call object is in its
\* media session with that setting on, and the connected current call, when no other one is
\* in a session and it kept its own id, has the microphone the user set and, unless it shares, no share hint left
\* by a call before it.
MediaFollowsCall ==
  Idle =>
    /\ tracks.audio => \E o \in used : InMedia(o) /\ objs[o].audio
    /\ tracks.video => \E o \in used : InMedia(o)
    /\ _call # None /\ InMedia(_call) /\ objs[_call].id = _call
         /\ (\A o \in used \ {_call} : ~InMedia(o)) =>
         /\ tracks.audio = objs[_call].audio
         /\ (tracks.share => objs[_call].share)

\* A call the application refused, or failed to prepare, does not stay the call manager's
\* active call: the desktop can take the next one.
RefusedIsDropped == active \notin refused
=============================================================================
