---------------------------- MODULE AudioDevice ----------------------------
(***************************************************************************)
(* The desktop audio device module (webrtc/audio_device_module.rs).        *)
(* WebRTC and the application call AudioDeviceModule, which only validates *)
(* and queues; one worker thread owns the audio library (cubeb, external), *)
(* its device lists and its two streams, and takes the events in order.    *)
(* Linux is modelled: a collection has a default device and may hold       *)
(* monitor devices (audio_device_module_utils.rs).                         *)
(***************************************************************************)
EXTENDS Integers, Sequences, SequencesExt

CONSTANTS Collections,   \* what cubeb may enumerate: [devs : Seq(device), voice : a device or NoDevice]
          Monitors,      \* the devices that are monitors
          NoDevice,
          MaxCalls,      \* bound: calls of the application and of WebRTC
          MaxQueue,      \* bound: events waiting when another call is made
          MaxChanges,    \* bound: device changes
          MaxFailures    \* bound: cubeb calls that fail

VARIABLES used,      \* the side the calls are about: the two share nothing but the queue
          plugged,   \* per side, the collection cubeb enumerates (external)
          cache,     \* per side, input_device_cache / output_device_cache
          names,     \* per side, the shared list input_device_names / output_device_names
          queue,     \* the events of mpsc_sender
          side,      \* per side, the worker's device, stream and should_play / should_record
          send,      \* send_to_webrtc
          voice,     \* voice_processing_enabled
          adm,       \* per side, attempted_*_init, attempted_*_start, has_*_device
          dropped,   \* "no", "asked" (Drop queued Terminate) or "ended" (the worker returned)
          observed,  \* is an observer registered, and the list it last heard per side
          chosen,    \* history: per side, the device the application asked for by id
          failed,    \* history: per side, an event failed and nothing stopped the side since
          spent      \* the bounds' counters

vars == <<used, plugged, cache, names, queue, side, send, voice, adm, dropped, observed, chosen, failed, spent>>

Sides == {"Input", "Output"}

Empty == [devs |-> <<>>, voice |-> NoDevice]
NoStream == [dev |-> NoDevice, running |-> FALSE]

Event(type, s, arg) == [type |-> type, side |-> s, arg |-> arg]

(* DeviceCollectionWrapper: monitors count only when they are the default. *)
NonMonitors(c) == SelectSeq(c.devs, LAMBDA d : d \notin Monitors)

HasVoice(c) == c.voice \in Range(c.devs)

count(c) ==
  IF NonMonitors(c) # <<>> THEN Len(NonMonitors(c)) + 1 ELSE IF HasVoice(c) THEN 1 ELSE 0

get(c, idx) ==
  IF count(c) = 0 \/ (idx = 0 /\ ~HasVoice(c)) \/ idx > Len(NonMonitors(c)) THEN NoDevice
  ELSE IF idx = 0 THEN c.voice ELSE NonMonitors(c)[idx]

extract_names(c) == [i \in 1 .. count(c) |-> get(c, i - 1)]

(* AudioDeviceModule::new: the worker has queued the two first refreshes,  *)
(* and AudioConfig::rffi registers the observer behind them.               *)
Init ==
  /\ used \in Sides
  /\ \E c \in Collections : plugged = [s \in Sides |-> IF s = used THEN c ELSE Empty]
  /\ cache = [s \in Sides |-> Empty]
  /\ names = [s \in Sides |-> <<>>]
  /\ queue = <<Event("RefreshCache", "Input", 0), Event("RefreshCache", "Output", 0),
               Event("RegisterAudioObserver", "Input", 0)>>
  /\ side = [s \in Sides |-> [device |-> NoDevice, stream |-> NoStream, should |-> FALSE]]
  /\ send = TRUE
  /\ voice = FALSE
  /\ adm = [s \in Sides |-> [init |-> FALSE, start |-> FALSE, has |-> FALSE]]
  /\ dropped = "no"
  /\ observed = [on |-> FALSE, list |-> [s \in Sides |-> <<>>]]
  /\ chosen = [s \in Sides |-> NoDevice]
  /\ failed = [s \in Sides |-> FALSE]
  /\ spent = [calls |-> 0, changes |-> 0, failures |-> 0]

----------------------------------------------------------------------------
(* The worker's stream operations. A working state holds one side with the *)
(* send_to_webrtc flag; ok is the anyhow::Result, after which ? returns.   *)
(* fault names the cubeb call that fails, if one does.                     *)

Then(w, Op(_)) == IF w.ok THEN Op(w) ELSE w

Opened(w, c, fault) ==
  LET d == IF w.device # NoDevice THEN w.device ELSE get(c, 0) IN
  IF d = NoDevice THEN [w EXCEPT !.ok = FALSE]
  ELSE [w EXCEPT !.device = d,
                 !.stream = IF fault = "init" THEN @ ELSE [dev |-> d, running |-> FALSE],
                 !.ok = fault # "init"]

Started(w, fault) ==
  IF w.stream = NoStream \/ fault = "start" THEN [w EXCEPT !.ok = FALSE]
  ELSE [w EXCEPT !.stream.running = TRUE]

init_playout(w, c, fault) == Opened(w, c, fault)

start_playout(w, fault) == Started([w EXCEPT !.should = TRUE], fault)

stop_playout(w, fault) ==
  LET v == [w EXCEPT !.should = FALSE] IN
  IF w.stream = NoStream THEN v
  ELSE IF fault = "stop" THEN [v EXCEPT !.ok = FALSE]
  ELSE [v EXCEPT !.stream = NoStream]

(* Warm-up leaves a running stream that init_recording must not replace.   *)
init_recording(w, c, fault) ==
  IF ~w.send /\ w.stream # NoStream THEN w
  ELSE LET v == Opened(w, c, fault) IN
       [v EXCEPT !.send = IF w.device = NoDevice /\ get(c, 0) = NoDevice THEN @ ELSE TRUE]

(* to_webrtc is TRUE for StartRecording and FALSE for WarmupRecording.     *)
start_recording(w, to_webrtc, fault) ==
  LET v == [w EXCEPT !.should = TRUE, !.send = to_webrtc] IN
  IF ~w.send THEN v ELSE Started(v, fault)

stop_recording(w, fault) ==
  LET v == stop_playout(w, fault) IN
  IF w.stream = NoStream THEN v ELSE [v EXCEPT !.send = TRUE]

update_playout_device_only(w, id, c, fault) == [w EXCEPT !.device = id]

update_playout_device(w, id, c, fault) ==
  LET w1 == IF w.stream # NoStream THEN stop_playout(w, fault) ELSE w
      w2 == Then(w1, LAMBDA x : [x EXCEPT !.device = id])
      w3 == IF w.stream # NoStream THEN Then(w2, LAMBDA x : init_playout(x, c, fault)) ELSE w2
  IN IF w.should THEN Then(w3, LAMBDA x : start_playout(x, fault)) ELSE w3

update_recording_device_late_read(w, id, c, fault) ==
  LET w1 == IF w.stream # NoStream THEN stop_recording(w, fault) ELSE w
      w2 == Then(w1, LAMBDA x : [x EXCEPT !.device = id])
      w3 == IF w.stream # NoStream THEN Then(w2, LAMBDA x : init_recording(x, c, fault)) ELSE w2
  IN IF w.should THEN Then(w3, LAMBDA x : start_recording(x, x.send, fault)) ELSE w3

update_recording_device(w, id, c, fault) ==
  LET w1 == IF w.stream # NoStream THEN stop_recording(w, fault) ELSE w
      w2 == Then(w1, LAMBDA x : [x EXCEPT !.device = id])
      w3 == IF w.stream # NoStream THEN Then(w2, LAMBDA x : init_recording(x, c, fault)) ELSE w2
  IN IF w.should THEN Then(w3, LAMBDA x : start_recording(x, w.send, fault)) ELSE w3

update_device(s, w, id, c, fault) ==
  IF id = NoDevice THEN [w EXCEPT !.ok = FALSE]
  ELSE IF s = "Input" THEN update_recording_device(w, id, c, fault)
  ELSE update_playout_device(w, id, c, fault)

(* The arms of Worker::work that end in a stream operation.                *)
Handled(e, w, fault) ==
  LET c == cache[e.side] IN
  CASE e.type = "SetDevice" -> update_device(e.side, w, get(c, e.arg), c, fault)
    [] e.type = "SetDeviceById" ->
         update_device(e.side, w, IF e.arg \in Range(c.devs) THEN e.arg ELSE NoDevice, c, fault)
    [] e.type = "InitPlayout" -> init_playout(w, c, fault)
    [] e.type = "StartPlayout" -> start_playout(w, fault)
    [] e.type = "StopPlayout" -> stop_playout(w, fault)
    [] e.type = "InitRecording" -> init_recording(w, c, fault)
    [] e.type = "StartRecording" -> start_recording(w, TRUE, fault)
    [] e.type = "WarmupRecording" -> start_recording(w, FALSE, fault)
    [] e.type = "StopRecording" -> stop_recording(w, fault)
    [] e.type = "SetInputProcessing" ->
         IF e.arg # voice /\ w.device # NoDevice
         THEN update_recording_device(w, w.device, c, fault) ELSE w

Pops(type) == queue # <<>> /\ Head(queue).type \in type /\ queue' = Tail(queue)

StreamEvents == {"SetDevice", "SetDeviceById", "InitPlayout", "StartPlayout", "StopPlayout",
                 "InitRecording", "StartRecording", "WarmupRecording", "StopRecording",
                 "SetInputProcessing"}

work ==
  /\ Pops(StreamEvents)
  /\ \E fault \in {"none"} \cup (IF spent.failures < MaxFailures THEN {"init", "start", "stop"} ELSE {}) :
       LET e == Head(queue)
           s == e.side
           r == side[s]
           w == Handled(e, [device |-> r.device, stream |-> r.stream, should |-> r.should,
                            send |-> send, ok |-> TRUE], fault)
       IN /\ side' = [side EXCEPT ![s] = [device |-> w.device, stream |-> w.stream, should |-> w.should]]
          /\ send' = w.send
          /\ voice' = IF e.type = "SetInputProcessing" THEN e.arg ELSE voice
          /\ failed' = [failed EXCEPT ![s] = ~w.ok \/ (@ /\ e.type \notin {"StopPlayout", "StopRecording"})]
          /\ chosen' = [chosen EXCEPT ![s] = CASE e.type = "SetDevice" -> NoDevice
                                               [] e.type = "SetDeviceById" -> IF w.ok THEN e.arg ELSE @
                                               [] OTHER -> @]
          /\ spent' = [spent EXCEPT !.failures = IF fault = "none" THEN @ ELSE @ + 1]
  /\ UNCHANGED <<used, plugged, cache, names, adm, dropped, observed>>

refresh_device_cache ==
  /\ Pops({"RefreshCache"})
  /\ LET s == Head(queue).side
         c == plugged[s]
     IN IF c = cache[s] THEN UNCHANGED <<cache, names, side, observed, chosen>>
        ELSE /\ cache' = [cache EXCEPT ![s] = c]
             /\ names' = [names EXCEPT ![s] = extract_names(c)]
             /\ observed' = IF observed.on THEN [observed EXCEPT !.list[s] = extract_names(c)] ELSE observed
             /\ side' = [side EXCEPT ![s].device = IF @ \in Range(c.devs) THEN @ ELSE NoDevice]
             /\ chosen' = [chosen EXCEPT ![s] = IF @ \in Range(c.devs) THEN @ ELSE NoDevice]
  /\ UNCHANGED <<used, plugged, send, voice, adm, dropped, failed, spent>>

RegisterAudioObserver ==
  /\ Pops({"RegisterAudioObserver"})
  /\ observed' = [observed EXCEPT !.on = TRUE]
  /\ UNCHANGED <<used, plugged, cache, names, side, send, voice, adm, dropped, chosen, failed, spent>>

(* The streams are stopped and dropped whether or not stopping succeeds,   *)
(* and the events behind Terminate go with the receiver.                   *)
terminate ==
  /\ queue # <<>> /\ Head(queue).type = "Terminate"
  /\ queue' = <<>>
  /\ dropped' = "ended"
  /\ side' = [s \in Sides |-> [side[s] EXCEPT !.device = NoDevice, !.stream = NoStream]]
  /\ cache' = [s \in Sides |-> Empty]
  /\ names' = [s \in Sides |-> <<>>]
  /\ UNCHANGED <<used, plugged, send, voice, adm, observed, chosen, failed, spent>>

----------------------------------------------------------------------------
(* The calls of WebRTC and of the application.                             *)

Called(events, flags) ==
  /\ dropped = "no"
  /\ spent.calls < MaxCalls /\ Len(queue) < MaxQueue
  /\ spent' = [spent EXCEPT !.calls = @ + 1]
  /\ queue' = queue \o events
  /\ adm' = flags
  /\ UNCHANGED <<used, plugged, cache, names, side, send, voice, dropped, observed, chosen, failed>>

(* WebRTC initialises and starts a side that it is not running yet.        *)
init(s) ==
  /\ ~adm[s].start
  /\ Called(<<Event(IF s = "Input" THEN "InitRecording" ELSE "InitPlayout", s, 0)>>,
            [adm EXCEPT ![s].init = TRUE])

start(s) ==
  /\ adm[s].init /\ ~adm[s].start
  /\ Called(<<Event(IF s = "Input" THEN "StartRecording" ELSE "StartPlayout", s, 0)>>,
            [adm EXCEPT ![s].start = TRUE])

stop(s) ==
  /\ adm[s].init
  /\ Called(<<Event(IF s = "Input" THEN "StopRecording" ELSE "StopPlayout", s, 0)>>,
            [adm EXCEPT ![s].init = FALSE, ![s].start = FALSE])

(* The application warms the microphone up before a call records.          *)
set_audio_warmup ==
  /\ ~adm["Input"].start
  /\ Called(<<Event("InitRecording", "Input", 0), Event("WarmupRecording", "Input", 0)>>,
            [adm EXCEPT !["Input"].init = TRUE])

(* An empty list is taken for the start-up race: Ok, and nothing is queued.*)
set_device_by_index(s, idx) ==
  /\ names[s] = <<>> \/ idx < Len(names[s])
  /\ Called(IF names[s] = <<>> THEN <<>> ELSE <<Event("SetDevice", s, idx)>>,
            [adm EXCEPT ![s].has = TRUE])

set_device_by_id(s, id) ==
  /\ id \in Range(names[s])
  /\ Called(<<Event("SetDeviceById", s, id)>>, adm)

set_input_processing_enabled(b) == Called(<<Event("SetInputProcessing", "Input", b)>>, adm)

(* Drop: the module asks the worker to end and waits for it. The events    *)
(* queued before are still taken.                                          *)
drop ==
  /\ dropped = "no"
  /\ dropped' = "asked"
  /\ queue' = Append(queue, Event("Terminate", used, 0))
  /\ adm' = [s \in Sides |-> [adm[s] EXCEPT !.has = FALSE]]
  /\ UNCHANGED <<used, plugged, cache, names, side, send, voice, observed, chosen, failed, spent>>

(* cubeb calls device_changed after a change (external).                   *)
device_changed ==
  \E c \in Collections \ {plugged[used]} :
    /\ spent.changes < MaxChanges /\ dropped # "ended"
    /\ plugged' = [plugged EXCEPT ![used] = c]
    /\ queue' = Append(queue, Event("RefreshCache", used, 0))
    /\ spent' = [spent EXCEPT !.changes = @ + 1]
    /\ UNCHANGED <<used, cache, names, side, send, voice, adm, dropped, observed, chosen, failed>>

Devices == UNION {Range(c.devs) : c \in Collections}

Next ==
  \/ work
  \/ refresh_device_cache
  \/ RegisterAudioObserver
  \/ terminate
  \/ init(used) \/ start(used) \/ stop(used)
  \/ used = "Input" /\ set_audio_warmup
  \/ \E idx \in 0 .. 2 : set_device_by_index(used, idx)
  \/ \E id \in Devices : set_device_by_id(used, id)
  \/ \E b \in BOOLEAN : used = "Input" /\ set_input_processing_enabled(b)
  \/ drop
  \/ device_changed

Spec == Init /\ [][Next]_vars

----------------------------------------------------------------------------
Idle(s) == \A i \in DOMAIN queue : queue[i].side # s

(***************************************************************************)
(* Once the worker has taken every event of a side and none of them        *)
(* failed, the side does what WebRTC was told it does: recording() and     *)
(* playing() answer for a stream that runs, recorded samples reach WebRTC  *)
(* (and while the microphone only warms up they do not), and a side WebRTC *)
(* stopped has no stream. Device changes and voice processing in between   *)
(* restart the stream and must not lose this.                              *)
(***************************************************************************)
StreamAsAsked ==
  \A s \in Sides :
    dropped # "ended" /\ Idle(s) /\ ~failed[s] =>
      /\ adm[s].start => side[s].stream.running /\ (s = "Input" => send)
      /\ ~adm[s].start => ~(side[s].stream.running /\ send)
      /\ ~adm[s].init => side[s].stream = NoStream

(***************************************************************************)
(* A device chosen by its id is the one the side's stream is open on: a    *)
(* change of the device list between the call and the worker's turn may    *)
(* refuse the choice but never redirects it (Event::SetPlayoutDeviceById). *)
(***************************************************************************)
ChosenByIdIsUsed ==
  \A s \in Sides :
    ~failed[s] /\ chosen[s] # NoDevice /\ side[s].stream # NoStream
      => side[s].stream.dev = chosen[s]

=============================================================================
