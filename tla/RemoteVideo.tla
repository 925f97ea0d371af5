----------------------------- MODULE RemoteVideo ----------------------------
(***************************************************************************)
(* What a client of a group call knows of another device's video and of    *)
(* who speaks (core/group_call.rs): the height the SFU allocated, the      *)
(* height of the frames that are decoded, and from both whether a higher   *)
(* resolution is still to come.  Frames are decoded on a thread of WebRTC, *)
(* which keeps the last height itself and tells the actor of changes only. *)
(***************************************************************************)
EXTENDS Naturals, FiniteSetsExt

CONSTANTS
  Devices,     \* devices of others
  Heights,     \* heights of video
  MaxInputs    \* bound on changes by the SFU, the devices and the network

None == 0      \* no height

VARIABLES
  devices,     \* remote_devices: the RemoteDeviceState of those that are known
  forwarding,  \* forwarding_videos: the height of each device the SFU forwards
  lastHeight,  \* last_height_by_demux_id, on the decoder's thread
  frames,      \* changed heights the decoder sent to the actor
  sfu,         \* the SFU: heights it forwards
  muted,       \* devices whose video is muted
  notices,     \* CurrentDevices messages on their way
  speakers,    \* Speaker messages on their way, with their timestamps
  clock,       \* the SFU's timestamp
  spoken,      \* speaker_rtp_timestamp
  inputs

vars == <<devices, forwarding, lastHeight, frames, sfu, muted, notices, speakers,
          clock, spoken, inputs>>

NewDevice == [muted |-> FALSE, forwarded |-> FALSE, allocated |-> None, decoded |-> None,
              pending |-> FALSE, spoke |-> 0]

Allocations == UNION {[D -> Heights] : D \in SUBSET Devices}
NoDevices == [d \in {} |-> None]

Init ==
  /\ devices = [d \in Devices |-> NewDevice]
  /\ forwarding = NoDevices /\ sfu = NoDevices
  /\ lastHeight = [d \in Devices |-> None] /\ frames = {}
  /\ muted = {} /\ notices = {} /\ speakers = {}
  /\ clock = 0 /\ spoken = 0 /\ inputs = 0

Input == inputs < MaxInputs /\ inputs' = inputs + 1

Known == DOMAIN devices

recalculate_higher_resolution_pending(r) == [r EXCEPT !.pending = r.allocated > r.decoded]

(* Deviation: the flag is left as it is. *)
ForwardedWithoutPending(r, d, heights) ==
  LET is == d \in DOMAIN heights
  IN [r EXCEPT !.forwarded = is, !.allocated = IF is THEN heights[d] ELSE None,
               !.decoded = IF is THEN @ ELSE None]

Forwarded(r, d, heights) ==
  LET is == d \in DOMAIN heights
  IN recalculate_higher_resolution_pending(
       [r EXCEPT !.forwarded = is, !.allocated = IF is THEN heights[d] ELSE None,
                 !.decoded = IF is THEN @ ELSE None])

(* Only a change is looked at. *)
handle_forwarding_video_received(n) ==
  /\ notices' = notices \ {n}
  /\ IF n = forwarding THEN UNCHANGED <<devices, forwarding>>
     ELSE /\ forwarding' = n
          /\ devices' = [d \in Known |-> Forwarded(devices[d], d, n)]
  /\ UNCHANGED <<lastHeight, frames, sfu, muted, speakers, clock, spoken, inputs>>

(* A heartbeat that changes video_muted. *)
HeartbeatOfVideo(d) ==
  /\ devices[d].muted # (d \in muted)
  /\ devices' = [devices EXCEPT ![d] =
       IF d \in muted
       THEN recalculate_higher_resolution_pending([@ EXCEPT !.muted = TRUE, !.decoded = None])
       ELSE [@ EXCEPT !.muted = FALSE]]
  /\ UNCHANGED <<forwarding, lastHeight, frames, sfu, muted, notices, speakers, clock, spoken,
                 inputs>>

(* The decoder's half of handle_incoming_video_frame: the actor is told    *)
(* when the height is not the last one.                                    *)
FrameDecoded(d, height) ==
  /\ d \in DOMAIN sfu /\ sfu[d] >= height /\ d \notin muted
  /\ lastHeight' = [lastHeight EXCEPT ![d] = height]
  /\ frames' = IF lastHeight[d] = height THEN frames ELSE frames \cup {<<d, height>>}
  /\ UNCHANGED <<devices, forwarding, sfu, muted, notices, speakers, clock, spoken, inputs>>

(* The actor's half. *)
handle_incoming_video_frame(f) ==
  LET d == f[1]
      height == f[2]
  IN /\ frames' = frames \ {f}
     /\ devices' = IF d \in Known /\ devices[d].decoded # height /\ ~devices[d].muted
                   THEN [devices EXCEPT ![d] =
                           recalculate_higher_resolution_pending([@ EXCEPT !.decoded = height])]
                   ELSE devices
     /\ UNCHANGED <<forwarding, lastHeight, sfu, muted, notices, speakers, clock, spoken, inputs>>

(* speaker_time of the device that became the speaker last. *)
LatestSpeech == Max({0} \cup {devices[d].spoke : d \in Known})

SpeakerIsNew(s) == s.timestamp > spoken

(* The timestamp counts also if the speaker is not known; the time a       *)
(* device became the speaker is the time of the message.                   *)
handle_speaker_received(s) ==
  /\ speakers' = speakers \ {s}
  /\ spoken' = IF SpeakerIsNew(s) THEN s.timestamp ELSE spoken
  /\ devices' = IF /\ SpeakerIsNew(s) /\ s.device \in Known
                   /\ devices[s.device].spoke = 0 \/ devices[s.device].spoke # LatestSpeech
                THEN [devices EXCEPT ![s.device].spoke = LatestSpeech + 1] ELSE devices
  /\ UNCHANGED <<forwarding, lastHeight, frames, sfu, muted, notices, clock, inputs>>

(* A peek adds a device or drops it, with what was known of it. *)
PeekApplied(known) ==
  /\ devices' = [d \in known |-> IF d \in Known THEN devices[d] ELSE NewDevice]
  /\ Input
  /\ UNCHANGED <<forwarding, lastHeight, frames, sfu, muted, notices, speakers, clock, spoken>>

(***************************************************************************)
(* The SFU and the other devices.                                          *)
(***************************************************************************)

SfuAllocates(heights) ==
  /\ heights # sfu
  /\ sfu' = heights
  /\ notices' = notices \cup {heights}
  /\ Input
  /\ UNCHANGED <<devices, forwarding, lastHeight, frames, muted, speakers, clock, spoken>>

SfuTellsSpeaker(d) ==
  /\ clock' = clock + 1
  /\ speakers' = speakers \cup {[device |-> d, timestamp |-> clock']}
  /\ Input
  /\ UNCHANGED <<devices, forwarding, lastHeight, frames, sfu, muted, notices, spoken>>

MutesVideo(d) ==
  /\ muted' = IF d \in muted THEN muted \ {d} ELSE muted \cup {d}
  /\ Input
  /\ UNCHANGED <<devices, forwarding, lastHeight, frames, sfu, notices, speakers, clock, spoken>>

Next ==
  \/ \E n \in notices : handle_forwarding_video_received(n)
  \/ \E d \in Devices, h \in Heights : FrameDecoded(d, h)
  \/ \E d \in Known : HeartbeatOfVideo(d)
  \/ \E f \in frames : handle_incoming_video_frame(f)
  \/ \E s \in speakers : handle_speaker_received(s)
  \/ \E known \in SUBSET Devices : PeekApplied(known)
  \/ \E heights \in Allocations : SfuAllocates(heights)
  \/ \E d \in Devices : SfuTellsSpeaker(d) \/ MutesVideo(d)

Spec == Init /\ [][Next]_vars

-----------------------------------------------------------------------------

(* Whether a higher resolution is pending is always what the two heights   *)
(* say, whichever handler changed one of them last.                        *)
PendingIsCurrent == \A d \in Known : devices[d].pending <=> devices[d].allocated > devices[d].decoded
=============================================================================
