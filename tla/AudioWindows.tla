---------------------------- MODULE AudioWindows ----------------------------
(***************************************************************************)
(* The data callbacks of the audio streams and playout_delay               *)
(* (webrtc/audio_device_module.rs). The audio library asks for and brings  *)
(* any number of samples; WebRTC takes and gives windows of a fixed length.*)
(* A sample is its number, so that loss, repetition and reordering show.   *)
(***************************************************************************)
EXTENDS Integers, Sequences, SequencesExt

CONSTANTS Window,      \* WEBRTC_WINDOW
          MaxInput,    \* bound: samples of one callback
          MaxSamples,  \* bound: samples produced on either side
          MaxDelays    \* bound: calls of playout_delay

VARIABLES captured, recBuffer, delivered,   \* recording: produced, buffered, given to WebRTC
          provided, playBuffer, played,     \* playout: given by WebRTC, buffered, played
          broken,                           \* a callback returned an error: cubeb stops the stream
          asked, answers, requests, returned

vars == <<captured, recBuffer, delivered, provided, playBuffer, played, broken,
          asked, answers, requests, returned>>

Init ==
  /\ captured = 0 /\ recBuffer = <<>> /\ delivered = <<>>
  /\ provided = 0 /\ playBuffer = <<>> /\ played = <<>>
  /\ broken = FALSE
  /\ asked = 0             \* calls of playout_delay so far
  /\ answers = <<>>        \* playout_delay_receiver: which call each answer was computed for
  /\ requests = <<>>       \* PlayoutDelay events the worker has not taken
  /\ returned = <<>>       \* what the calls returned, 0 for a timeout

Samples(first, n) == [i \in 1 .. n |-> first + i]

(* The recording callback: whole windows go to WebRTC, the rest waits.     *)
recorded_data_is_available(n) ==
  LET data == recBuffer \o Samples(captured, n)
      whole == (Len(data) \div Window) * Window
  IN /\ captured + n =< MaxSamples
     /\ captured' = captured + n
     /\ delivered' = delivered \o SubSeq(data, 1, whole)
     /\ recBuffer' = SubSeq(data, whole + 1, Len(data))
     /\ UNCHANGED <<provided, playBuffer, played, broken, asked, answers, requests, returned>>

(* The windows the playout callback asks for: as many as n samples need    *)
(* beyond the buffer. After k of them WebRTC may have no data or fail.     *)
Windows(n) ==
  LET missing == n - Len(playBuffer) IN
  IF missing =< 0 THEN 0 ELSE (missing + Window - 1) \div Window

PlaysAndDropsRest(n, got, failure) ==
  LET data == playBuffer \o Samples(provided, got) IN
  /\ provided' = provided + got
  /\ played' = IF failure THEN played ELSE played \o SubSeq(data, 1, IF n < Len(data) THEN n ELSE Len(data))
  /\ playBuffer' = <<>>

Plays(n, got, failure) ==
  LET data == playBuffer \o Samples(provided, got)
      out == IF n < Len(data) THEN n ELSE Len(data)
  IN /\ provided' = provided + got
     /\ played' = IF failure THEN played ELSE played \o SubSeq(data, 1, out)
     /\ playBuffer' = SubSeq(data, out + 1, Len(data))

need_more_play_data(n) ==
  /\ ~broken
  /\ \E k \in 0 .. Windows(n), failure \in BOOLEAN :
       /\ provided + k * Window =< MaxSamples
       /\ failure => k < Windows(n)
       /\ Plays(n, k * Window, failure)
       /\ broken' = failure
  /\ UNCHANGED <<captured, recBuffer, delivered, asked, answers, requests, returned>>

(* playout_delay queues a request and waits 50 ms for one answer.          *)
playout_delay ==
  /\ asked < MaxDelays /\ asked = Len(returned)
  /\ asked' = asked + 1
  /\ requests' = Append(requests, asked + 1)
  /\ UNCHANGED <<captured, recBuffer, delivered, provided, playBuffer, played, broken, answers, returned>>

PlayoutDelay ==
  /\ requests # <<>>
  /\ answers' = Append(answers, Head(requests))
  /\ requests' = Tail(requests)
  /\ UNCHANGED <<captured, recBuffer, delivered, provided, playBuffer, played, broken, asked, returned>>

Receives ==
  /\ asked > Len(returned) /\ answers # <<>>
  /\ returned' = Append(returned, Head(answers))
  /\ answers' = Tail(answers)
  /\ UNCHANGED <<captured, recBuffer, delivered, provided, playBuffer, played, broken, asked, requests>>

recv_timeout ==
  /\ asked > Len(returned) /\ answers = <<>>
  /\ returned' = Append(returned, 0)
  /\ UNCHANGED <<captured, recBuffer, delivered, provided, playBuffer, played, broken, asked, answers, requests>>

Next ==
  \/ \E n \in 0 .. MaxInput : recorded_data_is_available(n)
  \/ \E n \in 1 .. MaxInput : need_more_play_data(n)
  \/ playout_delay \/ PlayoutDelay \/ Receives \/ recv_timeout

Spec == Init /\ [][Next]_vars

----------------------------------------------------------------------------
(***************************************************************************)
(* Whatever lengths the audio library asks for, every sample goes through  *)
(* once and in order: WebRTC receives whole windows and what the buffer    *)
(* holds is exactly the rest, less than a window, on either side.          *)
(***************************************************************************)
SamplesInOrder ==
  /\ delivered \o recBuffer = Samples(0, captured)
  /\ Len(recBuffer) < Window /\ Len(delivered) % Window = 0
  /\ ~broken => played \o playBuffer = Samples(0, provided) /\ Len(playBuffer) < Window

=============================================================================
