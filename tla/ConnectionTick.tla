--------------------------- MODULE ConnectionTick ---------------------------
(***************************************************************************)
(* The periodic timer of a 1:1 connection (core/connection.rs): from       *)
(* start_tick() on, tick() sends the accumulated RTP data again, polls the *)
(* statistics and the audio levels, and watches the bandwidth estimate to  *)
(* tell the user when video suffers.  The connection is accepted, lost and *)
(* regained, and video goes on and off, between any two ticks.             *)
(***************************************************************************)
EXTENDS Naturals

CONSTANTS
  Configs,                                 \* PollStatsConfig: <<interval, offset>>
  AudioIntervals,                          \* audio_levels_interval; 0: none
  SEND_RTP_DATA_MESSAGE_INTERVAL_TICKS,
  CHECK_BWE_INTERVAL_TICKS,
  DELAYED_BWE_CHECK_INTERVAL_TICKS,
  DELAY_FOR_RECOVERED_BWE_CALLBACK_TICKS,
  Never,
  MaxTicks                                 \* bound on the ticks

VARIABLES
  config,      \* poll_stats_config and audio_levels_interval, in ticks
  ticks,       \* ticks_elapsed
  accepted,    \* the connection's state is ConnectedAndAccepted
  video,       \* sender_status says that video is enabled
  bwe,         \* bwe_callback_state, with its tick
  done,        \* per task, the last tick that did it
  lowered,     \* history: the tick that told of a low bandwidth
  unsettled    \* history: the last check that saw video over an unaccepted connection

vars == <<config, ticks, accepted, video, bwe, done, lowered, unsettled>>

Tasks == {"resend", "stats", "audio", "recovered"}

IsMultiple(t, n) == IF n = 0 THEN t = 0 ELSE t % n = 0

Init ==
  /\ \E c \in Configs, a \in AudioIntervals :
       config = [interval |-> c[1], offset |-> c[2], audio |-> a]
  /\ ticks = 0 /\ accepted \in BOOLEAN /\ video \in BOOLEAN
  /\ bwe = [state |-> "CheckIfLow", tick |-> 0]
  /\ done = [t \in Tasks |-> Never]
  /\ lowered = Never /\ unsettled = Never

(* When the stats observer is told that the first statistics come. *)
get_initial_offset == IF config.offset = 0 THEN config.interval ELSE config.offset

(* Deviation: statistics are polled whenever the interval has passed. *)
DueEveryInterval(t) ==
  [resend |-> IsMultiple(t, SEND_RTP_DATA_MESSAGE_INTERVAL_TICKS),
   stats |-> IsMultiple(t, config.interval),
   audio |-> config.audio # 0 /\ IsMultiple(t, config.audio)]

Due(t) ==
  [resend |-> IsMultiple(t, SEND_RTP_DATA_MESSAGE_INTERVAL_TICKS),
   stats |-> t % config.interval = config.offset,
   audio |-> config.audio # 0 /\ IsMultiple(t, config.audio)]

(* The estimate may be low, high, or between the two thresholds. *)
CheckIfLow(t, estimate) ==
  /\ bwe.state = "CheckIfLow"
  /\ IF ~video THEN bwe' = bwe
     ELSE IF ~accepted
     THEN bwe' = [bwe EXCEPT !.tick = t + DELAYED_BWE_CHECK_INTERVAL_TICKS]
     ELSE bwe' = IF t > bwe.tick /\ estimate = "low"
                 THEN [state |-> "CheckIfRecovered", tick |-> t] ELSE bwe
  /\ lowered' = IF bwe'.state = "CheckIfRecovered" THEN t ELSE lowered
  /\ unsettled' = IF video /\ ~accepted THEN t ELSE unsettled

CheckIfRecovered(t, estimate) ==
  /\ bwe.state = "CheckIfRecovered"
  /\ bwe' = IF t >= bwe.tick + DELAY_FOR_RECOVERED_BWE_CALLBACK_TICKS /\ estimate = "high"
            THEN [bwe EXCEPT !.state = "Done"] ELSE bwe
  /\ UNCHANGED <<lowered, unsettled>>

CheckBwe(t, estimate) ==
  \/ CheckIfLow(t, estimate)
  \/ CheckIfRecovered(t, estimate)
  \/ bwe.state = "Done" /\ UNCHANGED <<bwe, lowered, unsettled>>

tick ==
  /\ ticks < MaxTicks /\ ticks' = ticks + 1
  /\ IF IsMultiple(ticks', CHECK_BWE_INTERVAL_TICKS)
     THEN \E estimate \in {"low", "between", "high"} : CheckBwe(ticks', estimate)
     ELSE UNCHANGED <<bwe, lowered, unsettled>>
  /\ done' = [t \in Tasks |->
       IF t = "recovered"
       THEN IF bwe.state # "Done" /\ bwe'.state = "Done" THEN ticks' ELSE done[t]
       ELSE IF Due(ticks')[t] THEN ticks' ELSE done[t]]
  /\ UNCHANGED <<config, accepted, video>>

(* The state machine changes the state, the user the video. *)
StateChanges ==
  accepted' = ~accepted /\ UNCHANGED <<config, ticks, video, bwe, done, lowered, unsettled>>

update_sender_status ==
  video' = ~video /\ UNCHANGED <<config, ticks, accepted, bwe, done, lowered, unsettled>>

Next == tick \/ StateChanges \/ update_sender_status

Spec == Init /\ [][Next]_vars

-----------------------------------------------------------------------------
(* The last time at or before t of what comes at first and every n after. *)
Latest(first, n, t) == IF t < first THEN Never ELSE first + n * ((t - first) \div n)

(* The statistics cover the whole call: the timer polls them first after     *)
(* exactly the time that the stats observer divides the first counters by,   *)
(* and misses none later; the RTP data and the audio levels keep to their    *)
(* own intervals.                                                            *)
PolledAsTold ==
  /\ done["stats"] = Latest(get_initial_offset, config.interval, ticks)
  /\ LET n == SEND_RTP_DATA_MESSAGE_INTERVAL_TICKS IN done["resend"] = Latest(n, n, ticks)
  /\ config.audio # 0 => done["audio"] = Latest(config.audio, config.audio, ticks)

(* The user hears of a low bandwidth only once the connection settled since *)
(* a check last saw it unaccepted, and of its recovery no earlier than the  *)
(* delay after that.                                                        *)
LowIsSettled ==
  /\ lowered # Never /\ unsettled # Never =>
       lowered > unsettled + DELAYED_BWE_CHECK_INTERVAL_TICKS
  /\ done["recovered"] # Never =>
       /\ lowered # Never
       /\ done["recovered"] >= lowered + DELAY_FOR_RECOVERED_BWE_CALLBACK_TICKS

=============================================================================
