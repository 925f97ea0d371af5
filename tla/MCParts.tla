------------------------------ MODULE MCParts -------------------------------
(* The parts of RingRTC whose safety TLC checks by itself, each behaviour  *)
(* being about one of them: which one is chosen at its start. Only that    *)
(* part has any state, so all of them are instantiated over one set of     *)
(* variables; a part with fewer leaves the others alone. The bounds of     *)
(* every part are given with its instance.                                 *)
EXTENDS Naturals

CONSTANTS
  p1, p2, p3,                  \* users and devices
  n1, n2,                      \* payloads, streams and names
  mic, headset, monitor,       \* audio devices
  Everyone, Dummy, Dash, NoName, NoLink, NoKey, NoResponse, Pending, NoValue

(* Ends with and without the codec VP9 in either direction and with two data *)
(* modes; ends of an earlier and of a later version.                         *)
Settings ==
  [version : {"current"}, encode : BOOLEAN, decode : BOOLEAN, mode : {0, 2}]
    \union [version : {"old", "newer"}, encode : {TRUE}, decode : {TRUE}, mode : {2}]

(* Intervals with the offset of the first poll, 0 for none. *)
Polling == {<<3, 0>>, <<4, 2>>, <<2, 1>>}

(* No device; a microphone; a monitor listed before the devices. *)
Plugged == {[devs |-> <<>>, voice |-> NoValue], [devs |-> <<mic>>, voice |-> mic],
            [devs |-> <<monitor, headset, mic>>, voice |-> monitor]}

VARIABLES
  focus,   \* the part the behaviour is about
  v1, v2, v3, v4, v5, v6, v7, v8, v9, v10, v11, v12, v13, v14, v15, v16

vars == <<focus, v1, v2, v3, v4, v5, v6, v7, v8, v9, v10, v11, v12, v13, v14,
          v15, v16>>

Media == INSTANCE Negotiation WITH
  Caller <- "caller", Devices <- {"first", "second"}, Configs <- Settings,
  CallerConfigs <- Settings, MIN_SEND_RATE <- 1, None <- NoValue,
  MaxFailures <- 1, config <- v1, forking <- v2, conn <- v3, offered <- v4,
  answers <- v5, failures <- v6

Rates == INSTANCE SendRates WITH
  Ends <- {"one", "other"}, Modes <- {0, 20},
  Routes <- {<<TRUE, 1>>, <<FALSE, 1>>}, MIN_SEND_RATE <- 1,
  RELAYED_MAX_SEND_RATE <- 10, None <- NoValue, MaxChanges <- 3, MaxSent <- 2,
  bandwidth <- v1, rate <- v2, stats <- v3, lock <- v4, doing <- v5,
  message <- v6, last_sent <- v7, network <- v8, last_received <- v9,
  last_status <- v10, events <- v11, changes <- v12

Signaling == INSTANCE AppSignaling WITH
  Devices <- {<<p1, 1>>, <<p2, 1>>, <<p2, 2>>}, Width <- 3,
  CallIds <- {0, 3, 5}, Opaques <- {n1, n2}, All <- Everyone, None <- NoValue,
  MaxSent <- 1, platform <- v1, listening <- v2, log <- v3, delivered <- v4,
  received <- v5

Ice == INSTANCE IceCandidates WITH
  Addresses <- {n1, n2}, Fake <- Dummy, None <- NoValue, gathered <- v1,
  local <- v2, events <- v3, work <- v4, buffered <- v5, requested <- v6,
  sent <- v7, remote <- v8, terminating <- v9

Timer == INSTANCE ConnectionTick WITH
  Configs <- Polling, AudioIntervals <- {0, 1, 2},
  SEND_RTP_DATA_MESSAGE_INTERVAL_TICKS <- 2, CHECK_BWE_INTERVAL_TICKS <- 2,
  DELAYED_BWE_CHECK_INTERVAL_TICKS <- 4,
  DELAY_FOR_RECOVERED_BWE_CALLBACK_TICKS <- 3, Never <- NoValue,
  MaxTicks <- 14, config <- v1, ticks <- v2, accepted <- v3, video <- v4,
  bwe <- v5, done <- v6, lowered <- v7, unsettled <- v8

Summary == INSTANCE CallSummary WITH
  Limits <- {1, 3}, Ssrcs <- {n1, n2}, MAX_STREAM_SUMMARIES <- 1,
  SummarySize <- 2, SetSize <- 2, MAX_TELEMETRY_ENCODED_SIZE <- 5,
  MIN_RELAYED_FRACTION <- 8, ShortCall <- 1, Never <- NoValue, MaxTime <- 2,
  MaxReports <- 2, MaxEvents <- 2, now <- v1, sets <- v2, established <- v3,
  max <- v4, needs <- v5, streams <- v6, report <- v7, relayed <- v8,
  relayedTime <- v9, relayStart <- v10, connect <- v11, ice <- v12,
  events <- v13, summary <- v14

Stats == INSTANCE StatsObserver WITH
  Senders <- {n1}, Receivers <- {n2}, MAX_STATS_AGE <- 2,
  CLEAN_UP_STATS_TICKS <- 2, NoRoute <- NoValue, Routes <- {p1, p2},
  MaxCount <- 2, MaxReports <- 4, MaxResets <- 2, count <- v1, before <- v2,
  present <- v3, prev <- v4, updated <- v5, received <- v6, told <- v7,
  next <- v8, toReport <- v9, routes <- v10, raw <- v11, unseen <- v12,
  lost <- v13, resets <- v14

Audio == INSTANCE AudioDevice WITH
  Collections <- Plugged, Monitors <- {monitor}, NoDevice <- NoValue,
  MaxCalls <- 3, MaxQueue <- 2, MaxChanges <- 1, MaxFailures <- 1, used <- v1,
  plugged <- v2, cache <- v3, names <- v4, queue <- v5, side <- v6,
  send <- v7, voice <- v8, adm <- v9, dropped <- v10, observed <- v11,
  chosen <- v12, failed <- v13, spent <- v14

Windows == INSTANCE AudioWindows WITH
  Window <- 3, MaxInput <- 4, MaxSamples <- 9, MaxDelays <- 3, captured <- v1,
  recBuffer <- v2, delivered <- v3, provided <- v4, playBuffer <- v5,
  played <- v6, broken <- v7, asked <- v8, answers <- v9, requests <- v10,
  returned <- v11

Mute == INSTANCE RemoteMute WITH
  Watcher <- p1, Others <- {p2}, MaxInputs <- 5, target <- v1, told <- v2,
  device <- v3, heartbeats <- v4, asks <- v5, mutes <- v6, reports <- v7,
  inputs <- v8

Video == INSTANCE RemoteVideo WITH
  Devices <- {p1, p2}, Heights <- {1, 2}, MaxInputs <- 2, devices <- v1,
  forwarding <- v2, lastHeight <- v3, frames <- v4, sfu <- v5, muted <- v6,
  notices <- v7, speakers <- v8, clock <- v9, spoken <- v10, inputs <- v11

Frames == INSTANCE FrameOrder WITH
  CounterModulus <- 4, MaxReceiverStates <- 5, MaxOooFrames <- 2,
  MaxOooRatchets <- 1, MaxFrames <- 5, MaxRatchets <- 3, sender <- v1,
  next <- v2, network <- v3, states <- v4, newest <- v5, refused <- v6

Tracks == INSTANCE GroupTracks WITH
  Ids <- {p1, p2, p3}, None <- NoValue, MaxPeeks <- 3, MaxFailures <- 1,
  platform <- v1, phase <- v2, last <- v3, devices <- v4, slots <- v5,
  transceivers <- v6, handler <- v7, actor <- v8, main <- v9, app <- v10,
  peeks <- v11, failures <- v12

Links == INSTANCE CallLinks WITH
  CrnLen <- 4, Crns <- {<<16, 1, 17, 2>>, <<17, 17, 1, 2>>}, Creator <- p1,
  Reader <- p2, Names <- {n1}, IdModulus <- 4, MaxInFlight <- 2,
  MaxRequests <- 4, epochs <- v1, link <- v2, keys <- v3, callbacks <- v4,
  next_request_id <- v5, http <- v6, results <- v7, requests <- v8

Desktop == INSTANCE NodeCall WITH
  Calls <- {1, 2}, Peerings <- {<<n1, n1>>, <<n1, n2>>}, None <- NoValue,
  MaxUser <- 2, MaxEvents <- 1, PeerOf <- v1, active <- v2, phase <- v3,
  incoming <- v4, worker <- v5, events <- v6, left <- v7, _call <- v8,
  objs <- v9, tasks <- v10, timers <- v11, promises <- v12, refused <- v13,
  tracks <- v14, used <- v15, inputs <- v16

Init ==
  \/ /\ focus = "media" /\ Media!Init
     /\ v7 = 0 /\ v8 = 0 /\ v9 = 0 /\ v10 = 0 /\ v11 = 0 /\ v12 = 0 /\
        v13 = 0 /\ v14 = 0 /\ v15 = 0 /\ v16 = 0
  \/ /\ focus = "rates" /\ Rates!Init
     /\ v13 = 0 /\ v14 = 0 /\ v15 = 0 /\ v16 = 0
  \/ /\ focus = "signaling" /\ Signaling!Init
     /\ v6 = 0 /\ v7 = 0 /\ v8 = 0 /\ v9 = 0 /\ v10 = 0 /\
        v11 = 0 /\ v12 = 0 /\ v13 = 0 /\ v14 = 0 /\ v15 = 0 /\ v16 = 0
  \/ /\ focus = "candidates" /\ Ice!Init
     /\ v10 = 0 /\ v11 = 0 /\ v12 = 0 /\ v13 = 0 /\ v14 = 0 /\ v15 = 0 /\
        v16 = 0
  \/ /\ focus = "timer" /\ Timer!Init
     /\ v9 = 0 /\ v10 = 0 /\ v11 = 0 /\ v12 = 0 /\ v13 = 0 /\ v14 = 0 /\
        v15 = 0 /\ v16 = 0
  \/ /\ focus = "summary" /\ Summary!Init
     /\ v15 = 0 /\ v16 = 0
  \/ /\ focus = "stats" /\ Stats!Init
     /\ v15 = 0 /\ v16 = 0
  \/ /\ focus = "audio" /\ Audio!Init
     /\ v15 = 0 /\ v16 = 0
  \/ /\ focus = "windows" /\ Windows!Init
     /\ v12 = 0 /\ v13 = 0 /\ v14 = 0 /\ v15 = 0 /\ v16 = 0
  \/ /\ focus = "mute" /\ Mute!Init
     /\ v9 = 0 /\ v10 = 0 /\ v11 = 0 /\ v12 = 0 /\ v13 = 0 /\ v14 = 0 /\
        v15 = 0 /\ v16 = 0
  \/ /\ focus = "video" /\ Video!Init
     /\ v12 = 0 /\ v13 = 0 /\ v14 = 0 /\ v15 = 0 /\ v16 = 0
  \/ /\ focus = "frames" /\ Frames!Init
     /\ v7 = 0 /\ v8 = 0 /\ v9 = 0 /\ v10 = 0 /\ v11 = 0 /\ v12 = 0 /\
        v13 = 0 /\ v14 = 0 /\ v15 = 0 /\ v16 = 0
  \/ /\ focus = "tracks" /\ Tracks!Init
     /\ v13 = 0 /\ v14 = 0 /\ v15 = 0 /\ v16 = 0
  \/ /\ focus = "links" /\ Links!Init
     /\ v9 = 0 /\ v10 = 0 /\ v11 = 0 /\ v12 = 0 /\ v13 = 0 /\ v14 = 0 /\
        v15 = 0 /\ v16 = 0
  \/ /\ focus = "desktop" /\ Desktop!Init

(* A step of a part leaves the part in focus, and the variables after its n. *)
Rest(n) ==
  /\ UNCHANGED focus
  /\ n <= 5 => v6' = v6
  /\ n <= 6 => v7' = v7
  /\ n <= 7 => v8' = v8
  /\ n <= 8 => v9' = v9
  /\ n <= 9 => v10' = v10
  /\ n <= 10 => v11' = v11
  /\ n <= 11 => v12' = v12
  /\ n <= 12 => v13' = v13
  /\ n <= 13 => v14' = v14
  /\ n <= 14 => v15' = v15
  /\ n <= 15 => v16' = v16

Next ==
  \/ focus = "media" /\ Media!Next /\ Rest(6)
  \/ focus = "rates" /\ Rates!Next /\ Rest(12)
  \/ focus = "signaling" /\ Signaling!Next /\ Rest(5)
  \/ focus = "candidates" /\ Ice!Next /\ Rest(9)
  \/ focus = "timer" /\ Timer!Next /\ Rest(8)
  \/ focus = "summary" /\ Summary!Next /\ Rest(14)
  \/ focus = "stats" /\ Stats!Next /\ Rest(14)
  \/ focus = "audio" /\ Audio!Next /\ Rest(14)
  \/ focus = "windows" /\ Windows!Next /\ Rest(11)
  \/ focus = "mute" /\ Mute!Next /\ Rest(8)
  \/ focus = "video" /\ Video!Next /\ Rest(11)
  \/ focus = "frames" /\ Frames!Next /\ Rest(6)
  \/ focus = "tracks" /\ Tracks!Next /\ Rest(12)
  \/ focus = "links" /\ Links!Next /\ Rest(8)
  \/ focus = "desktop" /\ Desktop!Next /\ Rest(16)

Spec == Init /\ [][Next]_vars

-----------------------------------------------------------------------------
(* The two ends of a 1:1 call agree: signaling messages cross the two         *)
(* applications unchanged and reach exactly the devices they are for          *)
(* (AppSignaling), one end's candidates are those the other has gathered      *)
(* (IceCandidates), both ends of a connection and all forks of a call settle  *)
(* on the same codecs and limits (Negotiation), and the rate in use honours   *)
(* both ends and the relay (SendRates).                                       *)
EndsAgree ==
  /\ focus = "candidates" => Ice!CandidatesMatch
  /\ focus = "signaling" => Signaling!ArrivesAsSent
  /\ focus = "media" => Media!EndsAgree /\ Media!ForksAreApart
  /\ focus = "rates" => Rates!TypeOK /\ Rates!RateHonoursBothEnds

(* Telemetry tells what happened: the latest sets of statistics, none       *)
(* mixing two reports, in a record within its limit (CallSummary), built    *)
(* from increases that add up to WebRTC's counters (StatsObserver), which   *)
(* the timer polls when the observer expects it; and the user hears of low  *)
(* bandwidth when the connection has settled (ConnectionTick).              *)
TelemetryIsTrue ==
  /\ focus = "timer" => Timer!PolledAsTold /\ Timer!LowIsSettled
  /\ focus = "summary" => Summary!SetsAreLatest /\ Summary!RecordFits
  /\ focus = "stats" => Stats!IncreasesAddUp

(* Audio runs on the device that was asked for, whenever WebRTC was told it   *)
(* runs (AudioDevice), every sample passes once, in order (AudioWindows), and *)
(* a desktop captures what its call wants and nothing else (NodeCall).        *)
CapturedAsAsked ==
  /\ focus = "audio" => Audio!StreamAsAsked /\ Audio!ChosenByIdIsUsed
  /\ focus = "windows" => Windows!SamplesInOrder
  /\ focus = "desktop" => Desktop!TypeOK /\ Desktop!MediaFollowsCall

(* What a client shows of remote devices is true of them: who muted whom   *)
(* (RemoteMute), whether a higher resolution is on its way (RemoteVideo),  *)
(* whose track is whose (GroupTracks); and their newest frames decrypt     *)
(* (FrameOrder).                                                           *)
RemoteViewIsTrue ==
  /\ focus = "mute" => Mute!MutesReportedOnce /\ Mute!AttributionIsTrue
  /\ focus = "video" => Video!PendingIsCurrent
  /\ focus = "frames" => Frames!NewFramesDecrypt
  /\ focus = "tracks" => Tracks!TypeOK /\ Tracks!EveryDeviceGetsItsTrack

(* Answers about a call link reach who asked, the names in them can be     *)
(* read, and a key never outlives its link: see CallLinks.                 *)
LinksAnswerTheirHolders ==
  focus = "links" =>
    Links!AnswersReachTheirCallback /\ Links!NameIsReadable /\ Links!OldKeyStaysDead
=============================================================================
