---------------------------- MODULE GroupControls ---------------------------
(***************************************************************************)
(* What a client of a group call asks of the SFU and of its own media, and *)
(* how tick() repeats it (core/group_call.rs): send rates, video requests, *)
(* the raised hand, the low bandwidth notice.  Messages to and from the    *)
(* SFU are RTP data: they get lost and overtake each other.                *)
(*                                                                         *)
(* The client joins once.  Whether a deadline has passed when tick() runs  *)
(* is a choice: time is abstracted.                                        *)
(***************************************************************************)
EXTENDS Naturals, FiniteSets

CONSTANTS
  Devices,      \* devices of others
  SmallCall,    \* devices up to which a call is small (7 in the code)
  MaxInputs     \* bound on what the user, the SFU and other devices do unasked

VARIABLES
  client,      \* the State of the actor
  raises,      \* raise hand messages on their way to the SFU
  hands,       \* raised hands messages on their way to the client
  requests,    \* video requests on their way to the SFU
  sfu,         \* what the SFU holds
  inputs

vars == <<client, raises, hands, requests, sfu, inputs>>

NoRequest == {"no request"}
Rates == {"default", "alone", "share", "small", "large"}

Init ==
  /\ client = [joined |-> FALSE, left |-> FALSE, heartbeats |-> TRUE,
               connected |-> FALSE, remote |-> {}, sharing |-> FALSE,
               rates |-> "default", media |-> TRUE, refused |-> FALSE,
               bwe |-> "Disabled", low |-> FALSE,
               wants |-> NoRequest, onDemand |-> FALSE,
               seqnum |-> 0, raise |-> FALSE, outstanding |-> FALSE, shown |-> FALSE]
  /\ raises = {} /\ hands = {} /\ requests = {}
  /\ sfu = [seqnum |-> 0, raised |-> FALSE, request |-> NoRequest]
  /\ inputs = 0

(***************************************************************************)
(* Send rates, and the media that follow them.                             *)
(***************************************************************************)

compute_send_rates(count, sharing) ==
  CASE count = 0 -> "alone"
    [] count > 0 /\ sharing -> "share"
    [] count \in 1..SmallCall /\ ~sharing -> "small"
    [] OTHER -> "large"

(* Deviation: playout and recording are left as they are for new rates. *)
set_send_rates_only(c, rates, refuses) ==
  IF rates = c.rates THEN c ELSE [c EXCEPT !.rates = IF refuses THEN @ ELSE rates]

(* Media and bandwidth checks go off when alone; then the peer connection  *)
(* takes the rates or refuses them.                                        *)
set_send_rates_inner(c, rates, refuses) ==
  IF rates = c.rates THEN c
  ELSE [c EXCEPT
          !.media = rates # "alone",
          !.bwe = CASE rates = "alone" /\ @ = "At" -> "Disabled"
                    [] rates # "alone" /\ @ = "Disabled" -> "At"
                    [] OTHER -> @,
          !.rates = IF refuses THEN @ ELSE rates,
          !.refused = @ \/ refuses]

(* set_peek_result_inner: the rates are those of the new devices, once     *)
(* this device is seen to be in the call.                                  *)
DevicesUpdated(c, devices, participant, refuses) ==
  LET updated == [c EXCEPT !.remote = devices]
  IN IF participant
     THEN set_send_rates_inner(updated, compute_send_rates(Cardinality(devices), c.sharing),
                               refuses)
     ELSE updated

(***************************************************************************)
(* Messages.                                                               *)
(***************************************************************************)

(* Requests for devices that are not known are left out. *)
VideoRequests(c) == IF c.joined /\ c.wants # NoRequest THEN {c.wants \cap c.remote} ELSE {}

RaiseHands(c) == IF c.joined THEN {[seqnum |-> c.seqnum, raise |-> c.raise]} ELSE {}

Input == inputs < MaxInputs /\ inputs' = inputs + 1

(***************************************************************************)
(* What the application and the SFU client ask for.                        *)
(***************************************************************************)

(* The join is answered: the rates are low until others are seen, which    *)
(* the devices known from before may show.                                 *)
on_sfu_client_join_success(devices, participant, refuses) ==
  /\ ~client.joined /\ ~client.left
  /\ client' = DevicesUpdated(
                 [set_send_rates_inner(client, "alone", refuses) EXCEPT !.joined = TRUE],
                 devices, participant, refuses)
  /\ Input /\ UNCHANGED <<raises, hands, requests, sfu>>

PeekApplied(devices, refuses) ==
  /\ client.joined
  /\ client' = DevicesUpdated(client, devices, TRUE, refuses)
  /\ Input /\ UNCHANGED <<raises, hands, requests, sfu>>

set_sharing_screen(sharing, refuses) ==
  /\ sharing # client.sharing
  /\ client' = set_send_rates_inner([client EXCEPT !.sharing = sharing],
                 compute_send_rates(Cardinality(client.remote), sharing), refuses)
  /\ Input /\ UNCHANGED <<raises, hands, requests, sfu>>

(* At once, if it is the first request since the last heartbeat; else with *)
(* the next heartbeat.                                                     *)
request_video(devices) ==
  LET c == [client EXCEPT !.wants = devices]
  IN /\ client' = [c EXCEPT !.onDemand = TRUE]
     /\ requests' = IF client.onDemand THEN requests ELSE requests \cup VideoRequests(c)
     /\ Input /\ UNCHANGED <<raises, hands, sfu>>

raise_hand(raise) ==
  LET c == [client EXCEPT !.seqnum = @ + 1, !.raise = raise, !.outstanding = TRUE]
  IN /\ client' = c
     /\ raises' = raises \cup RaiseHands(c)
     /\ Input /\ UNCHANGED <<hands, requests, sfu>>

leave_inner ==
  /\ client.joined
  /\ client' = [client EXCEPT !.joined = FALSE, !.left = TRUE, !.media = FALSE,
                              !.heartbeats = FALSE]
  /\ Input /\ UNCHANGED <<raises, hands, requests, sfu>>

IceConnectionChanges ==
  /\ client.joined
  /\ client' = [client EXCEPT !.connected = ~@]
  /\ Input /\ UNCHANGED <<raises, hands, requests, sfu>>

(***************************************************************************)
(* tick()                                                                  *)
(***************************************************************************)

(* With every heartbeat go the video requests. *)
Heartbeat(c) == [c EXCEPT !.onDemand = FALSE]

CheckBandwidth(c, estimate) ==
  CASE c.bwe = "At" /\ c.connected /\ estimate = "low" ->
         [c EXCEPT !.bwe = "RecoveredAt", !.low = TRUE]
    [] c.bwe = "RecoveredAt" /\ estimate = "high" -> [c EXCEPT !.bwe = "None", !.low = FALSE]
    [] OTHER -> c

(* Deviation: a hand is raised once, not until the SFU has answered. *)
tick_without_resend(heartbeat, raises_due, estimate) ==
  LET beats == heartbeat /\ client.heartbeats
      c == CheckBandwidth(IF beats THEN Heartbeat(client) ELSE client, estimate)
  IN /\ client' = c
     /\ requests' = requests \cup (IF beats THEN VideoRequests(client) ELSE {})
     /\ UNCHANGED <<raises, hands, sfu, inputs>>

(* Deviation: a heartbeat goes without the video requests. *)
tick_without_requests(heartbeat, raises_due, estimate) ==
  LET beats == heartbeat /\ client.heartbeats
      c == CheckBandwidth(IF beats THEN Heartbeat(client) ELSE client, estimate)
  IN /\ client' = c
     /\ raises' = raises \cup (IF raises_due /\ client.outstanding THEN RaiseHands(client) ELSE {})
     /\ UNCHANGED <<requests, hands, sfu, inputs>>

tick(heartbeat, raises_due, estimate) ==
  LET beats == heartbeat /\ client.heartbeats
      c == CheckBandwidth(IF beats THEN Heartbeat(client) ELSE client, estimate)
  IN /\ client' = c
     /\ requests' = requests \cup (IF beats THEN VideoRequests(client) ELSE {})
     /\ raises' = raises \cup (IF raises_due /\ client.outstanding THEN RaiseHands(client) ELSE {})
     /\ UNCHANGED <<hands, sfu, inputs>>

(***************************************************************************)
(* The SFU and the network.                                                *)
(***************************************************************************)

(* The SFU's number for this device is 0 if it never heard of its hand. *)
handle_raised_hands(m) ==
  /\ client' = CASE m.seqnum # 0 /\ m.seqnum >= client.seqnum ->
                      [client EXCEPT !.seqnum = m.seqnum, !.outstanding = FALSE,
                                     !.shown = m.raised]
                 [] m.seqnum = 0 /\ client.seqnum = 0 -> [client EXCEPT !.shown = m.raised]
                 [] OTHER -> client
  /\ hands' = hands \ {m}
  /\ UNCHANGED <<raises, requests, sfu, inputs>>

Answer(s) == [seqnum |-> s.seqnum, raised |-> s.raised]

(* A number it has not seen decides; every message is answered. *)
SfuReceivesRaise(m) ==
  LET s == IF m.seqnum > sfu.seqnum
           THEN [sfu EXCEPT !.seqnum = m.seqnum, !.raised = m.raise] ELSE sfu
  IN /\ sfu' = s
     /\ hands' = hands \cup {Answer(s)}
     /\ raises' = raises \ {m}
     /\ UNCHANGED <<client, requests, inputs>>

(* An administrator lowers the hand. *)
SfuLowersHand ==
  LET s == [sfu EXCEPT !.seqnum = @ + 1, !.raised = FALSE]
  IN /\ sfu.raised
     /\ sfu' = s
     /\ hands' = hands \cup {Answer(s)}
     /\ Input /\ UNCHANGED <<client, raises, requests>>

SfuReceivesRequest(r) ==
  /\ sfu' = [sfu EXCEPT !.request = r]
  /\ requests' = requests \ {r}
  /\ UNCHANGED <<client, raises, hands, inputs>>

Lost ==
  /\ \/ \E m \in raises : raises' = raises \ {m} /\ UNCHANGED <<hands, requests>>
     \/ \E m \in hands : hands' = hands \ {m} /\ UNCHANGED <<raises, requests>>
     \/ \E r \in requests : requests' = requests \ {r} /\ UNCHANGED <<raises, hands>>
  /\ Input /\ UNCHANGED <<client, sfu>>

Next ==
  \/ \E devices \in SUBSET Devices, refuses \in BOOLEAN :
       \/ \E participant \in BOOLEAN :
            on_sfu_client_join_success(devices, participant, refuses)
       \/ PeekApplied(devices, refuses)
  \/ \E sharing, refuses \in BOOLEAN : set_sharing_screen(sharing, refuses)
  \/ \E devices \in SUBSET Devices : request_video(devices)
  \/ \E raise \in BOOLEAN : raise_hand(raise)
  \/ leave_inner \/ IceConnectionChanges
  \/ \E heartbeat, raises_due \in BOOLEAN, estimate \in {"low", "middling", "high"} :
       tick(heartbeat, raises_due, estimate)
  \/ \E m \in hands : handle_raised_hands(m)
  \/ \E m \in raises : SfuReceivesRaise(m)
  \/ \E r \in requests : SfuReceivesRequest(r)
  \/ SfuLowersHand \/ Lost

(* tick() runs every 200 ms, and its deadlines pass.  A message that is    *)
(* sent again and again arrives, and a network loses finitely many.        *)
Fair(i) ==
  \/ i = 1 /\ tick(TRUE, TRUE, "middling")
  \/ i = 2 /\ \E m \in hands : handle_raised_hands(m)
  \/ i = 3 /\ \E m \in raises : SfuReceivesRaise(m)
  \/ i = 4 /\ \E r \in requests : SfuReceivesRequest(r)

Spec == Init /\ [][Next]_vars

-----------------------------------------------------------------------------

(* In a call this device is part of, media flow exactly when others are    *)
(* there and the rates fit their number and the shared screen, whichever   *)
(* of the handlers changed those last.  Rates the peer connection refused  *)
(* are excepted: see the hazards.                                          *)
MediaFollowsDevices ==
  client.joined /\ ~client.refused /\ client.rates # "default" =>
    /\ client.media <=> client.rates # "alone"
    /\ client.rates # "alone" =>
         client.rates = compute_send_rates(Cardinality(client.remote), client.sharing)

(* Whoever raises or lowers a hand gets an answer, and the hand the         *)
(* application shows is then the one the SFU has under that number,        *)
(* however requests, answers, losses and an administrator cross each other.*)
HandIsSettled ==
  client.joined =>
    /\ ~client.outstanding
    /\ client.seqnum > 0 /\ client.seqnum = sfu.seqnum => client.shown = sfu.raised

(* The SFU ends up with the latest video request, for the devices that are *)
(* there, although requests between two heartbeats are held back.          *)
RequestIsKnown ==
  client.joined /\ client.wants # NoRequest => sfu.request = client.wants \cap client.remote
=============================================================================
