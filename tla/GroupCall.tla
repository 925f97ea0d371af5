----------------------------- MODULE GroupCall -----------------------------
(***************************************************************************)
(* The client of a group call (core/group_call.rs).  All of its state      *)
(* belongs to one actor, so a handler is one step; what makes it hard is   *)
(* that requests to the SFU (the server) are answered later, when the user *)
(* may have left, joined again or ended the call, that answers overtake    *)
(* each other, and that end() finishes in a delayed task.                  *)
(*                                                                         *)
(* The handlers call each other, so each is an operator from a state of    *)
(* the client to the next, under the name it has in the code.              *)
(*                                                                         *)
(* The client is one of a Signal group (GroupCallKind::SignalGroup).  The  *)
(* SFU gives this device the demux id Local in every join.  Time is        *)
(* abstracted: whether a request is old enough is the parameter `late'.    *)
(***************************************************************************)
EXTENDS Naturals, FiniteSets

CONSTANTS
  Devices,    \* devices of other members
  Local,      \* this device
  Creators,   \* who may have created the call, as the SFU tells it
  MaxJoins,   \* bound on join requests
  MaxPeeks,   \* bound on peek requests in flight when the client polls
  MaxInputs   \* bound on what the user, the network and the SFU do unasked

ASSUME GroupCallAssumption ==
  /\ Local \notin Devices
  /\ Creators \subseteq {"none", "self", "other"}
  /\ MaxJoins \in Nat /\ MaxPeeks \in Nat \ {0} /\ MaxInputs \in Nat

NoPeek == {"no peek"}

Peeks == SUBSET (Devices \cup {Local})

VARIABLES
  state,        \* the actor's State
  stopped,      \* the actor is stopped
  sfu,          \* the devices in the call, as the SFU knows them
  auth,         \* HttpSfuClient: auth_header is set
  deferred,     \* HttpSfuClient: deferred_join is set
  joins,        \* join requests the SFU has not answered
  pending,      \* this device waits to be admitted to the call
  joinAnswers,  \* its answers on their way
  peekAnswers,  \* answers to peeks, and updates it sends unasked
  told,         \* history: how often handle_ended was called
  inputs

external == <<sfu, auth, deferred, joins, pending, joinAnswers, peekAnswers>>
vars == <<state, stopped, external, told, inputs>>

Statuses == {"Joined", "Pending"}
InCall(s) == s.join \in Statuses

OutgoingRingState == {"Unknown", "Permitted", "Wants", "HasSent", "NotPermitted"}

State == [conn : {"NotConnected", "Connecting", "Connected", "Reconnecting"},
          join : {"NotJoined", "Joining"} \cup Statuses,
          attempt : 0..MaxJoins,     \* of the latest join()
          dhe : {"NotYetStarted", "Waiting", "Negotiated", "Failed"},
          sfuInfo : BOOLEAN,         \* sfu_info is set: the peer connection was started
          busy : {"free", "mine", "other"},
          request : {"WaitingForMembershipProof", "NeverRequested", "Requested",
                     "Updated", "Failed"},
          again : BOOLEAN,           \* should_request_again
          asks : Nat,                \* peek requests the SFU has not answered
          lastPeek : Peeks \cup {NoPeek},
          remote : SUBSET Devices,   \* remote_devices
          ring : OutgoingRingState,
          alone : BOOLEAN,           \* history: rang in the call, nobody came since
          ticking : BOOLEAN,
          ends : Nat,                \* delayed tasks of end()
          lateJoin : BOOLEAN,        \* history: joined when such a task was waiting
          configured : Nat]          \* history: on_client_joined in this join

Init ==
  /\ state = [conn |-> "NotConnected", join |-> "NotJoined", attempt |-> 0,
              dhe |-> "NotYetStarted", sfuInfo |-> FALSE, busy |-> "free",
              request |-> "WaitingForMembershipProof", again |-> FALSE, asks |-> 0,
              lastPeek |-> NoPeek, remote |-> {},
              ring |-> "Unknown", alone |-> FALSE,
              ticking |-> FALSE, ends |-> 0, lateJoin |-> FALSE, configured |-> 0]
  /\ stopped = FALSE
  /\ sfu \in SUBSET Devices
  /\ auth = FALSE /\ deferred = FALSE /\ joins = 0 /\ pending = FALSE
  /\ joinAnswers = {} /\ peekAnswers = {}
  /\ told = 0 /\ inputs = 0

(***************************************************************************)
(* The handlers.                                                           *)
(***************************************************************************)

(* Deviation: a failed request is not repeated. *)
maybe_request_unless_failed(s, soon, late) ==
  LET now == \/ s.request = "NeverRequested"
             \/ s.request = "Requested" /\ late
             \/ s.request = "Updated" /\ (soon \/ late)
  IN IF now
     THEN [s EXCEPT !.request = "Requested", !.again = FALSE, !.asks = @ + 1]
     ELSE [s EXCEPT !.again = @ \/ (soon /\ s.request = "Requested")]

(* A request in flight that times out, a failure, or devices that were     *)
(* updated a while ago are asked for again when that is `late'.            *)
maybe_request_remote_devices(s, soon, late) ==
  LET now == \/ s.request = "NeverRequested"
             \/ s.request \in {"Requested", "Failed"} /\ late
             \/ s.request = "Updated" /\ (soon \/ late)
  IN IF now
     THEN [s EXCEPT !.request = "Requested", !.again = FALSE, !.asks = @ + 1]
     ELSE [s EXCEPT !.again = @ \/ (soon /\ s.request = "Requested")]

RequestSoon(s, late) == maybe_request_remote_devices(s, TRUE, late)

ring_inner(s) ==
  CASE s.ring = "Permitted" ->
         [s EXCEPT !.ring = IF s.remote = {} THEN "HasSent" ELSE "NotPermitted",
                   !.alone = s.remote = {} /\ InCall(s)]
    [] s.ring = "Unknown" -> [s EXCEPT !.ring = "Wants"]
    [] OTHER -> s

(* The ring stays HasSent; a cancellation may be repeated. *)
cancel_full_group_ring_if_needed(s) ==
  IF s.ring = "HasSent" THEN [s EXCEPT !.alone = FALSE] ELSE s

(* Deviation: leaving before the SFU has answered returns early. *)
leave_when_joined(s) ==
  IF ~InCall(s)
  THEN [cancel_full_group_ring_if_needed(s) EXCEPT !.join = "NotJoined"]
  ELSE [cancel_full_group_ring_if_needed(s) EXCEPT
          !.busy = "free", !.join = "NotJoined", !.configured = 0]

(* Deviation: the ring is cancelled only by a device that was admitted. *)
leave_cancels_if_joined(s) ==
  IF s.join = "NotJoined"
  THEN cancel_full_group_ring_if_needed(s)
  ELSE [IF s.join = "Joined" THEN cancel_full_group_ring_if_needed(s) ELSE s EXCEPT
          !.busy = "free", !.join = "NotJoined", !.configured = 0]

leave_inner(s) ==
  IF s.join = "NotJoined"
  THEN cancel_full_group_ring_if_needed(s)
  ELSE [cancel_full_group_ring_if_needed(s) EXCEPT
          !.busy = "free", !.join = "NotJoined", !.configured = 0]

(* The rest of end() is the delayed task EndTask. *)
end(s) ==
  LET left == IF s.join = "NotJoined" THEN s ELSE leave_inner(s)
  IN IF left.conn = "NotConnected" THEN left ELSE [left EXCEPT !.ends = @ + 1]

on_client_joined(s) == [s EXCEPT !.configured = @ + 1]

(* What set_peek_result_inner does when joined, with SRTP keys. *)
RemoteDevicesUpdated(s, peek) ==
  LET new == peek \ {Local}
      updated == [s EXCEPT !.remote = new]
      joined == IF s.join = "Pending" /\ Local \in peek
                THEN on_client_joined([updated EXCEPT !.join = "Joined"])
                ELSE updated
  IN IF new = {} THEN joined
     ELSE [joined EXCEPT !.alone = FALSE,
                         !.ring = IF @ = "HasSent" THEN "NotPermitted" ELSE @]

(* Changed devices are pushed down to the peer connection, which may       *)
(* refuse them: then the call ends, with the update half done.             *)
set_peek_result_inner(s, peek, refused) ==
  LET applies == InCall(s) /\ s.dhe = "Negotiated"
      received == [s EXCEPT !.request = "Updated", !.again = FALSE]
      updated == IF applies THEN RemoteDevicesUpdated(received, peek) ELSE received
      kept == [updated EXCEPT !.lastPeek = peek]
  IN IF applies /\ s.sfuInfo /\ peek \ {Local} # s.remote /\ refused
     THEN end([received EXCEPT !.remote = peek \ {Local}])
     ELSE IF s.request = "Requested" /\ s.again THEN RequestSoon(kept, FALSE) ELSE kept

(* The creator of the call may ring the group. *)
RingPermission(s, creator) ==
  LET known == [s EXCEPT !.ring = IF creator = "self" THEN "Permitted" ELSE "NotPermitted"]
  IN CASE creator = "none" -> s
       [] s.ring = "Wants" -> ring_inner(known)
       [] OTHER -> known

(* Deviation: only the current join state is looked at. *)
JoinCompletesTwice(s, status, creator, late, refused) ==
  LET requested == [RequestSoon(s, late) EXCEPT !.join = status]
      peeked == IF s.lastPeek = NoPeek THEN requested
                ELSE set_peek_result_inner(requested, s.lastPeek, refused)
      joined == IF peeked.join = "Joined" THEN on_client_joined(peeked) ELSE peeked
  IN RingPermission(joined, creator)

(* The second half of on_sfu_client_join_success: the devices known from   *)
(* before are taken as if they had just come from the SFU.                 *)
JoinCompletes(s, status, creator, late, refused) ==
  LET requested == [RequestSoon(s, late) EXCEPT !.join = status]
      peeked == IF s.lastPeek = NoPeek THEN requested
                ELSE set_peek_result_inner(requested, s.lastPeek, refused)
      joined == IF status = "Joined" /\ peeked.join = "Joined"
                THEN on_client_joined(peeked) ELSE peeked
  IN RingPermission(joined, creator)

(* The SRTP keys are negotiated, and the peer connection started, when the *)
(* client is Connecting; either may fail.                                  *)
on_sfu_client_join_success(s, status, creator, late, fails, refused) ==
  LET connects == s.conn = "Connecting"
      negotiated == CASE ~connects \/ s.dhe # "Waiting" -> s
                      [] fails = "keys" -> [s EXCEPT !.dhe = "Failed"]
                      [] OTHER -> [s EXCEPT !.dhe = "Negotiated"]
      started == [negotiated EXCEPT !.sfuInfo = @ \/ connects]
  IN CASE connects /\ (negotiated.dhe # "Negotiated" \/ fails = "start") -> end(negotiated)
       [] s.join = "Joining" -> JoinCompletes(started, status, creator, late, refused)
       [] OTHER -> started

(***************************************************************************)
(* Steps of the actor.                                                     *)
(***************************************************************************)

Runs(s) == ~stopped /\ state' = s /\ UNCHANGED stopped

(* Once the actor has stopped nothing more is of interest. *)
Input == ~stopped /\ inputs < MaxInputs /\ inputs' = inputs + 1

NoInput == ~stopped /\ UNCHANGED inputs

connect ==
  /\ state.conn = "NotConnected"
  /\ \E late \in BOOLEAN :
       Runs(maybe_request_remote_devices(
              [state EXCEPT !.conn = "Connecting", !.ticking = TRUE],
              FALSE, late))
  /\ NoInput /\ UNCHANGED <<external, told>>

(* The request goes to the SFU now or waits for a membership proof. *)
JoinSent ==
  /\ state.attempt < MaxJoins
  /\ Runs([state EXCEPT !.busy = "mine", !.join = "Joining", !.dhe = "Waiting",
                        !.attempt = @ + 1, !.lateJoin = @ \/ state.ends > 0])
  /\ IF auth THEN joins' = joins + 1 /\ UNCHANGED deferred
             ELSE deferred' = TRUE /\ UNCHANGED joins
  /\ NoInput

join ==
  /\ state.join = "NotJoined"
  /\ \/ state.busy = "free" /\ JoinSent
     \/ state.busy # "free" /\ Input /\ Runs(end(state)) /\ UNCHANGED <<joins, deferred>>
  /\ UNCHANGED <<sfu, auth, pending, joinAnswers, peekAnswers, told>>

leave ==
  /\ IF state.join = "NotJoined" THEN Input ELSE NoInput
  /\ Runs(leave_inner(state))
  /\ UNCHANGED <<external, told>>

(* disconnect(), and being removed by an administrator, end the call. *)
disconnect ==
  /\ Input /\ Runs(end(state))
  /\ UNCHANGED <<external, told>>

ring ==
  /\ state.ring \in {"Unknown", "Permitted"}
  /\ Input /\ Runs(ring_inner(state))
  /\ UNCHANGED <<external, told>>

set_membership_proof ==
  /\ ~auth
  /\ auth' = TRUE
  /\ deferred' = FALSE
  /\ joins' = IF deferred THEN joins + 1 ELSE joins
  /\ Runs(IF state.request = "WaitingForMembershipProof"
          THEN RequestSoon([state EXCEPT !.request = "NeverRequested"], FALSE)
          ELSE state)
  /\ NoInput /\ UNCHANGED <<sfu, pending, joinAnswers, peekAnswers, told>>

(* Members changed, a key or a heartbeat came from an unknown device, the  *)
(* SFU told of a device without saying who is in the call, or a device     *)
(* says that it leaves (now, and once more two seconds later).             *)
DevicesMayHaveChanged ==
  /\ Input
  /\ \E late \in BOOLEAN : Runs(RequestSoon(state, late))
  /\ UNCHANGED <<external, told>>

tick(late) ==
  /\ state.ticking
  /\ state.asks + Cardinality(peekAnswers) < MaxPeeks
  /\ Runs(maybe_request_remote_devices(state, FALSE, late))
  /\ NoInput /\ UNCHANGED <<external, told>>

handle_ice_connection_state_changed(ice) ==
  /\ state.sfuInfo
  /\ Input
  /\ Runs(CASE state.conn = "Connecting" /\ ice = "Disconnected" -> end(state)
            [] ice = "Failed" -> end(state)
            [] state.conn \in {"Connecting", "Reconnecting"} /\ ice = "Connected" ->
                 [state EXCEPT !.conn = "Connected"]
            [] state.conn = "Connected" /\ ice \in {"Checking", "Disconnected"} ->
                 [state EXCEPT !.conn = "Reconnecting"]
            [] OTHER -> state)
  /\ UNCHANGED <<external, told>>

PeekSucceeds(peek) ==
  /\ peek \in peekAnswers /\ peekAnswers' = peekAnswers \ {peek}
  /\ \/ NoInput /\ Runs(set_peek_result_inner(state, peek, FALSE))
     \/ Input /\ Runs(set_peek_result_inner(state, peek, TRUE))
  /\ UNCHANGED <<sfu, auth, deferred, joins, pending, joinAnswers, told>>

PeekFails ==
  /\ state.asks > 0
  /\ Input
  /\ Runs([state EXCEPT !.request = "Failed", !.again = FALSE, !.asks = @ - 1])
  /\ UNCHANGED <<external, told>>

JoinSucceeds(status, creator) ==
  /\ status \in joinAnswers /\ joinAnswers' = joinAnswers \ {status}
  /\ \E late \in BOOLEAN :
       \/ /\ NoInput
          /\ Runs(on_sfu_client_join_success(state, status, creator, late, "no", FALSE))
       \/ /\ Input
          /\ \E fails \in {"no", "keys", "start"} :
               Runs(on_sfu_client_join_success(state, status, creator, late, fails, TRUE))
  /\ UNCHANGED <<sfu, auth, deferred, joins, pending, peekAnswers, told>>

on_sfu_client_join_failure ==
  /\ joins > 0 /\ joins' = joins - 1
  /\ Input /\ Runs(end(state))
  /\ UNCHANGED <<sfu, auth, deferred, pending, joinAnswers, peekAnswers, told>>

(* Deviation: the actor goes on. *)
EndTaskGoesOn ==
  /\ state.ends > 0 /\ ~stopped
  /\ state' = [state EXCEPT !.conn = "NotConnected", !.ends = @ - 1]
  /\ told' = told + 1
  /\ NoInput /\ UNCHANGED <<stopped, external>>

(* The delayed task of end(): it stops the actor, and with it every task   *)
(* that is still queued.                                                   *)
EndTask ==
  /\ state.ends > 0 /\ ~stopped
  /\ state' = [state EXCEPT !.conn = "NotConnected", !.ends = @ - 1]
  /\ stopped' = TRUE
  /\ told' = told + 1
  /\ NoInput /\ UNCHANGED external

(***************************************************************************)
(* The SFU, as the client sees it.                                         *)
(***************************************************************************)

DeviceJoins(d) ==
  /\ d \notin sfu /\ sfu' = sfu \cup {d}
  /\ Input
  /\ UNCHANGED <<state, stopped, auth, deferred, joins, pending, joinAnswers, peekAnswers, told>>

DeviceLeaves(d) ==
  /\ d \in sfu /\ sfu' = sfu \ {d}
  /\ Input
  /\ UNCHANGED <<state, stopped, auth, deferred, joins, pending, joinAnswers, peekAnswers, told>>

SfuAnswersJoin ==
  /\ joins > 0 /\ joins' = joins - 1
  /\ \E status \in Statuses \ joinAnswers :
       /\ joinAnswers' = joinAnswers \cup {status}
       /\ pending' = (status = "Pending")
       /\ sfu' = IF status = "Joined" THEN sfu \cup {Local} ELSE sfu \ {Local}
  /\ NoInput /\ UNCHANGED <<state, stopped, auth, deferred, peekAnswers, told>>

SfuAdmits ==
  /\ pending /\ pending' = FALSE
  /\ sfu' = sfu \cup {Local}
  /\ NoInput
  /\ UNCHANGED <<state, stopped, auth, deferred, joins, joinAnswers, peekAnswers, told>>

(* After a leave message, or a while without one. *)
SfuDrops ==
  /\ state.join = "NotJoined"
  /\ pending \/ Local \in sfu
  /\ pending' = FALSE /\ sfu' = sfu \ {Local}
  /\ Input
  /\ UNCHANGED <<state, stopped, auth, deferred, joins, joinAnswers, peekAnswers, told>>

SfuAnswersPeek ==
  /\ state.asks > 0 /\ state' = [state EXCEPT !.asks = @ - 1]
  /\ sfu \notin peekAnswers /\ peekAnswers' = peekAnswers \cup {sfu}
  /\ NoInput /\ UNCHANGED <<stopped, sfu, auth, deferred, joins, pending, joinAnswers, told>>

(* DeviceJoinedOrLeft, with the devices in the call. *)
SfuTellsDevices ==
  /\ state.conn = "Connected" /\ Local \in sfu
  /\ sfu \notin peekAnswers /\ peekAnswers' = peekAnswers \cup {sfu}
  /\ Input
  /\ UNCHANGED <<state, stopped, sfu, auth, deferred, joins, pending, joinAnswers, told>>

(***************************************************************************)
(* The call manager and its other calls, which share the busy flag.        *)
(***************************************************************************)

OtherCallStarts ==
  /\ state.busy = "free" /\ state' = [state EXCEPT !.busy = "other"]
  /\ Input /\ UNCHANGED <<stopped, external, told>>

OtherCallEnds ==
  /\ state.busy = "other" /\ state' = [state EXCEPT !.busy = "free"]
  /\ NoInput /\ UNCHANGED <<stopped, external, told>>

Next ==
  \/ connect \/ join \/ leave \/ disconnect \/ ring
  \/ set_membership_proof \/ DevicesMayHaveChanged
  \/ \E d \in Devices : DeviceJoins(d) \/ DeviceLeaves(d)
  \/ \E late \in BOOLEAN : tick(late)
  \/ \E ice \in {"Checking", "Connected", "Disconnected", "Failed"} :
       handle_ice_connection_state_changed(ice)
  \/ \E peek \in Peeks : PeekSucceeds(peek)
  \/ \E status \in Statuses, creator \in Creators : JoinSucceeds(status, creator)
  \/ PeekFails \/ on_sfu_client_join_failure \/ EndTask
  \/ SfuAnswersJoin \/ SfuAdmits \/ SfuDrops \/ SfuAnswersPeek \/ SfuTellsDevices
  \/ OtherCallStarts \/ OtherCallEnds

(* The actor runs its tasks, time passes between ticks, and the SFU        *)
(* answers peeks (failures are inputs).                                    *)
Fairness ==
  /\ WF_vars(tick(TRUE))
  /\ WF_vars(SfuAnswersPeek)
  /\ WF_vars(\E peek \in Peeks : PeekSucceeds(peek))

Spec == Init /\ [][Next]_vars

FairSpec == Spec /\ Fairness

-----------------------------------------------------------------------------

TypeOK ==
  /\ state \in State
  /\ stopped \in BOOLEAN /\ auth \in BOOLEAN /\ deferred \in BOOLEAN /\ pending \in BOOLEAN
  /\ sfu \in Peeks /\ peekAnswers \subseteq Peeks /\ joinAnswers \subseteq Statuses
  /\ joins \in 0..MaxJoins /\ told \in Nat
  /\ inputs \in 0..MaxInputs

(* The busy flag is this client's from join() to the end of its            *)
(* participation, whatever ends it, and other calls' otherwise; when the   *)
(* actor has stopped the flag is not left behind.  A join() that comes     *)
(* while the task of end() waits is excepted.  (TypeOK is a part of it.)   *)
BusyWhileJoined ==
  /\ TypeOK
  /\ state.busy = "mine" <=> state.join # "NotJoined"
  /\ stopped /\ ~state.lateJoin => state.join = "NotJoined"

(* However often and for whatever reasons a call is ended, the application *)
(* hears of it once.                                                       *)
EndedOnce == told <= 1

(* on_client_joined runs once in every join, whether the SFU's answer, the *)
(* devices known from before, or a later peek shows that this device is    *)
(* in the call.                                                            *)
ConfiguredOnce == state.configured = (IF state.join = "Joined" THEN 1 ELSE 0)

(* Whoever rings an empty call and leaves before anyone came does not      *)
(* leave the group ringing.                                                *)
RingIsCancelled == state.alone => InCall(state)

(* With requests failing, timing out and overtaking each other, the client *)
(* that polls ends up with the devices the SFU has, also as the remote     *)
(* devices of a call it has joined.                                        *)
SeesTheCall ==
  \/ stopped \/ ~state.ticking \/ ~auth
  \/ /\ state.lastPeek = sfu
     /\ InCall(state) /\ state.dhe = "Negotiated" => state.remote = sfu \ {Local}

ViewCatchesUp == <>[]SeesTheCall
=============================================================================
