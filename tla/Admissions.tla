------------------------------ MODULE Admissions -------------------------------
(***************************************************************************)
(* Who is in a call-link call, as one of its admins sees and decides it.   *)
(* The client learns of devices by peeking: over HTTP, when asked to, or   *)
(* from a notice of the SFU that carries a peek.  It names a user's device *)
(* when it approves or denies a request to join, and a device when it      *)
(* removes or blocks one.  A device that leaves tells the SFU twice over   *)
(* an unreliable channel, and tells the others through the SFU and over    *)
(* signaling; whoever hears of it asks the SFU at once, and once more      *)
(* after two seconds in case the SFU had not heard yet.  The SFU is        *)
(* modelled from how the client uses it.                                   *)
(***************************************************************************)
EXTENDS Naturals, Sequences, FiniteSets

CONSTANTS
    Devices,      \* the other devices, one demux id for every join
    UserOf,       \* the user of each device
    Self,         \* the client's own user
    None,
    Leavers,      \* the devices that may leave, a bound
    MaxInputs     \* bound on the admin's actions, notices and periodic peeks

VARIABLES
    kind,         \* "SignalGroup" or "CallLink"
    sfu,          \* device -> "new", "pending", "joined", "left" or "dropped"
    quit,         \* the devices that have left
    leaves,       \* Leave messages on their way to the SFU
    leavings,     \* Leaving messages on their way to the client: <<path, device>>
    notices,      \* the SFU's notices on their way to the client
    admin,        \* the admin's actions on their way to the SFU, a reliable stream
    join_state,   \* of the client: "joined" or "left"
    peek,         \* last_peek_info
    heard,        \* the remote devices with leaving_received
    request,      \* remote_devices_request_state
    flight,       \* the peeks over HTTP: None until the SFU answers
    delayed,      \* the devices whose second request waits
    told,         \* the signaling messages sent: <<api, user>> -> how often
    inputs

vars == <<kind, sfu, quit, leaves, leavings, notices, admin, join_state, peek,
          heard, request, flight, delayed, told, inputs>>

\* what only the SFU and the other devices change, and what only the client does
world == <<kind, sfu, quit, leaves>>
view == <<peek, heard, request, flight>>

Users == {UserOf[d] : d \in Devices} \union {Self}

In(status) == {d \in Devices : sfu[d] = status}

Snapshot == [pending |-> In("pending"), joined |-> In("joined")]

TypeOK ==
    /\ sfu \in [Devices -> {"new", "pending", "joined", "left", "dropped"}]
    /\ quit \subseteq Devices /\ leaves \subseteq Devices
    /\ leavings \subseteq {"rtp", "signaling"} \X Devices
    /\ heard \subseteq peek.joined
    /\ request \in [state : {"requested", "updated"}, again : BOOLEAN]
    /\ delayed \subseteq Devices

Init ==
    /\ kind \in {"SignalGroup", "CallLink"}
    /\ sfu \in [Devices -> {"new", "joined"}
                            \union IF kind = "CallLink" THEN {"pending"} ELSE {}]
    /\ quit = {} /\ leaves = {} /\ leavings = {} /\ delayed = {} /\ heard = {}
    /\ notices = <<>> /\ admin = <<>> /\ flight = <<>>
    /\ join_state = "joined"
    /\ peek = Snapshot
    /\ request = [state |-> "updated", again |-> FALSE]
    /\ told = [m \in {"group", "user"} \X Users |-> 0]
    /\ inputs = 0

-----------------------------------------------------------------------------
(* The client's view.                                                        *)

Asks == /\ request' = [state |-> "requested", again |-> FALSE]
        /\ flight' = Append(flight, None)

\* ask now, or once more when the answer that is awaited has come
request_remote_devices_as_soon_as_possible ==
    IF request.state = "updated" THEN Asks
    ELSE request' = [request EXCEPT !.again = TRUE] /\ UNCHANGED flight

\* a peek is applied; rest are the requests still awaited
set_peek_result_inner(result, rest) ==
    /\ peek' = result
    /\ heard' = heard \intersect result.joined
    /\ IF request.state = "requested" /\ request.again
       THEN /\ request' = [state |-> "requested", again |-> FALSE]
            /\ flight' = Append(rest, None)
       ELSE /\ request' = [state |-> "updated", again |-> FALSE]
            /\ flight' = rest

AsksOnce(d) == UNCHANGED delayed

AsksTwice(d) == delayed' = delayed \union {d}

\* only the first message about a device the client knows counts
handle_leaving_received(d) ==
    IF d \in peek.joined /\ d \notin heard
    THEN /\ heard' = heard \union {d}
         /\ request_remote_devices_as_soon_as_possible
         /\ AsksTwice(d)
         /\ UNCHANGED peek
    ELSE UNCHANGED <<view, delayed>>

\* a Leaving message through the SFU; one from an unknown device asks as well
handle_rtp_received(d) ==
    /\ <<"rtp", d>> \in leavings
    /\ leavings' = leavings \ {<<"rtp", d>>}
    /\ IF d \in peek.joined THEN handle_leaving_received(d)
       ELSE /\ request_remote_devices_as_soon_as_possible
            /\ UNCHANGED <<peek, heard, delayed>>
    /\ UNCHANGED <<world, inputs, notices, admin, join_state, told>>

on_signaling_message_received(d) ==
    /\ <<"signaling", d>> \in leavings
    /\ leavings' = leavings \ {<<"signaling", d>>}
    /\ handle_leaving_received(d)
    /\ UNCHANGED <<world, inputs, notices, admin, join_state, told>>

\* two seconds later: the Leave message has reached the SFU by then, or is lost
AsksAgain(d) ==
    /\ d \in delayed \ leaves
    /\ delayed' = delayed \ {d}
    /\ request_remote_devices_as_soon_as_possible
    /\ UNCHANGED <<world, inputs, leavings, notices, admin, join_state, told,
                   peek, heard>>

\* a notice brings a peek, or the news that there is something to peek at
handle_sfu_to_device_inner ==
    /\ notices # <<>>
    /\ notices' = Tail(notices)
    /\ IF Head(notices) # None THEN set_peek_result_inner(Head(notices), flight)
       ELSE /\ request_remote_devices_as_soon_as_possible
            /\ UNCHANGED <<peek, heard>>
    /\ UNCHANGED <<world, inputs, leavings, admin, join_state, delayed, told>>

PeekAnswered(i) ==
    /\ flight[i] # None
    /\ set_peek_result_inner(flight[i],
                             SubSeq(flight, 1, i - 1) \o SubSeq(flight, i + 1, Len(flight)))
    /\ UNCHANGED <<world, inputs, leavings, notices, admin, join_state, delayed, told>>

\* the tick's peek when the last one is old
Polls ==
    /\ inputs < MaxInputs /\ request.state = "updated"
    /\ inputs' = inputs + 1
    /\ Asks
    /\ UNCHANGED <<world, leavings, notices, admin, join_state,
                   delayed, told, peek, heard>>

-----------------------------------------------------------------------------
(* What the app asks of the client.                                          *)

reliable_send_device_to_sfu(action) ==
    /\ admin' = Append(admin, action)
    /\ inputs' = inputs + 1
    /\ UNCHANGED <<world, view, leavings, notices, join_state,
                   delayed, told>>

AnyPending(d, u) == d \in peek.pending

\* the first of the user's devices the peek lists as pending
Named(d, u) == d \in peek.pending /\ UserOf[d] = u

approve_or_deny_user(u, verdict) ==
    \E d \in Devices :
        /\ Named(d, u)
        /\ reliable_send_device_to_sfu([type |-> verdict, target |-> d, meant |-> u])

approve_user(u) == approve_or_deny_user(u, "approve")

deny_user(u) == approve_or_deny_user(u, "deny")

remove_client(d) ==
    reliable_send_device_to_sfu([type |-> "remove", target |-> d, meant |-> UserOf[d]])

block_client(d) ==
    reliable_send_device_to_sfu([type |-> "block", target |-> d, meant |-> UserOf[d]])

AppActs ==
    /\ inputs < MaxInputs
    /\ \/ \E u \in Users : approve_user(u) \/ deny_user(u)
       \/ \E d \in peek.joined : remove_client(d) \/ block_client(d)

joined_members == {UserOf[d] : d \in peek.joined} \union {Self}

\* the messages of a set of users through one of the two sending calls
Sends(api, users) == {api} \X users

send_signaling_message_to_group(users) == Sends("group", users)

send_signaling_message(users) == Sends("user", users)

SelfIncluded == joined_members

\* the multi-recipient call is for groups, for more than one user, and never
\* for the user's own other devices
Recipients == joined_members \ {Self}

send_leaving_through_sfu_and_over_signaling ==
    LET messages == (IF Cardinality(Recipients) > 1 /\ kind = "SignalGroup"
                     THEN send_signaling_message_to_group(Recipients)
                     ELSE send_signaling_message(Recipients))
                    \union send_signaling_message({Self})
    IN  told' = [m \in DOMAIN told |-> told[m] + IF m \in messages THEN 1 ELSE 0]

leave ==
    /\ join_state' = "left"
    /\ send_leaving_through_sfu_and_over_signaling
    /\ UNCHANGED <<world, view, inputs, leavings, notices, admin, delayed>>

-----------------------------------------------------------------------------
(* The SFU and the other devices.                                            *)

client == <<admin, join_state, view, delayed, told>>

Arrives(d) ==
    /\ sfu[d] = "new"
    /\ sfu' = [sfu EXCEPT ![d] = IF kind = "CallLink" THEN "pending" ELSE "joined"]
    /\ UNCHANGED <<kind, quit, leaves, leavings, notices, client, inputs>>

\* a device leaves: one or both of the ways to tell the others may fail
send_leave_to_sfu(d) ==
    /\ d \in Leavers \ quit
    /\ sfu[d] \in {"pending", "joined"}
    /\ quit' = quit \union {d}
    /\ leaves' = leaves \union {d}
    /\ \E paths \in SUBSET {"rtp", "signaling"} :
        leavings' = leavings \union (paths \X {d})
    /\ UNCHANGED <<kind, sfu, notices, client, inputs>>

\* one of the two Leave messages reaches the SFU, or neither
LeaveReaches(d) ==
    /\ d \in leaves
    /\ leaves' = leaves \ {d}
    /\ sfu' = [sfu EXCEPT ![d] = IF @ = "dropped" THEN @ ELSE "left"]
    /\ UNCHANGED <<kind, quit, leavings, notices, client, inputs>>

LeaveLost(d) ==
    /\ d \in leaves
    /\ leaves' = leaves \ {d}
    /\ UNCHANGED <<kind, sfu, quit, leavings, notices, client, inputs>>

\* the SFU drops a device it no longer hears from
SfuTimesOut(d) ==
    /\ d \in quit \ leaves /\ sfu[d] \in {"pending", "joined"}
    /\ sfu' = [sfu EXCEPT ![d] = "dropped"]
    /\ UNCHANGED <<kind, quit, leaves, leavings, notices, client, inputs>>

SfuNotifies ==
    /\ inputs < MaxInputs
    /\ inputs' = inputs + 1
    /\ \E n \in {Snapshot, None} : notices' = Append(notices, n)
    /\ UNCHANGED <<world, leavings, client>>

SfuAnswers(i) ==
    /\ flight[i] = None
    /\ flight' = [flight EXCEPT ![i] = Snapshot]
    /\ UNCHANGED <<world, inputs, leavings, notices, admin, join_state, delayed,
                   told, peek, heard, request>>

SfuObeys ==
    /\ admin # <<>>
    /\ admin' = Tail(admin)
    /\ LET a == Head(admin)
           hit == [approve |-> {a.target} \intersect In("pending"),
                   deny |-> {a.target} \intersect In("pending"),
                   remove |-> {a.target} \intersect In("joined"),
                   block |-> {d \in In("pending") \union In("joined") :
                                UserOf[d] = UserOf[a.target]}][a.type]
       IN  sfu' = [d \in Devices |->
                     IF d \notin hit THEN sfu[d]
                     ELSE IF a.type = "approve" THEN "joined" ELSE "dropped"]
    /\ UNCHANGED <<kind, quit, leaves, leavings, notices, join_state, view,
                   delayed, told, inputs>>

Hears == \E d \in Devices : handle_rtp_received(d) \/ on_signaling_message_received(d)

\* the model ends with the client's own leaving
Next ==
    /\ join_state = "joined"
    /\ \/ Hears
       \/ \E d \in Devices : AsksAgain(d)
       \/ handle_sfu_to_device_inner
       \/ \E i \in DOMAIN flight : PeekAnswered(i) \/ SfuAnswers(i)
       \/ Polls
       \/ AppActs
       \/ leave
       \/ \E d \in Devices : \/ Arrives(d)
                             \/ send_leave_to_sfu(d)
                             \/ LeaveReaches(d)
                             \/ LeaveLost(d)
                             \/ SfuTimesOut(d)
       \/ SfuNotifies
       \/ SfuObeys

Spec == Init /\ [][Next]_vars

\* the actor runs its delayed tasks, and the SFU answers HTTP requests; neither
\* the periodic peek nor the SFU's notices are counted on
Fair(i) ==
    /\ join_state = "joined"
    /\ \/ i = 1 /\ \E d \in Devices : AsksAgain(d)
       \/ i = 2 /\ \E k \in DOMAIN flight : SfuAnswers(k)
       \/ i = 3 /\ \E k \in DOMAIN flight : PeekAnswered(k)

-----------------------------------------------------------------------------
\* An approval or a denial names a device of the user the app decided about,
\* however stale the peek it was taken from (approve_or_deny_user), and a member
\* hears of the client's leaving exactly once, the user's own devices never
\* through the multi-recipient call
\* (send_leaving_through_sfu_and_over_signaling).
DecisionsReachTheRightUser ==
    /\ \A i \in DOMAIN admin : UserOf[admin[i].target] = admin[i].meant
    /\ join_state = "left" =>
        /\ \A u \in Users : told[<<"group", u>>] + told[<<"user", u>>] <= 1
        /\ told[<<"group", Self>>] = 0

\* A device whose leaving the client has heard of, and whose Leave message the
\* SFU got, disappears from the client's list although neither the periodic
\* peek nor a notice need come: the second request of handle_leaving_received
\* makes up for a first answer given before the SFU knew.
LeaverIsForgotten ==
    join_state = "joined" => \A d \in heard : sfu[d] # "left"

=============================================================================
