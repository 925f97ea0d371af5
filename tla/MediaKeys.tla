----------------------------- MODULE MediaKeys -----------------------------
(***************************************************************************)
(* The media keys of a group call (core/group_call.rs, core/crypto.rs).    *)
(* Every client encrypts its media with a key of its own and sends that    *)
(* key to the users it sees in the call.  When users come it ratchets the  *)
(* key forward; when users go it makes a new one, sends it, and starts to  *)
(* use it a while later.  Each client sees who is in the call through peek *)
(* results, at its own time, and key messages are delayed and reordered.   *)
(*                                                                         *)
(* The keys of different senders do not interact: the module follows those *)
(* of one client (the sender), which is in the call throughout, and the    *)
(* other devices as its receivers.  A device joins once: GroupCall models  *)
(* joining and leaving, and how peek results are asked for.                *)
(***************************************************************************)
EXTENDS FrameCrypto, FiniteSets

CONSTANTS
  Devices,     \* the other devices, which the SFU names by demux ids
  Users,
  UserOf,      \* the user of each device
  MaxRoots,    \* bound on the random secrets the sender makes
  MaxLeaves,   \* bound on devices that leave
  MaxInputs    \* bound on stale peek results and resend_media_keys()

VARIABLES
  call,        \* the other devices in the call, as the SFU knows them
  gone,        \* devices that have left it
  remote,      \* remote_devices of the sender
  members,     \* joined_members of the sender, without its own user
  keys,        \* its send state, rotation state and random secrets, see Keys
  known,       \* history: [Users -> the secrets that were sent to the user]
  first,       \* history: [Users -> the secret in use when the sender first saw the user]
  signaling,   \* key messages on their way
  sees,        \* the devices in the call that know the sender
  receive,     \* [Devices -> receiver states for the sender]
  waiting,     \* [Devices -> pending_media_receive_keys]
  inputs

receiving == <<sees, receive, waiting>>
vars == <<call, gone, remote, members, keys, known, first, signaling,
          receiving, inputs>>

Secret(root) == [root |-> root, steps |-> 0]
Secrets == [root : Nat, steps : Nat]
Unseen == Secret(0)

(* media_send_key_rotation_state: Pending { secret, needs_another_rotation } *)
Rotations == [pending : BOOLEAN, secret : Secrets, again : BOOLEAN]
Applied == [pending |-> FALSE, secret |-> Unseen, again |-> FALSE]

Keys == [sender : [counter : 0..CounterModulus - 1, secret : Secrets],
         rotation : Rotations,
         roots : Nat]

Init ==
  /\ call \in SUBSET Devices /\ gone = {}
  /\ remote = {} /\ members = {}
  /\ keys = [sender |-> SenderState(0, Secret(1)), rotation |-> Applied, roots |-> 1]
  /\ known = [u \in Users |-> {}]
  /\ first = [u \in Users |-> Unseen]
  /\ signaling = {}
  /\ sees = call
  /\ receive = [d \in Devices |-> <<>>]
  /\ waiting = [d \in Devices |-> <<>>]
  /\ inputs = 0

UsersOf(devices) == {UserOf[d] : d \in devices}

(***************************************************************************)
(* Sending keys.  A handler works on `k', the keys together with what it   *)
(* has sent so far, as pairs of a user and a send state.                   *)
(***************************************************************************)

To(users, counter, secret) == users \X {SenderState(counter, secret)}

(* Deviation: only one rotation for all users removed meanwhile. *)
RotatesOnce(k, users) ==
  IF k.rotation.pending THEN k
  ELSE [k EXCEPT !.roots = @ + 1,
                 !.rotation = [pending |-> TRUE, secret |-> Secret(k.roots + 1), again |-> FALSE],
                 !.sent = @ \cup To(users, 0, Secret(k.roots + 1))]

rotate_media_send_key_and_send_to_users_not_removed(k, users) ==
  IF k.rotation.pending THEN [k EXCEPT !.rotation.again = TRUE]
  ELSE [k EXCEPT !.roots = @ + 1,
                 !.rotation = [pending |-> TRUE, secret |-> Secret(k.roots + 1), again |-> FALSE],
                 !.sent = @ \cup To(users, 0, Secret(k.roots + 1))]

(* Deviation: the key in use is sent as it is. *)
SendsWithoutAdvancing(k, users) ==
  [k EXCEPT !.sent = @ \cup To(users, k.sender.counter, k.sender.secret)]

advance_media_send_key_and_send_to_users_with_added_devices(k, users) ==
  LET next == mut_advance_ratchet(k.sender)
  IN [k EXCEPT !.sender = next,
               !.sent = @ \cup To(users, next.counter, next.secret)]

(* Deviation: whoever comes while a rotation is pending does not get the   *)
(* new key.                                                                *)
SendsNoPendingKey(k, users) == k

send_pending_media_send_key_to_users_with_added_devices(k, users) ==
  IF k.rotation.pending THEN [k EXCEPT !.sent = @ \cup To(users, 0, k.rotation.secret)] ELSE k

(* send_media_send_key_to_users_over_signaling: to each user once, by      *)
(* whichever way of sending applies.                                       *)
Sends(sent) ==
  /\ signaling' = signaling \cup sent
  /\ known' = [u \in Users |-> known[u] \cup {k.secret : k \in {s[2] : s \in {s \in sent : s[1] = u}}}]

KeysBecome(k) ==
  /\ keys' = [sender |-> k.sender, rotation |-> k.rotation, roots |-> k.roots]
  /\ Sends(k.sent)

Unsent == [sender |-> keys.sender, rotation |-> keys.rotation, roots |-> keys.roots, sent |-> {}]

(* The media keys in set_peek_result_inner: advance for devices that were  *)
(* added, give them a pending key, rotate for users that were removed.     *)
AfterPeek(peek) ==
  LET added   == UsersOf(peek \ remote)
      removed == members \ UsersOf(peek)
      advanced == IF added = {} THEN Unsent
                  ELSE send_pending_media_send_key_to_users_with_added_devices(
                         advance_media_send_key_and_send_to_users_with_added_devices(
                           Unsent, added), added)
  IN IF removed = {} THEN advanced
     ELSE rotate_media_send_key_and_send_to_users_not_removed(advanced, UsersOf(peek))

set_peek_result_inner(peek) ==
  /\ AfterPeek(peek).roots <= MaxRoots
  /\ KeysBecome(AfterPeek(peek))
  /\ remote' = peek
  /\ members' = UsersOf(peek)
  /\ first' = [u \in Users |-> IF u \in UsersOf(peek \ remote) /\ first[u] = Unseen
                               THEN keys.sender.secret ELSE first[u]]
  /\ UNCHANGED <<call, gone, receiving>>

Peek ==
  /\ set_peek_result_inner(call)
  /\ UNCHANGED inputs

(* Answers of the SFU can overtake each other: one lacks a device that has *)
(* come or has one that has left.                                          *)
StalePeek ==
  /\ inputs < MaxInputs /\ inputs' = inputs + 1
  /\ \E d \in call \cup gone :
       set_peek_result_inner(IF d \in call THEN call \ {d} ELSE call \cup {d})

(* The delayed task of a rotation. *)
ApplyNewKey ==
  /\ keys.rotation.pending
  /\ LET applied == [Unsent EXCEPT !.sender = reset_send_ratchet(keys.rotation.secret),
                                   !.rotation = Applied]
         next == IF keys.rotation.again
                 THEN rotate_media_send_key_and_send_to_users_not_removed(applied, UsersOf(remote))
                 ELSE applied
     IN next.roots <= MaxRoots /\ KeysBecome(next)
  /\ UNCHANGED <<call, gone, remote, members, first, receiving, inputs>>

resend_media_keys ==
  /\ inputs < MaxInputs /\ inputs' = inputs + 1
  /\ KeysBecome([Unsent EXCEPT
       !.sent = To(UsersOf(remote), keys.sender.counter, keys.sender.secret)])
  /\ UNCHANGED <<call, gone, remote, members, first, receiving>>

(***************************************************************************)
(* The other devices.                                                      *)
(***************************************************************************)

Joins(d) ==
  /\ d \notin call \cup gone
  /\ call' = call \cup {d}
  /\ UNCHANGED <<gone, remote, members, keys, known, first, signaling, receiving, inputs>>

(* Its client, with the keys it has received, ends. *)
Leaves(d) ==
  /\ d \in call /\ Cardinality(gone) < MaxLeaves
  /\ call' = call \ {d} /\ gone' = gone \cup {d}
  /\ sees' = sees \ {d}
  /\ receive' = [receive EXCEPT ![d] = <<>>]
  /\ waiting' = [waiting EXCEPT ![d] = <<>>]
  /\ UNCHANGED <<remote, members, keys, known, first, signaling, inputs>>

(* A peek result tells another device of the sender. *)
ReceiverPeeks(d) ==
  /\ d \in call \ sees
  /\ sees' = sees \cup {d}
  /\ receive' = [receive EXCEPT ![d] = add_receive_secrets(@, waiting[d])]
  /\ waiting' = [waiting EXCEPT ![d] = <<>>]
  /\ UNCHANGED <<call, gone, remote, members, keys, known, first, signaling, inputs>>

(* on_signaling_message_received and                                       *)
(* add_media_receive_key_or_store_for_later, in every device of the user.  *)
(* The sender's user id is authenticated by signaling.                     *)
KeyArrives(m) ==
  /\ m \in signaling /\ signaling' = signaling \ {m}
  /\ LET takes(d) == d \in call /\ UserOf[d] = m[1]
     IN /\ receive' = [d \in Devices |->
             IF takes(d) /\ d \in sees THEN add_receive_secrets(receive[d], <<m[2]>>) ELSE receive[d]]
        /\ waiting' = [d \in Devices |->
             IF takes(d) /\ d \notin sees THEN Append(waiting[d], m[2]) ELSE waiting[d]]
  /\ UNCHANGED <<call, gone, remote, members, keys, known, first, sees, inputs>>

Next ==
  \/ Peek \/ StalePeek \/ ApplyNewKey \/ resend_media_keys
  \/ \E d \in Devices : Joins(d) \/ Leaves(d) \/ ReceiverPeeks(d)
  \/ \E m \in signaling : KeyArrives(m)

(* Clients poll, delayed tasks run, and signaling delivers. *)
Fair(i) ==
  \/ i = 1 /\ Peek
  \/ i = 2 /\ ApplyNewKey
  \/ i = 3 /\ \E d \in Devices : ReceiverPeeks(d)
  \/ i = 4 /\ \E m \in signaling : KeyArrives(m)

Spec == Init /\ [][Next]_vars

-----------------------------------------------------------------------------

(* The user can compute this secret from one that was sent to it. *)
Knows(u, secret) == \E s \in known[u] : s.root = secret.root /\ s.steps <= secret.steps

(* Once no rotation is pending, no user the client has seen leave, not     *)
(* even during an earlier rotation, can compute the key in use.            *)
RemovedCannotRead ==
  ~keys.rotation.pending =>
    \A u \in Users \ members : ~Knows(u, keys.sender.secret)

(* No key that was ever sent to a user opens what the client sent before   *)
(* it saw that user.                                                       *)
NoPastMedia ==
  \A u \in Users : \A s \in known[u] :
     \/ s.root > first[u].root
     \/ s.root = first[u].root /\ s.steps > first[u].steps

(* In the end everyone in the call can decrypt what the sender sends,      *)
(* whatever the order of joins, leaves, peek results, rotations and key    *)
(* messages.                                                               *)
EveryoneDecrypts == \A d \in call : Decrypts(receive[d], encrypt(keys.sender, 1))
=============================================================================
