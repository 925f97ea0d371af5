--------------------------- MODULE IceCandidates ----------------------------
(***************************************************************************)
(* How the ICE candidates that WebRTC gathers at one end of a connection   *)
(* reach WebRTC at the other, while networks come and go: an observer      *)
(* callback, the queue of the state machine, that of its worker, the       *)
(* buffer that the message queue empties (core/connection.rs,              *)
(* core/connection_fsm.rs), the signaling message (core/signaling.rs), and *)
(* the remote connection.  A candidate and the removal of one travel as    *)
(* the same kind of message.                                               *)
(*                                                                         *)
(* The ports are ephemeral: no address is gathered twice.  Signaling       *)
(* messages of a connection are neither lost nor reordered here; the       *)
(* caller's shared gatherer reports to its parent connection and to the    *)
(* connection of the device that answered.                                 *)
(***************************************************************************)
EXTENDS Naturals, Sequences, Functions

CONSTANTS
  Addresses,    \* addresses WebRTC may gather
  Fake,         \* what a removal holds for clients that know of none
  None

VARIABLES
  gathered,     \* addresses ever gathered
  local,        \* those not removed since
  events,       \* LocalIceCandidates queued for the parent's state machine
  work,         \* and for its worker
  buffered,     \* buffered_local_ice_candidates
  requested,    \* send_buffered_local_ice_candidates in the message queue
  sent,         \* ICE messages on their way
  remote,       \* the remote end's candidates
  terminating   \* whether the local connection is terminating

vars == <<gathered, local, events, work, buffered, requested, sent, remote, terminating>>

Init ==
  /\ gathered = {} /\ local = {} /\ remote = {}
  /\ events = <<>> /\ work = <<>> /\ buffered = <<>> /\ requested = 0 /\ sent = <<>>
  /\ terminating = FALSE

-----------------------------------------------------------------------------
(* The conversion to a signaling message and back. *)

from_v3_sdp(a) == [added |-> a, removed |-> None]

from_removed_address(a) == [added |-> Fake, removed |-> a]

v3_sdp(c) == c.added

removed_address(c) == c.removed

(* Only the parent's candidates are signaled: to all devices. *)
Injected(connection, c) ==
  IF connection = "OutgoingChild" THEN <<>> ELSE <<c>>

Queues(c) ==
  events' = events \o Injected("OutgoingParent", c) \o Injected("OutgoingChild", c)

handle_ice_candidate_gathered ==
  /\ \E a \in Addresses \ gathered :
       /\ gathered' = gathered \union {a}
       /\ local' = local \union {a}
       /\ Queues(from_v3_sdp(a))
  /\ UNCHANGED <<work, buffered, requested, sent, remote, terminating>>

handle_ice_candidate_removed ==
  /\ \E a \in local :
       /\ local' = local \ {a}
       /\ Queues(from_removed_address(a))
  /\ UNCHANGED <<gathered, work, buffered, requested, sent, remote, terminating>>

(* can_send_ice_candidates(): always, until the connection terminates. *)
handle_local_ice_candidates ==
  /\ events # <<>>
  /\ events' = Tail(events)
  /\ work' = IF terminating THEN work ELSE Append(work, Head(events))
  /\ UNCHANGED <<gathered, local, buffered, requested, sent, remote, terminating>>

(* The message queue hears of the buffer when it stops being empty. *)
buffer_local_ice_candidates ==
  /\ work # <<>>
  /\ work' = Tail(work)
  /\ IF terminating THEN UNCHANGED <<buffered, requested>>
     ELSE /\ buffered' = Append(buffered, Head(work))
          /\ requested' = requested + (IF buffered = <<>> THEN 1 ELSE 0)
  /\ UNCHANGED <<gathered, local, events, sent, remote, terminating>>

(* Nothing is sent for an empty buffer. *)
take_buffered_local_ice_candidates ==
  /\ requested > 0
  /\ requested' = requested - 1
  /\ buffered' = <<>>
  /\ sent' = IF buffered = <<>> THEN sent ELSE Append(sent, buffered)
  /\ UNCHANGED <<gathered, local, events, work, remote, terminating>>

add_ice_candidate_from_sdp(sdps, candidates) == candidates \union sdps

remove_ice_candidates(addresses, candidates) == candidates \ addresses

Removals(ice) == {c \in Range(ice) : removed_address(c) # None}

Removed(ice) == {removed_address(c) : c \in Removals(ice)}

(* A removal's own candidate is not added. *)
Added(ice) == {v3_sdp(c) : c \in Range(ice) \ Removals(ice)}

(* Deviation: the candidates of a message are removed before any is added. *)
RemovesFirst(ice) ==
  add_ice_candidate_from_sdp(Added(ice), remove_ice_candidates(Removed(ice), remote))

(* All that a message adds, then without all that it removes. *)
add_and_remove_remote_ice_candidates(ice) ==
  remove_ice_candidates(Removed(ice), add_ice_candidate_from_sdp(Added(ice), remote))

handle_received_ice ==
  /\ sent # <<>>
  /\ sent' = Tail(sent)
  /\ remote' = add_and_remove_remote_ice_candidates(Head(sent))
  /\ UNCHANGED <<gathered, local, events, work, buffered, requested, terminating>>

terminate ==
  /\ ~terminating /\ terminating' = TRUE
  /\ UNCHANGED <<gathered, local, events, work, buffered, requested, sent, remote>>

Next ==
  \/ handle_ice_candidate_gathered \/ handle_ice_candidate_removed
  \/ handle_local_ice_candidates \/ buffer_local_ice_candidates
  \/ take_buffered_local_ice_candidates \/ handle_received_ice \/ terminate

Spec == Init /\ [][Next]_vars

-----------------------------------------------------------------------------
(* When nothing is on its way any more the remote end has exactly the       *)
(* candidates that still exist here, however they were batched; it never    *)
(* has the one that stands in for a removal; and nothing stays buffered     *)
(* that the message queue does not know of.                                 *)
CandidatesMatch ==
  /\ Fake \notin remote
  /\ buffered # <<>> => requested > 0
  /\ ~terminating /\ events = <<>> /\ work = <<>> /\ buffered = <<>> /\ sent = <<>>
       => remote = local

=============================================================================
