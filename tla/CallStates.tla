----------------------------- MODULE CallStates -----------------------------
(***************************************************************************)
(* The states of a direct call and of its connections                      *)
(* (src/rust/src/common/mod.rs), the predicates the state machines ask of  *)
(* them, and the transitions the connection state machine makes            *)
(* (core/connection_fsm.rs).  No variables: Connection and Call share it.  *)
(***************************************************************************)

Directions == {"Outgoing", "Incoming"}

CallState == {"NotYetStarted", "WaitingToProceed", "ConnectingBeforeAccepted",
              "ConnectingAfterAccepted", "ConnectedBeforeAccepted",
              "ConnectedAndAccepted", "ReconnectingAfterAccepted",
              "Terminating", "Terminated"}

ConnectionState == {"NotYetStarted", "Starting", "IceGathering",
                    "ConnectingBeforeAccepted", "ConnectingAfterAccepted",
                    "ConnectedBeforeAccepted", "IceFailed",
                    "ConnectedAndAccepted", "ReconnectingAfterAccepted",
                    "Terminating", "Terminated"}

-----------------------------------------------------------------------------
(* Predicates that CallState and ConnectionState define alike.             *)

terminating_or_terminated(s) == s \in {"Terminating", "Terminated"}

active(s) == s \in {"ConnectedAndAccepted", "ReconnectingAfterAccepted"}

can_send_hangup_via_rtp(s) == s # "NotYetStarted"

(* Predicates of CallState only. *)

CallCanReceiveIce(s) == s # "NotYetStarted" /\ ~terminating_or_terminated(s)

CallAccepted(s) == active(s) \/ s = "ConnectingAfterAccepted"

CallCanBeAcceptedLocally(s) == s = "ConnectedBeforeAccepted"

should_propagate_hangup(s) ==
  s \in {"WaitingToProceed", "ConnectingBeforeAccepted", "ConnectedBeforeAccepted"}

can_be_terminated_remotely(s) ==
  s # "NotYetStarted" /\ ~terminating_or_terminated(s)

(* Predicates of ConnectionState only. *)

connecting_or_connected(s) ==
  s \in {"ConnectingBeforeAccepted", "ConnectingAfterAccepted",
         "ConnectedBeforeAccepted", "ConnectedAndAccepted",
         "ReconnectingAfterAccepted"}

connected_or_reconnecting(s) == s = "ConnectedBeforeAccepted" \/ active(s)

ConnectionCanBeAcceptedLocally(s) ==
  s \in {"ConnectingBeforeAccepted", "ConnectedBeforeAccepted",
         "ReconnectingAfterAccepted"}

can_send_ice_candidates(s) ==
  s # "NotYetStarted" /\ ~terminating_or_terminated(s)

-----------------------------------------------------------------------------
(* The state a connection moves to on an event; the state itself where the *)
(* handler leaves it alone or only warns.                                  *)

OnIceConnected(s) ==
  CASE s = "ConnectingBeforeAccepted"  -> "ConnectedBeforeAccepted"
    [] s = "ConnectingAfterAccepted"   -> "ConnectedAndAccepted"
    [] s = "ReconnectingAfterAccepted" -> "ConnectedAndAccepted"
    [] OTHER                           -> s

OnIceDisconnected(s) ==
  CASE s = "ConnectedBeforeAccepted" -> "ConnectingBeforeAccepted"
    [] s = "ConnectedAndAccepted"    -> "ReconnectingAfterAccepted"
    [] OTHER                         -> s

OnIceFailed(s) == IF connecting_or_connected(s) THEN "IceFailed" ELSE s

OnReceivedAccepted(s) ==
  CASE s = "ConnectingBeforeAccepted" -> "ConnectingAfterAccepted"
    [] s = "ConnectedBeforeAccepted"  -> "ConnectedAndAccepted"
    [] OTHER                          -> s

OnAccept(s) ==
  IF ConnectionCanBeAcceptedLocally(s) THEN "ConnectedAndAccepted" ELSE s

(* handle_connected_and_accepted_for_the_first_time is reached from every  *)
(* way into ConnectedAndAccepted but the end of a reconnection.            *)
FirstTimeConnected(event, s) ==
  \/ event = "IceConnected" /\ s = "ConnectingAfterAccepted"
  \/ event = "ReceivedAccepted" /\ s = "ConnectedBeforeAccepted"
  \/ event = "Accept" /\ ConnectionCanBeAcceptedLocally(s)
=============================================================================
