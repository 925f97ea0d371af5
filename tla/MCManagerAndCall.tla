------------------------- MODULE MCManagerAndCall ---------------------------
(* For TLC, the call manager with its calls, or the progress of one call    *)
(* (Call).  The two share no state here: which of them a behaviour is about *)
(* is chosen at its start, and the other keeps its initial state.           *)
EXTENDS CallManager

(* Two peers.  Calls 1 to 3 are with the first, so that an offer meets an   *)
(* own call with a smaller or a larger id, call 4 is with the second.       *)
PeerOf == [c \in 1..4 |-> IF c = 4 THEN "second" ELSE "first"]

CONSTANTS d1, d2   \* devices of the peer of the one call

VARIABLES
  focus,   \* "manager" or "call"
  direction, state, activeDev, forking, didSend, callOffer, conns, accepting,
  events, fsm, worker, notify, media, heard, signalled, managed, terminator,
  app, callInputs

Progress == INSTANCE Call WITH
  Devices <- {d1, d2}, MaxInputs <- 3, offer <- callOffer, inputs <- callInputs

oneCall == <<direction, state, activeDev, forking, didSend, callOffer, conns,
             accepting, events, fsm, worker, notify, media, heard, signalled,
             managed, terminator, app, callInputs>>
cvars == <<focus, vars, oneCall>>

CInit ==
  /\ focus \in {"manager", "call"}
  /\ Init
  /\ Progress!Init
  /\ focus = "manager" => direction = "Outgoing"

CNext ==
  \/ focus = "manager" /\ Next /\ UNCHANGED <<focus, oneCall>>
  \/ focus = "call" /\ Progress!Next /\ UNCHANGED <<focus, vars>>

CSpec ==
  /\ CInit /\ [][CNext]_cvars
  /\ Fairness
  /\ WF_oneCall(focus = "call" /\ Progress!FsmReceive)
  /\ WF_oneCall(focus = "call" /\ Progress!FsmHandle)
  /\ WF_oneCall(focus = "call" /\ Progress!WorkerStep)
  /\ WF_oneCall(focus = "call" /\ Progress!NotifyStep)
  /\ WF_oneCall(focus = "call" /\ Progress!TerminateBegins)
  /\ WF_oneCall(focus = "call" /\ Progress!TerminateReturns)

---------------------------------------------------------------------------
(* Call's liveness properties, see there. *)
EndedIsTornDown == Progress!EndedIsTornDown

HangupEndsCall == Progress!HangupEndsCall

AcceptedGetsMedia == Progress!AcceptedGetsMedia
=============================================================================
