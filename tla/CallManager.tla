---------------------------- MODULE CallManager ----------------------------
(***************************************************************************)
(* The part of the call manager (core/call_manager.rs) that decides which  *)
(* call is the active one: active_call_id, busy, the map of calls and the  *)
(* messages that came before their offer, as shared by                     *)
(*   - the manager's worker, which runs the application's requests and the *)
(*     tasks that terminate_call spawns;                                   *)
(*   - the worker of every call, which ends the call on a remote hangup, a *)
(*     timeout, a connection failure or an internal error;                 *)
(*   - a group call client, which shares busy (core/group_call.rs).        *)
(* Each of the three mutexes is taken and released on its own, so ending   *)
(* the active call takes several steps.                                    *)
(***************************************************************************)
EXTENDS Naturals, Sequences, FiniteSets

CONSTANTS
  Outgoing,  \* ids of the calls the application may place
  Incoming,  \* ids of the calls it may be offered
  Peer,      \* the remote peer of every call
  MaxInputs  \* bound on requests, messages and failures

Calls == Outgoing \cup Incoming

ASSUME CallManagerAssumption ==
  /\ Outgoing \subseteq Nat \ {0} /\ Incoming \subseteq Nat \ {0}
  /\ Outgoing \cap Incoming = {}
  /\ MaxInputs \in Nat

None == 0

(* Thread None is the manager's worker, thread c the worker of call c. *)
Threads == Calls \cup {None}

VARIABLES
  active,    \* active_call_id
  busy,
  calls,     \* the keys of call_by_call_id
  phase,     \* of a call's CallState, what check_for_collision tells apart
  known,     \* the calls that have an active device
  pending,   \* pending_call_messages
  thread,    \* a thread's step, the call it ends and on whose behalf
  offer,     \* the offer being handled, with busy locked
  tasks,     \* terminate_and_drop_call tasks queued on the worker
  joined,    \* the group call client holds busy
  used,      \* history: calls that were placed or offered
  hungUp,    \* history: calls that were given a remote hangup
  repeated,  \* history: an offer came again and was started again
  early,     \* history: the call whose hangup came before its offer
  ended,     \* history: calls whose end the application was told
  inputs

callVars == <<calls, phase, known>>
history == <<used, repeated, hungUp, early, ended>>

vars == <<active, busy, callVars, pending, thread, offer, tasks, joined,
          history, inputs>>

Idle == [pc |-> "idle", target |-> None, cause |-> None]

At(pc, target, cause) == [pc |-> pc, target |-> target, cause |-> cause]

NoMessages == [kind |-> "none", call |-> None]

(* CallManager::new. *)
Init ==
  /\ active = None /\ busy = FALSE
  /\ calls = {} /\ known = {}
  /\ phase = [c \in Calls |-> "early"]
  /\ pending = NoMessages
  /\ thread = [t \in Threads |-> Idle]
  /\ offer = None /\ tasks = <<>> /\ joined = FALSE
  /\ used = {} /\ repeated = FALSE /\ hungUp = {} /\ early = None /\ ended = {}
  /\ inputs = 0

Input ==
  /\ inputs < MaxInputs
  /\ inputs' = inputs + 1

(* A request reaches the worker: it was queued before or after the tasks   *)
(* that are waiting, so it may run before them.                            *)
Request ==
  /\ thread[None].pc = "idle"
  /\ Input

Moves(t, to) == thread' = [thread EXCEPT ![t] = to]

(* active_call() returns a call. *)
ActiveCall == active # None /\ active \in calls

BusyUnlocked == offer = None

-----------------------------------------------------------------------------
(* terminate_active_call and handle_terminate_active_call, step by step.   *)

(* call_active() and active_call(). *)
FindsActive(t) ==
  /\ thread[t].pc = "find"
  /\ Moves(t, IF ActiveCall THEN At("clear", active, thread[t].cause) ELSE Idle)
  /\ UNCHANGED <<active, busy, callVars, pending, offer, tasks, joined, history,
                 inputs>>

clear_active_call(t) ==
  /\ thread[t].pc = "clear"
  /\ active' = None
  /\ Moves(t, [thread[t] EXCEPT !.pc = "release"])
  /\ UNCHANGED <<busy, callVars, pending, offer, tasks, joined, history, inputs>>

(* Deviation: busy is only released for a call that was accepted. *)
release_busy_if_accepted(t) ==
  /\ thread[t].pc = "release" /\ BusyUnlocked
  /\ busy' = (busy /\ thread[t].target # None
                   /\ phase[thread[t].target] = "early")
  /\ Moves(t, [thread[t] EXCEPT !.pc = "conclude"])
  /\ UNCHANGED <<active, callVars, pending, offer, tasks, joined, history,
                 inputs>>

release_busy(t) ==
  /\ thread[t].pc = "release" /\ BusyUnlocked
  /\ busy' = FALSE
  /\ Moves(t, [thread[t] EXCEPT !.pc = "conclude"])
  /\ UNCHANGED <<active, callVars, pending, offer, tasks, joined, history,
                 inputs>>

(* terminate_call: tell the application, then leave the rest to the worker.*)
terminate_call(c) ==
  /\ phase' = [phase EXCEPT ![c] = "terminating"]
  /\ ended' = ended \cup {c}
  /\ tasks' = Append(tasks, c)

Concludes(t) ==
  /\ thread[t].pc = "conclude"
  /\ IF thread[t].target = None THEN UNCHANGED <<phase, ended, tasks>>
                                ELSE terminate_call(thread[t].target)
  /\ Moves(t, Idle)
  /\ UNCHANGED <<active, busy, calls, known, pending, offer, joined, used,
                 repeated, hungUp, early, inputs>>

(* The task: Call::terminate joins the call's worker, so it waits for what *)
(* that is doing.  A call that is no longer in the map is an error, and    *)
(* the application is told once more that the call ended.                  *)
terminate_and_drop_call ==
  /\ thread[None].pc = "idle" /\ tasks # <<>>
  /\ thread[Head(tasks)].pc = "idle"
  /\ tasks' = Tail(tasks)
  /\ calls' = calls \ {Head(tasks)}
  /\ ended' = IF Head(tasks) \in calls THEN ended ELSE ended \cup {Head(tasks)}
  /\ UNCHANGED <<active, busy, phase, known, pending, thread, offer, joined,
                 used, repeated, hungUp, early, inputs>>

-----------------------------------------------------------------------------
(* The calls.                                                              *)

(* remote_hangup, timeout, connection_failure and internal_error, on the   *)
(* worker of the call: call_is_active(), then terminate_active_call().     *)
CallEnds(c) ==
  /\ thread[c].pc = "idle" /\ c \in calls /\ active = c
  /\ Input
  /\ Moves(c, At("find", None, c))
  /\ UNCHANGED <<active, busy, callVars, pending, offer, tasks, joined, history>>

(* What a call makes of proceed(), accept_call(), received_answer() and of *)
(* its connections: see Call.                                              *)
CallAdvances(c) ==
  /\ c \in calls /\ phase[c] # "terminating" /\ Input
  /\ \/ known' = known \cup {c} /\ phase[c] = "early" /\ UNCHANGED phase
     \/ /\ phase' = [phase EXCEPT ![c] = IF phase[c] = "early" THEN "accepted"
                                                            ELSE "terminating"]
        /\ c \in known /\ UNCHANGED known
  /\ UNCHANGED <<active, busy, calls, pending, thread, offer, tasks, joined,
                 history>>

-----------------------------------------------------------------------------
(* Requests of the application.                                            *)

(* A new call in the map: it is the active one. *)
Starts(c) ==
  /\ calls' = calls \cup {c}
  /\ busy' = TRUE
  /\ active' = c

(* call().  If it fails, internal_create_api_error ends the active call if *)
(* it is one with the same peer, and else tells the application only.      *)
handle_call(c) ==
  /\ Request /\ c \in Outgoing \ used /\ BusyUnlocked
  /\ used' = used \cup {c}
  /\ \/ /\ ~busy /\ active = None
        /\ Starts(c)
        /\ UNCHANGED <<thread, ended>>
     \/ /\ busy \/ active # None
        /\ ActiveCall /\ Peer[active] = Peer[c]
        /\ Moves(None, At("find", None, c))
        /\ UNCHANGED <<active, busy, calls, ended>>
     \/ /\ busy \/ active # None
        /\ ~(ActiveCall /\ Peer[active] = Peer[c])
        /\ ended' = ended \cup {c}
        /\ UNCHANGED <<active, busy, calls, thread>>
  /\ UNCHANGED <<phase, known, pending, offer, tasks, joined, repeated, hungUp,
                 early>>

(* hangup(), drop_call() and received_busy() for the active call. *)
handle_hangup ==
  /\ Request /\ ActiveCall
  /\ Moves(None, At("clear", active, active))
  /\ UNCHANGED <<active, busy, callVars, pending, offer, tasks, joined, history>>

(* message_send_failure(): a call that is not active is ended as well. *)
handle_message_send_failure(c) ==
  /\ Request /\ c \in calls
  /\ Moves(None, IF active = c THEN At("find", None, c)
                               ELSE At("conclude", c, c))
  /\ UNCHANGED <<active, busy, callVars, pending, offer, tasks, joined, history>>

(* The orders in which the calls of a hash map are visited. *)
Orders(S) == {s \in [1..Cardinality(S) -> S] :
                \A i, j \in 1..Cardinality(S) : s[i] = s[j] => i = j}

(* Deviation: the active call is forgotten by ending it only. *)
handle_reset_keeping_active ==
  /\ Request
  /\ \E order \in Orders(calls) : tasks' = tasks \o order
  /\ phase' = [c \in Calls |-> IF c \in calls THEN "terminating" ELSE phase[c]]
  /\ Moves(None, At("release", None, None))
  /\ UNCHANGED <<active, busy, calls, known, pending, offer, joined, history>>

(* reset(): every call is terminated without telling the application, then *)
(* the active call is cleared and busy released.                           *)
handle_reset ==
  /\ Request
  /\ \E order \in Orders(calls) : tasks' = tasks \o order
  /\ phase' = [c \in Calls |-> IF c \in calls THEN "terminating" ELSE phase[c]]
  /\ Moves(None, At("clear", None, None))
  /\ UNCHANGED <<active, busy, calls, known, pending, offer, joined, history>>

-----------------------------------------------------------------------------
(* Signaling messages.                                                     *)

(* check_for_collision and its caller: what an offer of c meets.           *)
glare_tiebreaker(c) ==
  CASE active > c -> "GlareWinner"
    [] active < c -> "GlareLoser"
    [] active = c -> "GlareDoubleLoser"

Collision(c, sameDevice) ==
  CASE active = None /\ ~busy -> "None"
    [] active # None /\ ActiveCall /\ Peer[active] = Peer[c] ->
         (CASE active \notin known                       -> glare_tiebreaker(c)
            [] active \in known /\ ~sameDevice           -> "Busy"
            [] active \in known /\ sameDevice
               /\ phase[active] = "early"                -> glare_tiebreaker(c)
            [] OTHER                                     -> "ReCall")
    [] OTHER -> "Busy"

(* received_offer() locks busy for as long as it takes.  An offer is       *)
(* delivered once, or again while its call is active.  A winner ignores    *)
(* it, a busy manager rejects it: neither changes anything here.           *)
handle_received_offer(c) ==
  /\ Request /\ c \in Incoming /\ (c \notin used \/ c = active)
  /\ used' = used \cup {c}
  /\ \E same \in BOOLEAN :
       LET collision == Collision(c, same)
       IN /\ offer' = IF collision \in {"GlareWinner", "Busy"} THEN None ELSE c
          /\ CASE collision \in {"GlareWinner", "Busy"} -> UNCHANGED thread
               [] collision = "None" -> Moves(None, At("start", None, c))
               [] collision \in {"GlareLoser", "ReCall"} ->
                    Moves(None, At("replace", active, c))
               [] collision = "GlareDoubleLoser" ->
                    Moves(None, At("reject", active, c))
  /\ UNCHANGED <<active, busy, callVars, pending, tasks, joined, hungUp, early,
                 ended, repeated>>

(* Deviation: the call that loses is cleared but not terminated. *)
OfferForgetsActive ==
  /\ thread[None].pc \in {"replace", "reject"}
  /\ active' = None /\ busy' = FALSE
  /\ ended' = ended \cup {thread[None].target}
  /\ offer' = None /\ Moves(None, Idle)
  /\ UNCHANGED <<callVars, pending, tasks, joined, used, repeated, hungUp,
                 early, inputs>>

(* The active call loses; the offer is then started, or rejected as busy. *)
OfferEndsActive ==
  /\ thread[None].pc \in {"replace", "reject"}
  /\ active' = None /\ busy' = FALSE
  /\ terminate_call(thread[None].target)
  /\ \/ /\ thread[None].pc = "replace"
        /\ Moves(None, At("start", None, offer))
        /\ UNCHANGED offer
     \/ /\ thread[None].pc = "reject"
        /\ Moves(None, Idle)
        /\ offer' = None
  /\ UNCHANGED <<calls, known, pending, joined, used, repeated, hungUp, early,
                 inputs>>

(* No other thread makes a call active, so the test for one that the code  *)
(* repeats here cannot fail.  What was saved for this call is given to it; *)
(* what was saved for another is dropped.                                  *)
OfferStarts ==
  /\ thread[None].pc = "start"
  /\ Starts(offer)
  /\ repeated' = (repeated \/ offer \in calls)
  /\ hungUp' = IF pending = [kind |-> "hangup", call |-> offer]
               THEN hungUp \cup {offer} ELSE hungUp
  /\ pending' = NoMessages
  /\ early' = IF early = offer THEN early ELSE None
  /\ offer' = None
  /\ Moves(None, Idle)
  /\ UNCHANGED <<phase, known, tasks, joined, used, ended, inputs>>

(* Deviation: candidates replace whatever was saved. *)
save_ice_candidates_always(c) == pending' = [kind |-> "ice", call |-> c]

(* Candidates that come after the hangup are not needed. *)
save_ice_candidates(c) ==
  pending' = IF pending = [kind |-> "hangup", call |-> c]
             THEN pending ELSE [kind |-> "ice", call |-> c]

save_hangup(c) == pending' = [kind |-> "hangup", call |-> c]

(* Kept for a later offer: out of order, or in a glare. *)
Saves(c) == \/ active # None /\ ActiveCall /\ active # c /\ active \in Outgoing
            \/ ~ActiveCall /\ ~busy

handle_received_ice(c) ==
  /\ Request /\ c \in Incoming /\ BusyUnlocked
  /\ Saves(c) /\ save_ice_candidates(c)
  /\ early' = IF early = c THEN early ELSE None
  /\ UNCHANGED <<active, busy, callVars, thread, offer, tasks, joined, used,
                 repeated, hungUp, ended>>

handle_received_hangup(c) ==
  /\ Request /\ c \in Incoming \cup used /\ BusyUnlocked
  /\ \/ /\ ActiveCall /\ active = c
        /\ hungUp' = hungUp \cup {c}
        /\ UNCHANGED <<pending, early>>
     \/ /\ Saves(c) /\ save_hangup(c)
        /\ early' = IF c \in used THEN None ELSE c
        /\ UNCHANGED hungUp
  /\ UNCHANGED <<active, busy, callVars, thread, offer, tasks, joined, used,
                 repeated, ended>>

-----------------------------------------------------------------------------
(* The group call client: take_busy when it joins, release_busy when it    *)
(* leaves.                                                                 *)

take_busy ==
  /\ ~joined /\ BusyUnlocked /\ ~busy /\ Input
  /\ busy' = TRUE /\ joined' = TRUE
  /\ UNCHANGED <<active, callVars, pending, thread, offer, tasks, history>>

leave_inner ==
  /\ joined /\ BusyUnlocked
  /\ busy' = FALSE /\ joined' = FALSE
  /\ UNCHANGED <<active, callVars, pending, thread, offer, tasks, history,
                 inputs>>

-----------------------------------------------------------------------------
Ending(t) == FindsActive(t) \/ clear_active_call(t) \/ release_busy(t)
             \/ Concludes(t)

Offering == OfferEndsActive \/ OfferStarts

Next ==
  \/ \E t \in Threads : Ending(t)
  \/ terminate_and_drop_call
  \/ \E c \in Calls : \/ CallEnds(c) \/ CallAdvances(c)
                      \/ handle_call(c) \/ handle_message_send_failure(c)
                      \/ handle_received_offer(c) \/ handle_received_ice(c)
                      \/ handle_received_hangup(c)
  \/ handle_hangup \/ handle_reset
  \/ Offering
  \/ take_busy \/ leave_inner

Spec == Init /\ [][Next]_vars

(* The threads run; nothing is assumed of the application or the peers.    *)
Fairness ==
  /\ \A t \in Threads : WF_vars(Ending(t))
  /\ WF_vars(Offering) /\ WF_vars(terminate_and_drop_call)

FairSpec == Spec /\ Fairness

-----------------------------------------------------------------------------
TypeOK ==
  /\ active \in Calls \cup {None} /\ busy \in BOOLEAN
  /\ calls \subseteq Calls /\ known \subseteq Calls
  /\ phase \in [Calls -> {"early", "accepted", "terminating"}]
  /\ pending \in [kind : {"none", "ice", "hangup"}, call : Calls \cup {None}]
  /\ thread \in [Threads -> [pc : {"idle", "find", "clear", "release",
                                   "conclude", "start", "replace", "reject"},
                             target : Calls \cup {None},
                             cause : Calls \cup {None}]]
  /\ offer \in Incoming \cup {None} /\ tasks \in Seq(Calls)
  /\ joined \in BOOLEAN
  /\ used \subseteq Calls /\ hungUp \subseteq Calls /\ ended \subseteq Calls
  /\ repeated \in BOOLEAN
  /\ early \in Calls \cup {None} /\ inputs \in 0..MaxInputs

(* The active call is in the map: a call is dropped from it only after it  *)
(* stopped being the active one, whichever threads race to end it.  The    *)
(* exception is an offer that comes again for a call already accepted: it  *)
(* is started again under the same id, and the end of the first drops it.  *)
(* (TypeOK is a part of it.)                                               *)
ActiveExists ==
  /\ TypeOK
  /\ active # None /\ ~repeated => active \in calls

(* busy is never left on: when every thread has done what it is about, and *)
(* there is neither an active call nor a group call, a new call can begin. *)
NotStuckBusy ==
  /\ \A t \in Threads : thread[t].pc = "idle"
  /\ active = None /\ ~joined
  => ~busy

(* A hangup that overtook its offer is not lost: the call that the offer   *)
(* starts is hung up, unless messages of another call came in between.     *)
EarlyHangupKept == active # None /\ active = early => active \in hungUp

(* A call whose end the application was told is terminated and leaves the  *)
(* map: no thread waits for ever, not for a call's worker nor for busy.    *)
EndedIsDropped == \A c \in Calls : c \in ended ~> c \notin calls

(* "This shuts down the specified call if active" (internal_error): what   *)
(* goes wrong with a call ends that call and no other.                     *)
EndsItsOwnCall ==
  \A c \in Calls : thread[c].pc = "conclude" => thread[c].target = c

(* "The task managed to create the active call and then hit problems"      *)
(* (internal_create_api_error): a call() that fails ends no call but the   *)
(* one it created.                                                         *)
FailedCallEndsItsOwn ==
  thread[None].pc = "conclude" /\ thread[None].target # None =>
    thread[None].target = thread[None].cause
=============================================================================
