----------------------------- MODULE AppObjects -----------------------------
(***************************************************************************)
(* Who keeps a 1:1 call alive.  A Call and a Connection are reference      *)
(* counted handles: the call map, the timeout timer, queued FSM events,    *)
(* queued signaling closures, the worker and application threads hold      *)
(* clones, and every Connection holds its Call.  A Connection also boxes a *)
(* clone of itself (connection_ptr) for the C++ observer, a cycle only     *)
(* terminate() breaks.  The application's objects hang off them: the call  *)
(* context (which owns the PeerConnectionFactory), one Java or Swift       *)
(* connection per Connection (which owns the PeerConnection), and the      *)
(* application's call object, released when it is told the call concluded. *)
(***************************************************************************)
EXTENDS Naturals, Sequences

CONSTANTS Calls, NoCall, MaxMessages,
  Proceeding   \* the calls the application may proceed with

Parent == 0                  \* the connection a forked outgoing call offers with
Child == 1                   \* an answering device, or the one of an incoming call
Devices == {Parent, Child}

VARIABLES
  active,     \* CallManager.active_call_id
  calls,      \* per call: its life, its holders, the application's objects
  conns,      \* per call and device: a Connection, its holders and its objects
  work,       \* the call the worker is terminating: [call, at]
  messages,   \* queued closures, as <<call, device>>; device NoCall: only a call
  in_flight,  \* SignalingMessageQueue.messages_in_flight
  jni         \* an application thread inside get_active_connection

vars == <<active, calls, conns, work, messages, in_flight,
          jni>>

NewCall == [st |-> "none", out |-> TRUE, map |-> FALSE, timer |-> FALSE,
            queue |-> <<>>, fsm |-> "run", state |-> "NotYetStarted",
            context |-> "none", concluded |-> 0]

NoConnection == [made |-> FALSE, map |-> FALSE, ptr |-> FALSE, event |-> FALSE,
                 fsm |-> "run", app |-> FALSE, pc |-> "none", lost |-> FALSE,
                 failed |-> FALSE]

Idle == [call |-> NoCall, at |-> "idle"]

NoThread == [call |-> NoCall, dev |-> Parent, app |-> FALSE]

Init ==
  /\ active = NoCall
  /\ calls = [c \in Calls |-> NewCall]
  /\ conns = [c \in Calls |-> [d \in Devices |-> NoConnection]]
  /\ work = Idle
  /\ messages = <<>>
  /\ in_flight = FALSE
  /\ jni = NoThread

-----------------------------------------------------------------------------
(* References.                                                             *)

InMessages(ms, c, d) == \E i \in DOMAIN ms : ms[i] = <<c, d>>

ConnectionHeld(cs, ms, j, c, d) ==
  LET k == cs[c][d] IN
  \/ k.map \/ k.ptr \/ k.event \/ k.fsm \in {"terminate", "complete"}
  \/ InMessages(ms, c, d)
  \/ j.call = c /\ j.dev = d

HeldWithoutConnections(ca, cs, ms, w, j, c) ==
  \/ ca[c].map \/ ca[c].timer \/ ca[c].queue # <<>> \/ ca[c].fsm = "complete"
  \/ ca[c].st = "ending"
  \/ w.call = c
  \/ InMessages(ms, c, NoCall)

Held(ca, cs, ms, w, j, c) ==
  \/ HeldWithoutConnections(ca, cs, ms, w, j, c)
  \/ \E d \in Devices : ConnectionHeld(cs, ms, j, c, d)

\* Drop for Call: the last handle tells the application, and the context with
\* its factory is destroyed.
DropIfLast(ca, cs, ms, w, j) ==
  [c \in Calls |->
    IF ca[c].st # "none" /\ ca[c].st # "asked" /\ ca[c].st # "over"
       /\ ~Held(ca, cs, ms, w, j, c)
    THEN [ca[c] EXCEPT !.st = "over", !.concluded = @ + 1,
                       !.context = IF @ = "set" THEN "disposed" ELSE @]
    ELSE ca[c]]

\* A step's new holders, with the handles that are then the last dropped.
Settle(ca, cs, ms, w, j) ==
  /\ calls' = DropIfLast(ca, cs, ms, w, j)
  /\ conns' = cs
  /\ messages' = ms
  /\ work' = w
  /\ jni' = j

\* The application's connection object exists while a handle to it does.
AppConnectionOpen(c, d) ==
  \/ conns[c][d].app
  \/ jni.call = c /\ jni.dev = d /\ jni.app
  \/ conns[c][d].lost

-----------------------------------------------------------------------------
(* The application.                                                        *)

\* call() and received_offer(): the task is queued; on iOS the call object is
\* retained before the main thread can see any callback.
call(c) ==
  /\ calls[c].st = "none"
  /\ \E out \in BOOLEAN :
       calls' = [calls EXCEPT ![c].st = "asked", ![c].out = out]
  /\ UNCHANGED <<active, conns, work, messages, in_flight,
                 jni>>

\* proceed(): the application makes the context, and with it the factory.
proceed(c) ==
  /\ calls[c].state = "WaitingToProceed"
  /\ c \in Proceeding
  /\ calls[c].context = "none"
  /\ calls' = [calls EXCEPT ![c].context = "asked"]
  /\ UNCHANGED <<active, conns, work, messages, in_flight,
                 jni>>

\* get_active_connection: a clone of the Connection, then of its app connection.
get_active_connection(c) ==
  /\ jni.call = NoCall
  /\ active = c
  /\ conns[c][Child].map
  /\ Settle(calls, conns, messages, work,
            [call |-> c, dev |-> Child, app |-> conns[c][Child].app])
  /\ UNCHANGED <<active, in_flight>>

\* Its locals are dropped in reverse order, the app connection first.
DropsAppConnection ==
  /\ jni.app
  /\ Settle(calls, conns, messages, work, [jni EXCEPT !.app = FALSE])
  /\ UNCHANGED <<active, in_flight>>

DropsConnection ==
  /\ jni.call # NoCall
  /\ ~jni.app
  /\ Settle(calls, conns, messages, work, NoThread)
  /\ UNCHANGED <<active, in_flight>>

-----------------------------------------------------------------------------
(* The call manager's worker.                                              *)

WorkerIdle == work.call = NoCall

\* A closure runs, and is dropped, when no message is in flight.
Pushed(ms, m) == IF in_flight THEN Append(ms, m) ELSE Tail(Append(ms, m))

\* terminate_call: nothing of the call but hangup and busy stays queued; the
\* rest happens in a task of its own, which holds the call.
Trimmed(ms, c) == SelectSeq(ms, LAMBDA m : m[1] # c \/ m[2] = NoCall)

Ended(ca, c) == IF c = NoCall THEN ca ELSE [ca EXCEPT ![c].st = "ending"]

\* internal_create_api_error for a call that was not made: an active call with
\* the same peer, as either may be, is ended instead of it; otherwise the
\* application is told the call has ended and is concluded.
internal_create_api_error(c) ==
  \/ /\ active' = NoCall
     /\ Settle(Ended([calls EXCEPT ![c].st = "over"], active), conns,
               Trimmed(messages, active), work, jni)
     /\ UNCHANGED in_flight
  \/ /\ Settle([calls EXCEPT ![c].st = "over", ![c].concluded = @ + 1], conns,
               messages, work, jni)
     /\ UNCHANGED <<active, in_flight>>

\* The call becomes the active one, its timer and its FSM have a handle.
Starts(c, ca, ms) ==
  /\ active' = c
  /\ in_flight' = FALSE
  /\ Settle([ca EXCEPT ![c].st = "made", ![c].map = TRUE, ![c].timer = TRUE,
                       ![c].queue = <<"StartCall">>],
            conns, ms, work, jni)

StartsAndConcludes(c) ==
  /\ active' = c
  /\ in_flight' = FALSE
  /\ Settle([calls EXCEPT ![c].st = "made", ![c].map = TRUE, ![c].concluded = @ + 1],
            conns, messages, work, jni)

\* Starting its timer or its FSM fails after the call was made active: the
\* error handler finds it active and ends it.
StartsAndFails(c) ==
  /\ active' = NoCall
  /\ in_flight' = FALSE
  /\ Settle([calls EXCEPT ![c].st = "ending", ![c].map = TRUE], conns,
            messages, work, jni)

handle_call(c) ==
  /\ WorkerIdle /\ calls[c].st = "asked" /\ calls[c].out
  /\ \/ active # NoCall /\ internal_create_api_error(c)
     \/ active = NoCall /\ Starts(c, calls, messages)
     \/ active = NoCall /\ StartsAndFails(c)

\* An expired offer is concluded at once; a colliding one is ignored or answered
\* busy, and its Call concludes when it is dropped, or replaces the active call.
handle_received_offer(c) ==
  /\ WorkerIdle /\ calls[c].st = "asked" /\ ~calls[c].out
  /\ \/ /\ Settle([calls EXCEPT ![c].st = "over", ![c].concluded = @ + 1], conns,
                  messages, work, jni)
        /\ UNCHANGED <<active, in_flight>>
     \/ /\ active = NoCall
        /\ Starts(c, calls, messages)
       
     \/ /\ active = NoCall
        /\ StartsAndFails(c)
     \/ /\ active # NoCall
        /\ Settle([calls EXCEPT ![c].st = "made"], conns,
                  Pushed(messages, <<c, NoCall>>), work, jni)
        /\ in_flight' = TRUE
        /\ UNCHANGED active
     \/ /\ active # NoCall
        /\ Settle([calls EXCEPT ![c].st = "made"], conns, messages, work, jni)
        /\ UNCHANGED <<active, in_flight>>
     \/ /\ active # NoCall
        /\ Starts(c, Ended(calls, active), Trimmed(messages, active))
       

\* A context that comes too late is dropped with the task's arguments.
handle_proceed(c) ==
  /\ WorkerIdle /\ calls[c].context = "asked"
  /\ IF active # c
     THEN Settle([calls EXCEPT ![c].context = "disposed"], conns, messages, work, jni)
     ELSE Settle([calls EXCEPT ![c].context = "set",
                               ![c].queue = Append(@, "Proceed")],
                 conns, messages, work, jni)
  /\ UNCHANGED <<active, in_flight>>

handle_received_answer(c) ==
  /\ WorkerIdle /\ active = c /\ calls[c].out
  /\ calls[c].state = "Connecting" /\ calls[c].queue = <<>>
  /\ conns[c][Parent].map
  /\ ~conns[c][Child].made
  /\ Settle([calls EXCEPT ![c].queue = Append(@, "ReceivedAnswer")], conns,
            messages, work, jni)
  /\ UNCHANGED <<active, in_flight>>

\* hangup(), a timeout, an internal error, a remote hangup: any end of the
\* active call.
handle_terminate_active_call(c) ==
  /\ WorkerIdle /\ active = c
  /\ active' = NoCall
  /\ Settle(Ended(calls, c), conns, Trimmed(messages, c), work, jni)
  /\ UNCHANGED in_flight

\* terminate_and_drop_call, as far as it blocks: out of the map, and the FSM is
\* asked to terminate.
terminate_and_drop_call(c) ==
  /\ WorkerIdle /\ calls[c].st = "ending"
  /\ Settle([calls EXCEPT ![c].st = "terminating", ![c].map = FALSE,
                          ![c].queue = Append(@, "Terminate"),
                          ![c].state = "Terminating"],
            conns, messages, [call |-> c, at |-> "fsm"], jni)
  /\ UNCHANGED <<active, in_flight>>

wait_for_terminate ==
  /\ work.at = "fsm" /\ calls[work.call].fsm # "run"
  /\ Settle(calls, conns, messages, [work EXCEPT !.at = "connections"], jni)
  /\ UNCHANGED <<active, in_flight>>

\* terminate_connections: each Connection's FSM is told, and waited for.
terminate_connections(d) ==
  /\ work.at = "connections"
  /\ conns[work.call][d].map
  /\ conns[work.call][d].fsm = "run"
  /\ \A e \in Devices : conns[work.call][e].map => conns[work.call][e].fsm = "run"
  /\ Settle(calls, [conns EXCEPT ![work.call][d].fsm = "terminate"], messages, work, jni)
  /\ UNCHANGED <<active, in_flight>>

\* Connection::terminate, once its FSM is done: the PeerConnection is closed,
\* the app connection dropped, and only then the observer's box freed.
terminate_without_close(k, c, d) ==
  [k EXCEPT !.pc = IF jni.call = c /\ jni.dev = d /\ jni.app THEN @ ELSE "closed",
            !.app = FALSE, !.ptr = FALSE, !.map = FALSE]

terminate_keeps_ptr(k, c, d) ==
  [k EXCEPT !.pc = "closed", !.app = FALSE, !.map = FALSE]

terminate(k, c, d) ==
  [k EXCEPT !.pc = "closed", !.app = FALSE, !.ptr = FALSE, !.map = FALSE]

ConnectionTerminated(d) ==
  /\ work.at = "connections"
  /\ conns[work.call][d].map
  /\ conns[work.call][d].fsm \in {"complete", "exited"}
  /\ Settle(calls, [conns EXCEPT ![work.call][d] = terminate(@, work.call, d)],
            messages, work, jni)
  /\ UNCHANGED <<active, in_flight>>

\* The timer is joined, which drops its closure, and the task ends.
TerminateEnds ==
  /\ work.at = "connections"
  /\ \A d \in Devices : ~conns[work.call][d].map
  /\ Settle([calls EXCEPT ![work.call].timer = FALSE], conns, messages, Idle, jni)
  /\ UNCHANGED <<active, in_flight>>

\* Every message handed over is reported on, also the one of an earlier call.
handle_message_sent ==
  /\ WorkerIdle
  /\ in_flight \/ messages # <<>>
  /\ in_flight' = (messages # <<>>)
  /\ Settle(calls, conns, IF messages = <<>> THEN messages ELSE Tail(messages),
            work, jni)
  /\ UNCHANGED active

-----------------------------------------------------------------------------
(* The call FSM and the threads it drains before it has terminated.        *)

\* A new Connection: it boxes a clone of itself before anything can fail.  The
\* outcomes of the platform's part: the application made nothing, or made a
\* connection the JNI layer could not keep, or everything is in place.
android_create_connection ==
  {[NoConnection EXCEPT !.made = TRUE, !.ptr = TRUE],
   [NoConnection EXCEPT !.made = TRUE, !.ptr = TRUE, !.pc = "open", !.lost = TRUE],
   [NoConnection EXCEPT !.made = TRUE, !.ptr = TRUE, !.pc = "open", !.app = TRUE]}

ios_create_connection ==
  {[NoConnection EXCEPT !.made = TRUE, !.ptr = TRUE],
   [NoConnection EXCEPT !.made = TRUE, !.ptr = TRUE, !.pc = "open", !.app = TRUE]}

\* Which of the two runs makes no other difference here.
create_connection == android_create_connection \union ios_create_connection

\* Call::proceed and Call::received_answer: the Connection is created, its FSM
\* started and its description negotiated; only then is it kept in the map.  The
\* offer or answer goes out in a closure that holds call and connection.
Connects(c, d, ca, sends) ==
  \/ \E k \in create_connection :
       /\ k.app
       /\ Settle(ca, [conns EXCEPT ![c][d] = [k EXCEPT !.map = TRUE]],
                 IF sends THEN Pushed(messages, <<c, d>>) ELSE messages, work, jni)
       /\ in_flight' = (in_flight \/ sends)
      
  \/ \E k \in create_connection :
       /\ Settle(ca, [conns EXCEPT ![c][d] = [k EXCEPT !.failed = TRUE]], messages, work, jni)
       /\ UNCHANGED in_flight

Popped(c) == [calls EXCEPT ![c].queue = Tail(@)]

\* Once Terminating, work is skipped and the events have no effect.
CallFsm(c) ==
  /\ calls[c].queue # <<>>
  /\ calls[c].fsm = "run"
  /\ LET e == Head(calls[c].queue)
         s == calls[c].state
     IN \/ /\ e = "StartCall" /\ s = "NotYetStarted"
           /\ Settle([Popped(c) EXCEPT ![c].state = "WaitingToProceed"], conns,
                     messages, work, jni)
           /\ UNCHANGED in_flight
        \/ /\ e = "Proceed" /\ s = "WaitingToProceed"
           /\ Connects(c, IF calls[c].out THEN Parent ELSE Child,
                       [Popped(c) EXCEPT ![c].state = "Connecting"], TRUE)
        \/ /\ e = "ReceivedAnswer" /\ s = "Connecting"
           /\ conns[c][Parent].map /\ ~conns[c][Child].made
           /\ Connects(c, Child, Popped(c), FALSE)
        \/ /\ e = "Terminate"
           /\ Settle([Popped(c) EXCEPT ![c].fsm = "complete"], conns, messages,
                     work, jni)
           /\ UNCHANGED in_flight
        \/ /\ e \in {"StartCall", "Proceed"} => s = "Terminating"
           /\ e = "ReceivedAnswer" => \/ s # "Connecting"
                                      \/ ~conns[c][Parent].map
                                      \/ conns[c][Child].made
           /\ e # "Terminate"
           /\ Settle(Popped(c), conns, messages, work, jni)
           /\ UNCHANGED in_flight
  /\ UNCHANGED active

\* The thread leaves its loop: its handle and the events never received go.
CallFsmExits(c) ==
  /\ calls[c].fsm = "complete"
  /\ Settle([calls EXCEPT ![c].fsm = "exited", ![c].queue = <<>>], conns,
            messages, work, jni)
  /\ UNCHANGED <<active, in_flight>>

-----------------------------------------------------------------------------
(* The connection FSMs and WebRTC's callbacks into them.                   *)

\* The observer turns its box into a Connection and queues an event with it.
ObserverCalls(c, d) ==
  /\ conns[c][d].pc = "open" /\ conns[c][d].fsm = "run"
  /\ ~conns[c][d].event
  /\ conns[c][d].map
  /\ Settle(calls, [conns EXCEPT ![c][d].event = TRUE], messages, work, jni)
  /\ UNCHANGED <<active, in_flight>>

\* It handles the event; a local candidate sends, or queues, a closure.
ConnectionFsm(c, d) ==
  /\ conns[c][d].event
  /\ conns[c][d].fsm \in {"run", "terminate"}
  /\ \E ice \in IF Len(messages) < MaxMessages THEN BOOLEAN ELSE {FALSE} :
       /\ Settle(calls, [conns EXCEPT ![c][d].event = FALSE],
                 IF ice THEN Pushed(messages, <<c, d>>) ELSE messages, work, jni)
       /\ in_flight' = (in_flight \/ ice)
  /\ UNCHANGED active

\* Terminate is the last event handled; the worker is told before the thread is
\* done with its handle.
ConnectionFsmTerminates(c, d) ==
  /\ conns[c][d].fsm = "terminate" /\ ~conns[c][d].event
  /\ Settle(calls, [conns EXCEPT ![c][d].fsm = "complete"], messages, work, jni)
  /\ UNCHANGED <<active, in_flight>>

ConnectionFsmExits(c, d) ==
  /\ conns[c][d].fsm = "complete"
  /\ Settle(calls, [conns EXCEPT ![c][d].fsm = "exited", ![c][d].event = FALSE],
            messages, work, jni)
  /\ UNCHANGED <<active, in_flight>>

-----------------------------------------------------------------------------
Next ==
  \/ \E c \in Calls :
       \/ call(c) \/ proceed(c) \/ get_active_connection(c)
       \/ handle_call(c) \/ handle_received_offer(c) \/ handle_proceed(c)
       \/ handle_received_answer(c) \/ handle_terminate_active_call(c)
       \/ terminate_and_drop_call(c) \/ CallFsm(c) \/ CallFsmExits(c)
       \/ \E d \in Devices :
            \/ ObserverCalls(c, d) \/ ConnectionFsm(c, d)
            \/ ConnectionFsmTerminates(c, d) \/ ConnectionFsmExits(c, d)
  \/ \E d \in Devices : terminate_connections(d) \/ ConnectionTerminated(d)
  \/ DropsAppConnection \/ DropsConnection
  \/ wait_for_terminate \/ TerminateEnds \/ handle_message_sent

Spec == Init /\ [][Next]_vars

\* Every thread keeps running: the worker, the FSMs, an application thread in a
\* native method; and the application reports on the messages it is given.
Worker ==
  \/ \E c \in Calls : terminate_and_drop_call(c)
  \/ \E d \in Devices : terminate_connections(d) \/ ConnectionTerminated(d)
  \/ wait_for_terminate \/ TerminateEnds

Fair(i) ==
  \/ i = 1 /\ Worker
  \/ i = 2 /\ handle_message_sent
  \/ i = 3 /\ (DropsAppConnection \/ DropsConnection)
  \/ i = 4 /\ \E c \in Calls : CallFsm(c) \/ CallFsmExits(c)
  \/ i \in {5, 6} /\ \E c \in Calls :
       LET d == i - 5
       IN ConnectionFsm(c, d) \/ ConnectionFsmTerminates(c, d) \/ ConnectionFsmExits(c, d)

-----------------------------------------------------------------------------
(* Properties.                                                             *)

\* "We have to make sure the PeerConnectionFactory outlives this PC": the
\* context, and with it the factory, is destroyed only when no connection
\* object the application made for the call is left, however the handles of the
\* Connections are dropped.
FactoryOutlivesConnections ==
  \A c \in Calls : calls[c].context = "disposed" =>
    \A d \in Devices : ~AppConnectionOpen(c, d)

\* "Once the PeerConnection is completely shutdown it is safe to free up the
\* connection_ptr": no observer callback can reach a freed box.
FreedOnlyWhenClosed ==
  \A c \in Calls, d \in Devices :
    conns[c][d].made /\ ~conns[c][d].ptr => conns[c][d].pc # "open"

\* The application is told at most once that a call concluded, and from then on
\* no thread, queue or connection holds the call: nothing mentions the released
\* call object again.
ConcludedIsLast ==
  \A c \in Calls :
    /\ calls[c].concluded <= 1
    /\ calls[c].concluded = 1 => ~Held(calls, conns, messages, work, jni, c)

\* A call that ends is concluded, and its context destroyed, unless creating one
\* of its connections failed: such a Connection is in no map, so that nothing
\* terminates it and its boxed clone holds the call for good.
EndedIsConcluded ==
  \A c \in Calls :
    \/ calls[c].st \in {"ending", "terminating"}
    \/ calls[c].st = "over" /\ calls[c].context = "set"
    => \E d \in Devices : conns[c][d].failed
=============================================================================
