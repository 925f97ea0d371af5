---------------------------- MODULE MessageQueue ----------------------------
(***************************************************************************)
(* The signaling message queue of the call manager (core/call_manager.rs): *)
(* the call manager gives the application one message at a time and waits  *)
(* for message_sent() or message_send_failure().  Messages are queued by   *)
(*   - the worker of a call: the offer or the answer (Call::proceed);      *)
(*   - the worker of its connection: candidates, buffered until they are   *)
(*     sent (Connection::buffer_local_ice_candidates);                     *)
(*   - the manager's worker: the hangup of a call that ended, and the busy *)
(*     of a call that was refused.                                         *)
(* Each thread takes the queue's mutex once to put its message in, and     *)
(* again for every message it gives to the application.                    *)
(*                                                                         *)
(* Ending the active call is one step here; CallManager takes it apart.    *)
(***************************************************************************)
EXTENDS Naturals, Sequences, FiniteSets, Functions

CONSTANTS
  Outgoing,  \* calls the application may place
  Incoming,  \* calls it may be offered
  MaxIce,    \* candidates a connection may buffer
  MaxInputs  \* bound on requests, candidates and failures

Calls == Outgoing \cup Incoming

ASSUME MessageQueueAssumption ==
  /\ Outgoing \subseteq Nat \ {0} /\ Incoming \subseteq Nat \ {0}
  /\ Outgoing \cap Incoming = {}
  /\ MaxIce \in Nat \ {0} /\ MaxInputs \in Nat

None == 0

VARIABLES
  queue,        \* message_queue.queue
  inFlight,     \* message_queue.messages_in_flight
  last,         \* message_queue.last_sent_message_type
  assumed,      \* the platform's assume_messages_sent()
  outstanding,  \* messages the application has not reported on
  active,       \* active_call_id
  life,         \* of each call: unknown, in the map, ended, dropped
  started,      \* calls that proceeded
  open,         \* calls whose connection can_send_messages()
  buffered,     \* buffered_local_ice_candidates of each call's connection
  didSend,      \* calls with did_send_offer
  thread,       \* what each thread is about
  tasks,        \* terminate tasks queued on the manager's worker
  sent,         \* history: messages the application was given
  hungUp,       \* history: calls that ended with a hangup
  overtaken,    \* history: calls whose terminate task ran before proceed was done
  gaveUp,       \* history: calls that lost a message to reset() or a failure
  inputs

queueVars == <<queue, inFlight, last, assumed, outstanding>>
callVars == <<active, life, tasks, hungUp>>
connVars == <<started, open, buffered, didSend>>
history == <<sent, overtaken, gaveUp>>

vars == <<queueVars, callVars, connVars, thread, history, inputs>>

Kind == {"Offer", "Answer", "Ice", "Hangup", "Busy"}

Message == [call : Calls, kind : Kind]

Msg(c, kind) == [call |-> c, kind |-> kind]

(* The manager's worker, the worker of each call and of its connection. *)
Manager == <<"manager", None>>
CallWorker(c) == <<"call", c>>
ConnWorker(c) == <<"connection", c>>

Threads == {Manager} \cup {CallWorker(c) : c \in Calls}
                     \cup {ConnWorker(c) : c \in Calls}

(* A thread is idle, or about to push a message, or in the loop of         *)
(* send_next_message, or in what it does `then'.                           *)
NoMessage == [call |-> None, kind |-> "none"]

Idle == [pc |-> "idle", msg |-> NoMessage, then |-> "idle"]

Pushes(msg, then) == [pc |-> "push", msg |-> msg, then |-> then]

Loops == [Idle EXCEPT !.pc = "loop"]

Moves(t, to) == thread' = [thread EXCEPT ![t] = to]

Init ==
  /\ queue = <<>> /\ inFlight = FALSE /\ last = "none"
  /\ assumed \in BOOLEAN
  /\ outstanding = <<>>
  /\ active = None /\ life = [c \in Calls |-> "unknown"]
  /\ started = {} /\ open = {} /\ buffered = [c \in Calls |-> 0] /\ didSend = {}
  /\ thread = [t \in Threads |-> Idle]
  /\ tasks = <<>>
  /\ sent = {} /\ hungUp = {} /\ overtaken = {} /\ gaveUp = {}
  /\ inputs = 0

Input ==
  /\ inputs < MaxInputs
  /\ inputs' = inputs + 1

-----------------------------------------------------------------------------
(* Ending a call.                                                          *)

(* What is left of queue q, in its order, as the only element of a set. *)
trim_messages(c, q) ==
  LET kept == {i \in DOMAIN q : q[i].call # c \/ q[i].kind \in {"Busy", "Hangup"}}
      picks == {f \in Bijection(1..Cardinality(kept), kept) :
                  \A i, j \in DOMAIN f : i < j => f[i] < f[j]}
  IN {[i \in DOMAIN f |-> q[f[i]]] : f \in picks}

(* terminate_active_call, or terminate_call for a call that is no longer   *)
(* active.  An incoming call that failed sends a hangup only if it was     *)
(* accepted.                                                               *)
EndCall(c, hangup, q) ==
  /\ active' = IF active = c THEN None ELSE active
  /\ queue' \in trim_messages(c, q)
  /\ life' = [life EXCEPT ![c] = "ended"]
  /\ hungUp' = IF hangup THEN hungUp \cup {c} ELSE hungUp
  /\ tasks' = Append(tasks, [call |-> c, hangup |-> hangup])

(* handle_received_offer keeps the mutex of `busy' while it sends a busy   *)
(* message, and ending the active call takes that mutex.                   *)
BusyLocked == thread[Manager].then = "unlock"

HangupOnFailure(c) == IF c \in Outgoing THEN {TRUE} ELSE BOOLEAN

(* internal_error: only the active call is ended. *)
internal_error(c, q) ==
  IF active = c THEN \E hangup \in HangupOnFailure(c) : EndCall(c, hangup, q)
                ELSE queue' = q /\ UNCHANGED callVars

-----------------------------------------------------------------------------
(* send_next_message.                                                      *)

Push(t) ==
  /\ thread[t].pc = "push"
  /\ queue' = Append(queue, thread[t].msg)
  /\ Moves(t, [thread[t] EXCEPT !.pc = "loop", !.msg = NoMessage])
  /\ UNCHANGED <<inFlight, last, assumed, outstanding, callVars, connVars,
                 history, inputs>>

Returns(t) == Moves(t, IF thread[t].then = "unlock" THEN Idle
                       ELSE [thread[t] EXCEPT !.pc = thread[t].then])

(* A message is in flight, or there is none. *)
NothingToSend(t) ==
  /\ thread[t].pc = "loop"
  /\ inFlight \/ queue = <<>>
  /\ Returns(t)
  /\ UNCHANGED <<queueVars, callVars, connVars, history, inputs>>

(* What the closure of a message tests before it calls the application. *)
StillWanted(m) ==
  CASE m.kind \in {"Offer", "Answer"} -> m.call \in open
    [] m.kind = "Ice"                 -> buffered[m.call] > 0
    [] OTHER                          -> TRUE

Taken(m) == IF m.kind = "Ice" THEN [buffered EXCEPT ![m.call] = 0] ELSE buffered

(* Deviation: the flag is set whatever the closure reports. *)
GivesMessageAlwaysInFlight(t) ==
  /\ thread[t].pc = "loop" /\ ~inFlight /\ queue # <<>>
  /\ LET m == Head(queue)
         given == StillWanted(m)
     IN /\ queue' = Tail(queue)
        /\ last' = m.kind
        /\ inFlight' = ~assumed
        /\ outstanding' = IF given /\ ~assumed THEN Append(outstanding, m)
                                               ELSE outstanding
        /\ sent' = IF given THEN sent \cup {m} ELSE sent
        /\ buffered' = Taken(m)
        /\ IF inFlight' THEN Returns(t) ELSE UNCHANGED thread
  /\ UNCHANGED <<assumed, callVars, started, open, didSend, overtaken, gaveUp,
                 inputs>>

(* The next message is given to the application, or passed over.  The loop *)
(* ends with a message in flight.                                          *)
GivesMessage(t) ==
  /\ thread[t].pc = "loop" /\ ~inFlight /\ queue # <<>>
  /\ LET m == Head(queue)
         given == StillWanted(m)
     IN /\ queue' = Tail(queue)
        /\ last' = m.kind
        /\ inFlight' = (given /\ ~assumed)
        /\ outstanding' = IF inFlight' THEN Append(outstanding, m)
                                       ELSE outstanding
        /\ sent' = IF given THEN sent \cup {m} ELSE sent
        /\ buffered' = Taken(m)
        /\ IF inFlight' THEN Returns(t) ELSE UNCHANGED thread
  /\ UNCHANGED <<assumed, callVars, started, open, didSend, overtaken, gaveUp,
                 inputs>>

(* The platform refuses the message: its call ends if it is the active     *)
(* one, and the loop goes on.  A manager that has locked `busy' itself     *)
(* waits for ever.                                                         *)
MessageFails(t) ==
  /\ thread[t].pc = "loop" /\ ~inFlight /\ queue # <<>> /\ Input
  /\ LET m == Head(queue)
     IN /\ StillWanted(m)
        /\ buffered' = Taken(m)
        /\ IF BusyLocked /\ active = m.call
           THEN /\ t = Manager /\ queue' = Tail(queue)
                /\ Moves(t, [thread[t] EXCEPT !.pc = "stuck"])
                /\ UNCHANGED callVars
           ELSE internal_error(m.call, Tail(queue)) /\ UNCHANGED thread
        /\ gaveUp' = gaveUp \cup {m.call}
  /\ UNCHANGED <<inFlight, last, assumed, outstanding, started, open, didSend,
                 sent, overtaken>>

-----------------------------------------------------------------------------
(* The call's and the connection's workers.                                *)

(* Deviation: did_send_offer is stored before the offer is queued. *)
proceed_stores_first(c) ==
  /\ thread[CallWorker(c)].pc = "idle"
  /\ life[c] \in {"active", "ended"} /\ c \notin started
  /\ started' = started \cup {c} /\ open' = open \cup {c}
  /\ didSend' = IF c \in Outgoing THEN didSend \cup {c} ELSE didSend
  /\ Moves(CallWorker(c),
           Pushes(Msg(c, IF c \in Outgoing THEN "Offer" ELSE "Answer"), "idle"))
  /\ UNCHANGED <<queueVars, callVars, buffered, history, inputs>>

(* Call::proceed: the connection starts, then the offer is queued, and     *)
(* only after send_offer returned is did_send_offer stored.  The work may  *)
(* pass the test for Terminating just before the call ends.                *)
proceed(c) ==
  /\ thread[CallWorker(c)].pc = "idle"
  /\ life[c] \in {"active", "ended"} /\ c \notin started
  /\ started' = started \cup {c} /\ open' = open \cup {c}
  /\ Moves(CallWorker(c),
           IF c \in Outgoing THEN Pushes(Msg(c, "Offer"), "store")
                             ELSE Pushes(Msg(c, "Answer"), "idle"))
  /\ UNCHANGED <<queueVars, callVars, buffered, didSend, history, inputs>>

(* Deviation: did_send_offer stays as it is. *)
StoresNothing(c) ==
  /\ thread[CallWorker(c)].pc = "store"
  /\ Moves(CallWorker(c), Idle)
  /\ UNCHANGED <<queueVars, callVars, connVars, history, inputs>>

StoresDidSendOffer(c) ==
  /\ thread[CallWorker(c)].pc = "store"
  /\ didSend' = didSend \cup {c}
  /\ Moves(CallWorker(c), Idle)
  /\ UNCHANGED <<queueVars, callVars, started, open, buffered, history, inputs>>

(* Deviation: a batch is announced with its second candidate. *)
buffer_announces_late(c) ==
  /\ thread[ConnWorker(c)].pc = "idle" /\ c \in open
  /\ buffered[c] < MaxIce /\ Input
  /\ buffered' = [buffered EXCEPT ![c] = @ + 1]
  /\ IF buffered[c] = 1 /\ life[c] = "active"
     THEN Moves(ConnWorker(c), Pushes(Msg(c, "Ice"), "idle"))
     ELSE UNCHANGED thread
  /\ UNCHANGED <<queueVars, callVars, started, open, didSend, history>>

(* Only the first candidate of a batch is announced to the queue, and not  *)
(* once the call is seen to be terminating.                                *)
buffer_local_ice_candidates(c) ==
  /\ thread[ConnWorker(c)].pc = "idle" /\ c \in open
  /\ buffered[c] < MaxIce /\ Input
  /\ buffered' = [buffered EXCEPT ![c] = @ + 1]
  /\ \/ /\ buffered[c] = 0
        /\ Moves(ConnWorker(c), Pushes(Msg(c, "Ice"), "idle"))
     \/ /\ buffered[c] # 0 \/ life[c] # "active"
        /\ UNCHANGED thread
  /\ UNCHANGED <<queueVars, callVars, started, open, didSend, history>>

(* A hangup over RTP data, or terminate, closes the connection. *)
ConnectionTerminates(c) ==
  /\ life[c] = "ended" /\ c \in open
  /\ open' = open \ {c}
  /\ UNCHANGED <<queueVars, callVars, started, buffered, didSend, thread,
                 history, inputs>>

(* Remote hangup, timeout, failure, on the worker of the call. *)
CallEnds(c) ==
  /\ thread[CallWorker(c)].pc = "idle" /\ active = c /\ ~BusyLocked /\ Input
  /\ \E hangup \in BOOLEAN : EndCall(c, hangup, queue)
  /\ UNCHANGED <<inFlight, last, assumed, outstanding, connVars, thread, history>>

-----------------------------------------------------------------------------
(* The manager's worker.                                                   *)

Request == thread[Manager].pc = "idle" /\ Input

(* call() and received_offer(): "Whenever there is a new call, ensure that *)
(* messages can flow".                                                     *)
StartCall(c) ==
  /\ Request /\ active = None /\ life[c] = "unknown"
  /\ active' = c
  /\ life' = [life EXCEPT ![c] = "active"]
  /\ inFlight' = FALSE
  /\ UNCHANGED <<queue, last, assumed, outstanding, tasks, hungUp, connVars,
                 thread, history>>

handle_hangup ==
  /\ Request /\ active # None
  /\ EndCall(active, TRUE, queue)
  /\ UNCHANGED <<inFlight, last, assumed, outstanding, connVars, thread, history>>

(* An offer while there is an active call. *)
send_busy(c) ==
  /\ Request /\ active # None /\ c \in Incoming /\ life[c] = "unknown"
  /\ life' = [life EXCEPT ![c] = "dropped"]
  /\ Moves(Manager, Pushes(Msg(c, "Busy"), "unlock"))
  /\ UNCHANGED <<queueVars, active, tasks, hungUp, connVars, history>>

Reported(i) ==
  outstanding' = SubSeq(outstanding, 1, i - 1) \o SubSeq(outstanding, i + 1, Len(outstanding))

(* message_sent(): whichever call it is for. *)
handle_message_sent ==
  /\ thread[Manager].pc = "idle"
  /\ \E i \in 1..Len(outstanding) : Reported(i)
  /\ inFlight' = FALSE
  /\ Moves(Manager, Loops)
  /\ UNCHANGED <<queue, last, assumed, callVars, connVars, history, inputs>>

(* message_send_failure(): the call ends, unless what failed was last an   *)
(* ICE message and the call is already connected.                          *)
handle_message_send_failure ==
  /\ Request
  /\ \E i \in 1..Len(outstanding) :
       LET c == outstanding[i].call
       IN /\ Reported(i)
          /\ \/ /\ life[c] \in {"active", "ended"}
                /\ \E hangup \in HangupOnFailure(c) : EndCall(c, hangup, queue)
             \/ /\ life[c] = "dropped" \/ (active = c /\ last = "Ice")
                /\ UNCHANGED <<queue, callVars>>
          /\ gaveUp' = gaveUp \cup {c}
  /\ inFlight' = FALSE
  /\ Moves(Manager, Loops)
  /\ UNCHANGED <<last, assumed, connVars, sent, overtaken>>

(* The task that terminate_call queued: the hangup, if the peer can know   *)
(* of the call, and then Call::terminate.                                  *)
should_send_hangup(c) == c \in Incoming \cup didSend

TerminateTask ==
  /\ thread[Manager].pc = "idle" /\ tasks # <<>>
  /\ LET c == Head(tasks).call
     IN /\ Moves(Manager, IF Head(tasks).hangup /\ should_send_hangup(c)
                          THEN Pushes(Msg(c, "Hangup"), "drop")
                          ELSE [Idle EXCEPT !.pc = "drop"])
        /\ overtaken' = IF c \in started /\ thread[CallWorker(c)].pc = "idle"
                        THEN overtaken ELSE overtaken \cup {c}
  /\ UNCHANGED <<queueVars, callVars, connVars, sent, gaveUp, inputs>>

(* terminate_and_drop_call joins the workers of the call. *)
terminate_and_drop_call ==
  /\ thread[Manager].pc = "drop"
  /\ LET c == Head(tasks).call
     IN /\ thread[CallWorker(c)].pc = "idle" /\ thread[ConnWorker(c)].pc = "idle"
        /\ life' = [life EXCEPT ![c] = "dropped"]
        /\ open' = open \ {c}
  /\ tasks' = Tail(tasks)
  /\ Moves(Manager, Idle)
  /\ UNCHANGED <<queueVars, active, hungUp, started, buffered, didSend, history,
                 inputs>>

(* reset(): every call of the map is terminated, also one that has ended   *)
(* already, and the queue is emptied.                                      *)
handle_reset ==
  /\ Request
  /\ LET ended == {c \in Calls : life[c] \in {"active", "ended"}}
     IN /\ life' = [c \in Calls |-> IF c \in ended THEN "ended" ELSE life[c]]
        /\ hungUp' = hungUp \cup ended
        /\ \E order \in Bijection(1..Cardinality(ended), ended) :
             tasks' = tasks \o [i \in 1..Cardinality(ended) |->
                                  [call |-> order[i], hangup |-> TRUE]]
  /\ active' = None
  /\ queue' = <<>> /\ inFlight' = FALSE
  /\ gaveUp' = Calls
  /\ UNCHANGED <<last, assumed, outstanding, connVars, thread, sent, overtaken>>

-----------------------------------------------------------------------------
SendNext(t) == Push(t) \/ NothingToSend(t) \/ GivesMessage(t)

Next ==
  \/ \E t \in Threads : SendNext(t) \/ MessageFails(t)
  \/ \E c \in Calls :
       \/ proceed(c) \/ StoresDidSendOffer(c) \/ buffer_local_ice_candidates(c)
       \/ ConnectionTerminates(c) \/ CallEnds(c)
       \/ StartCall(c) \/ send_busy(c)
  \/ handle_hangup \/ handle_message_sent \/ handle_message_send_failure
  \/ TerminateTask \/ terminate_and_drop_call \/ handle_reset

Spec == Init /\ [][Next]_vars

(* The threads run, and the application reports on what it was given, as   *)
(* its contract with the call manager demands.                             *)
Fairness ==
  /\ \A t \in Threads : WF_vars(SendNext(t))
  /\ \A c \in Calls : WF_vars(StoresDidSendOffer(c))
  /\ WF_vars(handle_message_sent)
  /\ WF_vars(TerminateTask) /\ WF_vars(terminate_and_drop_call)

FairSpec == Spec /\ Fairness

-----------------------------------------------------------------------------
TypeOK ==
  /\ queue \in Seq(Message) /\ outstanding \in Seq(Message)
  /\ inFlight \in BOOLEAN /\ assumed \in BOOLEAN
  /\ last \in Kind \cup {"none"}
  /\ active \in Calls \cup {None}
  /\ life \in [Calls -> {"unknown", "active", "ended", "dropped"}]
  /\ started \subseteq Calls /\ open \subseteq Calls /\ didSend \subseteq Calls
  /\ buffered \in [Calls -> 0..MaxIce]
  /\ thread \in [Threads -> [pc : {"idle", "push", "loop", "store", "drop", "stuck"},
                             msg : Message \cup {NoMessage},
                             then : {"idle", "store", "drop", "unlock"}]]
  /\ tasks \in Seq([call : Calls, hangup : BOOLEAN])
  /\ sent \subseteq Message /\ hungUp \subseteq Calls
  /\ overtaken \subseteq Calls /\ gaveUp \subseteq Calls
  /\ inputs \in 0..MaxInputs

(* The queue never stalls: a message that waits while no thread is sending *)
(* has a report of the application to wait for, and a queue that is marked *)
(* in flight has one, too, also after a new call cleared the mark.         *)
(* (TypeOK is a part of it.)                                               *)
NeverStalls ==
  /\ TypeOK
  /\ inFlight => outstanding # <<>>
  /\ queue # <<>> /\ (\A t \in Threads : thread[t].pc \notin {"loop", "stuck"}) =>
       outstanding # <<>>

(* Candidates are not stranded in the buffer of a live call's connection:  *)
(* although only the first of a batch announces them, a message that will  *)
(* take them is in the queue, or about to be.                              *)
CandidatesAnnounced ==
  \A c \in Calls : buffered[c] > 0 /\ life[c] = "active" =>
    \/ \E i \in 1..Len(queue) : queue[i] = Msg(c, "Ice")
    \/ thread[ConnWorker(c)].pc = "push"

(* The peer is never sent an offer after the hangup of the same call,      *)
(* whatever is queued while the call is ended.                             *)
OfferBeforeHangup ==
  [][\A c \in Outgoing :
       Msg(c, "Offer") \in sent' \ sent => Msg(c, "Hangup") \notin sent]_vars

(* "They should always be sent as backup for callees to end their side of  *)
(* the call" (trim_messages): a call whose offer was sent and that ended   *)
(* with a hangup is hung up by a message, unless the application failed to *)
(* send one or gave up on everything.  The exceptions are a call ended     *)
(* before proceed() noted in did_send_offer that its offer is sent, and a  *)
(* manager that locked itself out.                                         *)
HangupIsSent ==
  \A c \in Outgoing :
    c \in hungUp /\ Msg(c, "Offer") \in sent ~>
      \/ Msg(c, "Hangup") \in sent
      \/ c \in gaveUp \cup overtaken
      \/ thread[Manager].pc = "stuck"
=============================================================================
