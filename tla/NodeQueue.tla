------------------------------ MODULE NodeQueue ------------------------------
(* How events cross from the library's threads to JavaScript in the desktop     *)
(* client, and how the application's answers come back: EventReporter, the      *)
(* callback of CallEndpoint and processEvents (electron.rs), the platform       *)
(* (native.rs), and RingRTCType (Service.ts), whose group-call handlers run     *)
(* after the batch of events they came in.                                      *)
EXTENDS Integers, Sequences, FiniteSets

CONSTANTS Threads,      \* library threads that report events
          Clients,      \* group call clients
          None,
          MaxSent,      \* bound on the events those threads send
          MaxRequests,  \* bound on the requests (peeks, call links)
          MaxThrows     \* bound on handlers of the application that throw

VARIABLES queue,        \* events_receiver
          reported,     \* event_reported
          wakeups,      \* callbacks in the channel to the JavaScript thread
          sending,      \* threads between sending an event and reporting it
          js,           \* "idle", "woken" (the callback has begun) or "batch"
          batch,        \* events collected and not handled yet
          deferred,     \* functions waiting in sillyDeadlockProtection
          groupCalls,   \* keys of _groupCallByClientId
          clients,      \* clients the call manager holds
          ended,        \* clients whose observer was told of the end
          observed,     \* the observer call the last step made, if any
          asked,        \* requests whose promise is open
          nextId,
          app,          \* HTTP requests and messages the application works on
          inFlight,     \* the call manager waits for a signaling message to be sent
          sent, threw

vars == <<queue, reported, wakeups, sending, js, batch, deferred, groupCalls, clients,
          ended, observed, asked, nextId, app, inFlight, sent, threw>>
reporter == <<queue, reported, wakeups>>
groups == <<groupCalls, clients, ended>>
requests == <<asked, nextId, app, inFlight>>

Event(kind, id) == [kind |-> kind, id |-> id]

Quiet == Event("none", None)

Message == Event("signal", None)

Init ==
  /\ queue = <<>> /\ reported = FALSE /\ wakeups = 0 /\ sending = {} /\ sent = 0
  /\ js = "idle" /\ batch = <<>> /\ deferred = <<>>
  /\ groupCalls = {} /\ clients = {} /\ ended = {} /\ observed = Quiet
  /\ asked = {} /\ nextId = 1 /\ app = {} /\ inFlight = FALSE /\ threw = 0

-----------------------------------------------------------------------------
(* The library's threads.  EventReporter::send() queues the event and then     *)
(* reports it; only the first report since the last callback wakes JavaScript. *)
Reported == reported' = TRUE /\ wakeups' = IF reported THEN wakeups ELSE wakeups + 1

send(t, e) ==
  /\ t \notin sending /\ sent < MaxSent /\ sent' = sent + 1
  /\ queue' = Append(queue, e)
  /\ sending' = sending \cup {t}
  /\ observed' = Quiet
  /\ UNCHANGED <<reported, wakeups, js, batch, deferred, groups, asked, nextId, app, threw>>

report(t) ==
  /\ t \in sending /\ sending' = sending \ {t}
  /\ Reported
  /\ observed' = Quiet
  /\ UNCHANGED <<queue, sent, js, batch, deferred, groups, requests, threw>>

\* A client reports updates, and its end, while the call manager holds it.
send_group_update(t) ==
  /\ \E c \in clients, kind \in {"update", "ended"} : send(t, Event(kind, c))
  /\ UNCHANGED inFlight

\* One signaling message at a time is with the application.
send_signaling(t) == ~inFlight /\ inFlight' = TRUE /\ send(t, Message)

\* Call messages, call states, levels, device changes: the application is called, no more.
send_state(t) == send(t, Event("call", None)) /\ UNCHANGED inFlight

-----------------------------------------------------------------------------
(* The JavaScript thread.                                                      *)
\* The callback clears the flag before it processes anything.
CallbackClearsNothing ==
  /\ js = "idle" /\ deferred = <<>> /\ wakeups > 0
  /\ wakeups' = wakeups - 1 /\ UNCHANGED reported
  /\ js' = "woken" /\ observed' = Quiet
  /\ UNCHANGED <<queue, sending, sent, batch, deferred, groups, requests, threw>>

Callback ==
  /\ js = "idle" /\ deferred = <<>> /\ wakeups > 0
  /\ wakeups' = wakeups - 1 /\ reported' = FALSE
  /\ js' = "woken" /\ observed' = Quiet
  /\ UNCHANGED <<queue, sending, sent, batch, deferred, groups, requests, threw>>

Throws == threw < MaxThrows /\ threw' = threw + 1

\* processEvents() takes the log entries and then every event there is; a log handler
\* that throws leaves the events where they are.
processEvents ==
  /\ js = "woken"
  /\ \/ /\ js' = "batch" /\ batch' = queue /\ queue' = <<>> /\ UNCHANGED threw
     \/ Throws /\ js' = "idle" /\ UNCHANGED <<batch, queue>>
  /\ observed' = Quiet
  /\ UNCHANGED <<reported, wakeups, sending, sent, deferred, groups, requests>>

\* The arms of the loop over the batch.  Signaling messages and HTTP requests go to the
\* application, which answers later.
SendSignaling(e) == e.kind = "signal" /\ app' = app \cup {e} /\ UNCHANGED deferred

SendHttpRequest(e) == e.kind = "http" /\ app' = app \cup {e} /\ UNCHANGED deferred

CallState(e) == e.kind = "call" /\ UNCHANGED <<app, deferred>>

\* Group updates only defer their handler, and so do the answers to requests.
GroupUpdate(e) ==
  e.kind \in {"update", "ended"} /\ deferred' = Append(deferred, e) /\ UNCHANGED app

CallLinkResponse(e) == e.kind = "reply" /\ deferred' = Append(deferred, e) /\ UNCHANGED app

\* An observer method that throws ends the batch.
HandleEvent ==
  /\ js = "batch" /\ batch # <<>>
  /\ LET e == Head(batch)
     IN \/ /\ \/ SendSignaling(e) \/ SendHttpRequest(e) \/ CallState(e)
              \/ GroupUpdate(e) \/ CallLinkResponse(e)
           /\ batch' = Tail(batch)
           /\ UNCHANGED <<js, threw>>
        \/ Throws /\ js' = "idle" /\ batch' = <<>> /\ UNCHANGED <<app, deferred>>
  /\ observed' = Quiet
  /\ UNCHANGED <<reporter, sending, sent, groups, asked, nextId, inFlight>>

BatchDone ==
  /\ js = "batch" /\ batch = <<>> /\ js' = "idle"
  /\ observed' = Quiet
  /\ UNCHANGED <<reporter, sending, sent, batch, deferred, groups, requests, threw>>

\* Whether a deferred handler finds its group call: the map is read when it runs.
FoundAnyway(c) == c \in Clients

Found(c) == c \in groupCalls

handleUpdate(c) ==
  /\ observed' = IF Found(c) THEN Event("update", c) ELSE Quiet
  /\ UNCHANGED <<reporter, groups, requests>>

handleEnded(c) ==
  /\ IF Found(c)
     THEN /\ groupCalls' = groupCalls \ {c} /\ clients' = clients \ {c}
          /\ ended' = ended \cup {c} /\ observed' = Event("ended", c)
     ELSE UNCHANGED groups /\ observed' = Quiet
  /\ UNCHANGED <<reporter, requests>>

handleCallLinkResponse(r) ==
  /\ asked' = asked \ {r} /\ observed' = Quiet
  /\ UNCHANGED <<reporter, groups, nextId, app, inFlight>>

\* What the library does at once on the JavaScript thread: a request becomes an HTTP
\* request, and an HTTP answer the answer to the request.
FromJs(e) ==
  /\ queue' = Append(queue, e) /\ Reported /\ observed' = Quiet
  /\ UNCHANGED <<groups, requests>>

readCallLink(r) == FromJs(Event("http", r))

receivedHttpResponse(r) == FromJs(Event("reply", r))

sillyDeadlockProtection ==
  /\ js = "idle" /\ deferred # <<>>
  /\ LET e == Head(deferred)
     IN \/ e.kind = "update" /\ handleUpdate(e.id)
        \/ e.kind = "ended" /\ handleEnded(e.id)
        \/ e.kind = "reply" /\ handleCallLinkResponse(e.id)
        \/ e.kind = "ask" /\ readCallLink(e.id)
        \/ e.kind = "answer" /\ receivedHttpResponse(e.id)
  /\ deferred' = Tail(deferred)
  /\ UNCHANGED <<sending, sent, js, batch, threw>>

-----------------------------------------------------------------------------
(* The application.                                                            *)
App == js = "idle" /\ deferred = <<>> /\ observed' = Quiet /\ UNCHANGED <<reporter, sending, sent, js, batch>>

getGroupCall ==
  /\ App
  /\ \E c \in Clients \ (clients \cup ended) :
       groupCalls' = groupCalls \cup {c} /\ clients' = clients \cup {c}
  /\ UNCHANGED <<deferred, ended, requests, threw>>

AskService ==
  /\ App /\ nextId <= MaxRequests
  /\ asked' = asked \cup {nextId} /\ nextId' = nextId + 1
  /\ deferred' = Append(deferred, Event("ask", nextId))
  /\ UNCHANGED <<groups, app, inFlight, threw>>

\* receivedHttpResponse() and httpRequestFailed() alike.
AnswerHttp ==
  /\ App
  /\ \E e \in app \ {Message} :
       app' = app \ {e} /\ deferred' = Append(deferred, Event("answer", e.id))
  /\ UNCHANGED <<groups, asked, nextId, inFlight, threw>>

\* signalingMessageSent() and signalingMessageSendFailed() let the call manager go on; an
\* exception in the application's handler reaches neither.
sendSignaling ==
  /\ App /\ Message \in app /\ app' = app \ {Message}
  /\ \/ inFlight' = FALSE /\ UNCHANGED threw
     \/ Throws /\ UNCHANGED inFlight
  /\ UNCHANGED <<groups, deferred, asked, nextId>>

Reports == \E t \in Threads : report(t)

Next ==
  \/ \E t \in Threads : send_group_update(t) \/ send_signaling(t) \/ send_state(t)
  \/ Reports
  \/ Callback \/ processEvents \/ HandleEvent \/ BatchDone \/ sillyDeadlockProtection
  \/ getGroupCall \/ AskService \/ AnswerHttp \/ sendSignaling

Spec == Init /\ [][Next]_vars

\* A thread that has sent goes on to report, and the JavaScript thread runs: callbacks, what
\* they defer, and the answers of the application.
JsRuns ==
  \/ Callback \/ processEvents \/ HandleEvent \/ BatchDone \/ sillyDeadlockProtection
  \/ AnswerHttp \/ sendSignaling

Fair(i) ==
  \/ i = 1 /\ Reports
  \/ i = 2 /\ JsRuns

-----------------------------------------------------------------------------
TypeOK ==
  /\ sending \subseteq Threads /\ groupCalls \subseteq clients
  /\ ended \cap clients = {} /\ asked \subseteq 1..MaxRequests

\* A request for a peek or a call link settles its promise, and the call manager learns
\* what became of each signaling message, when no handler of the application throws: the
\* event that carries it is collected although most reports wake nobody.
RequestsAnswered == threw = 0 => ~inFlight /\ asked = {}

\* A group call's observer hears nothing more after onEnded(), although events for the
\* client may follow the end in the same batch or a later one.
NothingAfterEnded == observed.kind = "update" => observed.id \notin ended
=============================================================================
