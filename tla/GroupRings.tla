----------------------------- MODULE GroupRings -----------------------------
(***************************************************************************)
(* Rings of group calls, as CallManager keeps them (core/call_manager.rs): *)
(* the table of rings that are neither answered nor over, the clients of   *)
(* group calls, and the messages about rings that other users and the      *)
(* user's own devices send.                                                *)
(*                                                                         *)
(* Three threads meet here.  The worker handles messages and timeouts; it  *)
(* reads `busy', changes the table and tells the clients under a lock of   *)
(* its own each, which makes a ring three steps.  The application's thread *)
(* creates and deletes clients.  A client's actor joins and leaves.        *)
(*                                                                         *)
(* Time is only whether TIME_OUT_PERIOD has passed since a ring.           *)
(***************************************************************************)
EXTENDS Naturals, Sequences

CONSTANTS
  Groups, RingIds, Ringers,  \* groups, rings of them, users who ring
  Self,                      \* the user of this device
  NoRing,                    \* None
  MaxMessages,               \* bound on messages received
  MaxClients,                \* bound on clients created
  MaxBusy                    \* bound on calls of another kind

VARIABLES
  selfKnown,  \* self_uuid is set
  starts,     \* the calls of start_group_ring, with the age of each
  rings,      \* outstanding_group_rings: the start each entry comes from, or 0
  worker,     \* what the worker does
  clients,    \* group_call_by_client_id, every client ever created
  busy,       \* busy, and with what
  showing,    \* rings the application was told of, and not yet of their end
  over,       \* history: rings that ended after they last started
  response,   \* what the user's other devices were sent last
  received,   \* messages received
  others      \* calls of another kind so far

vars == <<selfKnown, starts, rings, worker, clients, busy, showing, over,
          response, received, others>>

Idle == [at |-> "idle"]

Message == [kind : {"Ring", "Cancelled"}, group : Groups, ring : RingIds,
            sender : Ringers, old : BOOLEAN]
           \cup [kind : {"Accepted", "Declined", "Busy", "Ringing"}, group : Groups,
                 ring : RingIds, sender : {Self} \cup Ringers, old : {FALSE}]

Init ==
  /\ selfKnown = FALSE /\ starts = << >> /\ rings = [g \in Groups |-> 0]
  /\ worker = Idle /\ clients = << >> /\ busy = "free"
  /\ showing = {} /\ over = {} /\ response = << >> /\ received = 0 /\ others = 0

has_expired(i) == starts[i].age # "young"

\* A call of remove_outstanding_group_ring; `expected' is Ringers when any
\* sender will do.
Removes(g, expected, r) ==
  /\ rings[g] # 0 /\ starts[rings[g]].ring = r /\ starts[rings[g]].sender \in expected

KeepsTheRing(g, expected, r) ==
  /\ UNCHANGED rings
  /\ over' = IF Removes(g, expected, r) THEN over \cup {<<g, r>>} ELSE over

remove_outstanding_group_ring(g, expected, r) ==
  IF Removes(g, expected, r)
  THEN rings' = [rings EXCEPT ![g] = 0] /\ over' = over \cup {<<g, r>>}
  ELSE UNCHANGED <<rings, over>>

\* What cancel_group_ring sends to the user's own devices.
Respond(kind, g, r) ==
  response' = IF selfKnown THEN <<kind, g, r>> ELSE response

set_self_uuid ==
  /\ ~selfKnown /\ selfKnown' = TRUE
  /\ UNCHANGED <<starts, rings, worker, clients, busy, showing, over, response,
                 received, others>>

\* The application cancels a ring, and says why when the user declined it.
cancel_group_ring(g, r, declined) ==
  /\ <<g, r>> \in showing
  /\ remove_outstanding_group_ring(g, Ringers, r)
  /\ IF declined THEN Respond("Declined", g, r) ELSE UNCHANGED response
  /\ showing' = showing \ {<<g, r>>}
  /\ UNCHANGED <<selfKnown, starts, worker, clients, busy, received, others>>

\* handle_received_call_message up to the first change of the table.  A ring
\* that is wanted goes on in start_group_ring.
handle_received_call_message(m) ==
  LET g == m.group  r == m.ring IN
  /\ worker = Idle /\ received < MaxMessages /\ received' = received + 1
  /\ CASE m.kind = "Ring" /\ ~m.old /\ busy = "free" ->
            /\ worker' = [at |-> "insert", m |-> m]
            /\ UNCHANGED <<rings, over, showing, response>>
       [] m.kind = "Ring" /\ ~m.old /\ busy # "free" ->
            /\ remove_outstanding_group_ring(g, Ringers, r)
            /\ Respond("Busy", g, r)
            /\ showing' = showing \ {<<g, r>>}
            /\ UNCHANGED worker
       [] m.kind = "Ring" /\ m.old ->
            /\ showing' = showing \ {<<g, r>>}
            /\ UNCHANGED <<rings, over, worker, response>>
       [] m.kind = "Cancelled" ->
            /\ remove_outstanding_group_ring(g, {m.sender}, r)
            /\ showing' = showing \ {<<g, r>>}
            /\ UNCHANGED <<worker, response>>
       [] m.kind \in {"Accepted", "Declined", "Busy"} /\ selfKnown /\ m.sender = Self ->
            /\ remove_outstanding_group_ring(g, Ringers, r)
            /\ showing' = showing \ {<<g, r>>}
            /\ UNCHANGED <<worker, response>>
       [] OTHER -> UNCHANGED <<rings, over, showing, worker, response>>
  /\ UNCHANGED <<selfKnown, starts, clients, busy, others>>

\* start_group_ring, first lock: expired rings go, this one replaces the
\* group's, and the timeout is armed (the timer starts with the ring).
InsertRing ==
  LET m == worker.m IN
  /\ worker.at = "insert" /\ worker' = [worker EXCEPT !.at = "provide"]
  /\ starts' = Append(starts, [group |-> m.group, ring |-> m.ring,
                               sender |-> m.sender, age |-> "young"])
  /\ rings' = [g \in Groups |-> IF g = m.group THEN Len(starts) + 1
                                ELSE IF rings[g] # 0 /\ has_expired(rings[g])
                                     THEN 0 ELSE rings[g]]
  /\ over' = over \ {<<m.group, m.ring>>}
  /\ UNCHANGED <<selfKnown, clients, busy, showing, response, received, others>>

ProvidedNever(c, g, r) == c

\* Client::provide_ring_id_if_absent, for every active client of the group.
Provided(c, g, r) ==
  IF c.group = g /\ c.active /\ ~c.joined /\ c.ring = NoRing
  THEN [c EXCEPT !.ring = r] ELSE c

\* start_group_ring, second lock, and the update for the application.
ProvideRing ==
  LET m == worker.m IN
  /\ worker.at = "provide" /\ worker' = Idle
  /\ clients' = [i \in DOMAIN clients |-> Provided(clients[i], m.group, m.ring)]
  /\ showing' = showing \cup {<<m.group, m.ring>>}
  /\ UNCHANGED <<selfKnown, starts, rings, busy, over, response, received, others>>

\* TIME_OUT_PERIOD passes since a ring; earlier rings are older.
RingAges(i) ==
  /\ starts[i].age = "young" /\ \A j \in 1 .. i - 1 : starts[j].age # "young"
  /\ starts' = [starts EXCEPT ![i].age = "due"]
  /\ UNCHANGED <<selfKnown, rings, worker, clients, busy, showing, over, response,
                 received, others>>

RingNeverTimesOut(i) == FALSE /\ UNCHANGED vars

\* The delayed task of start_group_ring.
RingTimesOut(i) ==
  LET s == starts[i] IN
  /\ worker = Idle /\ s.age = "due" /\ \A j \in 1 .. i - 1 : starts[j].age = "fired"
  /\ starts' = [starts EXCEPT ![i].age = "fired"]
  /\ remove_outstanding_group_ring(s.group, {s.sender}, s.ring)
  /\ showing' = showing \ {<<s.group, s.ring>>}
  /\ UNCHANGED <<selfKnown, worker, clients, busy, response, received, others>>

\* create_group_call_client: one active client for a group, which starts
\* with the group's ring.
create_group_call_client(g) ==
  LET live == [h \in Groups |-> IF rings[h] # 0 /\ has_expired(rings[h])
                                THEN 0 ELSE rings[h]] IN
  /\ Len(clients) < MaxClients
  /\ ~\E i \in DOMAIN clients : clients[i].group = g /\ clients[i].active
  /\ rings' = live
  /\ clients' = Append(clients, [group |-> g, active |-> TRUE, joined |-> FALSE,
                                 left |-> FALSE,
                                 ring |-> IF live[g] = 0 THEN NoRing
                                          ELSE starts[live[g]].ring])
  /\ UNCHANGED <<selfKnown, starts, worker, busy, showing, over, response,
                 received, others>>

\* Client::join with accept_ring_if_needed, and leave.
join(i) ==
  LET c == clients[i] IN
  /\ ~c.joined /\ ~c.left /\ busy = "free" /\ busy' = "group"
  /\ clients' = [clients EXCEPT ![i].joined = TRUE]
  /\ IF c.ring # NoRing THEN Respond("Accepted", c.group, c.ring)
                        ELSE UNCHANGED response
  /\ UNCHANGED <<selfKnown, starts, rings, worker, showing, over, received, others>>

leave(i) ==
  /\ clients[i].joined /\ busy' = "free"
  /\ clients' = [clients EXCEPT ![i].joined = FALSE, ![i].left = TRUE, ![i].ring = NoRing]
  /\ UNCHANGED <<selfKnown, starts, rings, worker, showing, over, response,
                 received, others>>

\* disconnect() marks the client inactive and makes it leave; a deleted
\* client was disconnected before.
disconnect(i) ==
  /\ clients[i].active
  /\ busy' = IF clients[i].joined THEN "free" ELSE busy
  /\ clients' = [clients EXCEPT ![i].active = FALSE, ![i].joined = FALSE,
                                ![i].left = TRUE, ![i].ring = NoRing]
  /\ UNCHANGED <<selfKnown, starts, rings, worker, showing, over, response,
                 received, others>>

\* A call of another kind takes and gives back `busy'.
OtherCall ==
  /\ \/ busy = "free" /\ others < MaxBusy /\ others' = others + 1 /\ busy' = "other"
     \/ busy = "other" /\ busy' = "free" /\ UNCHANGED others
  /\ UNCHANGED <<selfKnown, starts, rings, worker, clients, showing, over, response,
                 received>>

Timeouts == \E i \in DOMAIN starts : RingAges(i) \/ RingTimesOut(i)

Next ==
  \/ set_self_uuid
  \/ \E g \in Groups, r \in RingIds, d \in BOOLEAN : cancel_group_ring(g, r, d)
  \/ \E m \in Message : handle_received_call_message(m)
  \/ InsertRing \/ ProvideRing
  \/ Timeouts
  \/ \E g \in Groups : create_group_call_client(g)
  \/ \E i \in DOMAIN clients : join(i) \/ leave(i) \/ disconnect(i)
  \/ OtherCall

Spec == Init /\ [][Next]_vars

\* The worker runs and its delayed tasks come due.
Fair(i) ==
  \/ i = 1 /\ InsertRing
  \/ i = 2 /\ ProvideRing
  \/ i = 3 /\ Timeouts

-----------------------------------------------------------------------------
(***************************************************************************)
(* A ring the application was told of always ends: an answer on any device,*)
(* a cancellation or the timeout of start_group_ring reaches it, whatever  *)
(* rings and timeouts of the same group came before.                       *)
(***************************************************************************)
RingsEnd == showing = {}

(***************************************************************************)
(* Whichever of the two comes first, a ring and the client of its group    *)
(* find each other: when the worker is done with a ring that is still      *)
(* outstanding, a client of the group that has not joined knows a ring to  *)
(* answer (create_group_call_client, provide_ring_id_if_absent).           *)
(***************************************************************************)
RingReachesClient ==
  worker = Idle =>
    \A i \in DOMAIN clients :
      clients[i].active /\ ~clients[i].joined /\ ~clients[i].left
      /\ rings[clients[i].group] # 0 => clients[i].ring # NoRing

(***************************************************************************)
(* A client never starts with a ring that is over: one its ringer          *)
(* cancelled, the user answered on some device, or that timed out is not   *)
(* answered again by joining later (remove_outstanding_group_ring).        *)
(***************************************************************************)
StartsWithLiveRing ==
  \A i \in DOMAIN clients' \ DOMAIN clients :
    clients'[i].ring # NoRing => <<clients'[i].group, clients'[i].ring>> \notin over

=============================================================================
