-------------------------- MODULE GroupCallProofs ---------------------------
(***************************************************************************)
(* Proofs about the group call client of module GroupCall, for any devices *)
(* and any number of joins, requests and inputs.                           *)
(*                                                                         *)
(* The handlers are operators from a state of the client to the next, so   *)
(* each gets a lemma about what it keeps, and the lemmas compose as the    *)
(* handlers do.                                                            *)
(***************************************************************************)
EXTENDS GroupCall, TLAPS

(* A leaf is left to Zenon unless it says otherwise: most are first-order  *)
(* reasoning over sets and functions.                                      *)
USE ZenonT(60)

(* What holds of the client's state also in the middle of a handler, when  *)
(* a join is being completed: who owns the busy flag, that a ring nobody   *)
(* answered belongs to a call the client is in and can still be cancelled, *)
(* and that a client with a delayed task of end() has left, unless it      *)
(* joined again meanwhile.                                                 *)
Sound(s) ==
  /\ s.busy = "mine" <=> s.join # "NotJoined"
  /\ s.alone => InCall(s) /\ s.ring = "HasSent"
  /\ s.ends > 0 /\ ~s.lateJoin => s.join = "NotJoined"

(* on_client_joined has run if and only if the client has joined. *)
Configured(s) == s.configured = (IF s.join = "Joined" THEN 1 ELSE 0)

(* Two states that agree on all that those two predicates speak of. *)
Same(s, r) ==
  /\ r.join = s.join /\ r.busy = s.busy /\ r.alone = s.alone /\ r.ring = s.ring
  /\ r.ends = s.ends /\ r.lateJoin = s.lateJoin /\ r.configured = s.configured
  /\ r.attempt = s.attempt

(* The inductive invariant.  Every join request stems from a join() of its *)
(* own, and the task that tells of the end stops the actor.                *)
Inv ==
  /\ TypeOK
  /\ Sound(state) /\ Configured(state)
  /\ joins + (IF deferred THEN 1 ELSE 0) <= state.attempt
  /\ stopped /\ ~state.lateJoin => state.join = "NotJoined"
  /\ told = IF stopped THEN 1 ELSE 0

-----------------------------------------------------------------------------

(* Whatever becomes of a ring, the state keeps its type. *)
LEMMA RingTyped ==
  ASSUME NEW s \in State, NEW to \in OutgoingRingState, NEW alone \in BOOLEAN
  PROVE  [s EXCEPT !.alone = alone, !.ring = to] \in State
<1> DEFINE p == [s EXCEPT !.alone = alone]
<1>1. p \in State
  BY DEF State
<1>2. [s EXCEPT !.alone = alone, !.ring = to] = [p EXCEPT !.ring = to]
  BY DEF State
<1> HIDE DEF p
<1>3. [p EXCEPT !.ring = to] \in State
  BY <1>1 DEF State
<1>. QED
  BY <1>2, <1>3

(* Asking for the devices in the call touches nothing else. *)
LEMMA RequestEffect ==
  ASSUME NEW s \in State, NEW soon \in BOOLEAN, NEW late \in BOOLEAN,
         NEW r, r = maybe_request_remote_devices(s, soon, late)
  PROVE  r \in State /\ Same(s, r)
<1>1. CASE r = [s EXCEPT !.request = "Requested", !.again = FALSE, !.asks = @ + 1]
  <2> DEFINE asks == s.asks + 1
  <2>1. asks \in Nat
    BY SMT DEF State
  <2>2. r = [s EXCEPT !.request = "Requested", !.again = FALSE, !.asks = asks]
    BY <1>1
  <2> HIDE DEF asks
  <2>3. r \in State
    BY <2>1, <2>2 DEF State
  <2> QED
    BY <2>2, <2>3 DEF State, Same
<1>2. CASE r = [s EXCEPT !.again = @ \/ (soon /\ s.request = "Requested")]
  <2> DEFINE again == s.again \/ (soon /\ s.request = "Requested")
  <2>1. again \in BOOLEAN
    OBVIOUS
  <2>2. r = [s EXCEPT !.again = again]
    BY <1>2
  <2> HIDE DEF again
  <2> QED
    BY SMT, <2>1, <2>2 DEF State, Same
<1> QED
  BY <1>1, <1>2 DEF maybe_request_remote_devices

(* A ring that is cancelled leaves nobody ringing. *)
LEMMA CancelEffect ==
  ASSUME NEW s \in State, Sound(s),
         NEW r, r = cancel_full_group_ring_if_needed(s)
  PROVE  /\ r \in State /\ ~r.alone
         /\ r.join = s.join /\ r.busy = s.busy
         /\ r.ends = s.ends /\ r.lateJoin = s.lateJoin /\ r.configured = s.configured
         /\ r.attempt = s.attempt /\ r.conn = s.conn
  BY DEF State, Sound, cancel_full_group_ring_if_needed

(* Leaving frees the busy flag and cancels the ring; the client keeps what *)
(* it knows of the call.                                                   *)
LEMMA LeaveEffect ==
  ASSUME NEW s \in State, Sound(s),
         NEW r, r = leave_inner(s)
  PROVE  /\ r \in State /\ Sound(r) /\ ~r.alone /\ r.join = "NotJoined"
         /\ r.attempt = s.attempt /\ r.ends = s.ends /\ r.conn = s.conn
         /\ r.configured = IF s.join = "NotJoined" THEN s.configured ELSE 0
<1> DEFINE c == cancel_full_group_ring_if_needed(s)
<1>1. /\ c \in State /\ ~c.alone
      /\ c.join = s.join /\ c.busy = s.busy
      /\ c.ends = s.ends /\ c.lateJoin = s.lateJoin /\ c.configured = s.configured
      /\ c.attempt = s.attempt /\ c.conn = s.conn
  BY CancelEffect
<1>2. r = IF s.join = "NotJoined" THEN c
          ELSE [c EXCEPT !.busy = "free", !.join = "NotJoined", !.configured = 0]
  BY DEF leave_inner
<1> HIDE DEF c
<1>3. CASE s.join = "NotJoined"
  BY <1>1, <1>2, <1>3 DEF Sound
<1>4. CASE s.join # "NotJoined"
  <2>1. r = [c EXCEPT !.busy = "free", !.join = "NotJoined", !.configured = 0]
    BY <1>2, <1>4
  <2>2. r \in State
    <3> c \in State
      BY <1>1
    <3> QED
      BY ONLY Zenon, <2>1, c \in State DEF State
  <2>3. /\ r.busy = "free" /\ r.join = "NotJoined" /\ r.configured = 0 /\ r.alone = c.alone
        /\ r.attempt = c.attempt /\ r.ends = c.ends /\ r.conn = c.conn
    BY SMT, <1>1, <2>1 DEF State
  <2> QED
    BY <1>1, <1>4, <2>2, <2>3 DEF Sound
<1> QED
  BY <1>3, <1>4

(* However a client ends, it has left; a delayed task is added only then. *)
LEMMA EndEffect ==
  ASSUME NEW s \in State, Sound(s),
         NEW r, r = end(s)
  PROVE  /\ r \in State /\ Sound(r) /\ ~r.alone /\ r.join = "NotJoined"
         /\ r.attempt = s.attempt
         /\ r.configured = IF s.join = "NotJoined" THEN s.configured ELSE 0
<1> DEFINE l == IF s.join = "NotJoined" THEN s ELSE leave_inner(s)
<1>1. /\ l \in State /\ Sound(l) /\ ~l.alone /\ l.join = "NotJoined"
      /\ l.attempt = s.attempt
      /\ l.configured = IF s.join = "NotJoined" THEN s.configured ELSE 0
  BY LeaveEffect DEF Sound, InCall, Statuses
<1>2. r = IF l.conn = "NotConnected" THEN l ELSE [l EXCEPT !.ends = @ + 1]
  BY DEF end
<1> HIDE DEF l
<1>3. CASE r = [l EXCEPT !.ends = @ + 1]
  <2> DEFINE ends == l.ends + 1
  <2>1. ends \in Nat
    BY SMT, <1>1 DEF State
  <2>2. r = [l EXCEPT !.ends = ends]
    BY <1>3
  <2> HIDE DEF ends
  <2> QED
    BY SMT, <1>1, <2>1, <2>2 DEF State, Sound
<1> QED
  BY <1>1, <1>2, <1>3

(* Devices in a peek end the waiting of a ring, and of a client that is    *)
(* pending and sees itself among them.                                     *)
LEMMA RemoteDevicesEffect ==
  ASSUME NEW s \in State, Sound(s), NEW peek \in Peeks,
         NEW r, r = RemoteDevicesUpdated(s, peek)
  PROVE  /\ r \in State /\ Sound(r) /\ (r.alone => s.alone)
         /\ r.attempt = s.attempt
         /\ \/ r.join = s.join /\ r.configured = s.configured
            \/ s.join = "Pending" /\ r.join = "Joined" /\ r.configured = s.configured + 1
<1> DEFINE new == peek \ {Local}
           u == [s EXCEPT !.remote = new]
           p == [u EXCEPT !.join = "Joined"]
           n == s.configured + 1
           j == IF s.join = "Pending" /\ Local \in peek THEN [p EXCEPT !.configured = n] ELSE u
<1>1. new \in SUBSET Devices /\ n \in Nat
  BY SMT DEF Peeks, State
<1>2. r = IF new = {} THEN j
          ELSE [j EXCEPT !.alone = FALSE,
                         !.ring = IF j.ring = "HasSent" THEN "NotPermitted" ELSE j.ring]
  <2>1. p.configured + 1 = n
    BY DEF State
  <2> QED
    BY <2>1 DEF RemoteDevicesUpdated, on_client_joined
<1> HIDE DEF new, n
<1>3. /\ u \in State /\ Sound(u) /\ u.alone = s.alone
      /\ u.attempt = s.attempt /\ u.join = s.join /\ u.configured = s.configured
  BY SMT, <1>1 DEF State, Sound, InCall
<1> HIDE DEF u
<1>4. ASSUME s.join = "Pending"
      PROVE  /\ p \in State /\ Sound(p) /\ p.alone = s.alone
             /\ p.attempt = s.attempt /\ p.join = "Joined"
  BY SMT, <1>3, <1>4 DEF State, Sound, InCall, Statuses
<1> HIDE DEF p
<1>5. /\ j \in State /\ Sound(j) /\ j.alone = s.alone /\ j.attempt = s.attempt
      /\ \/ j.join = s.join /\ j.configured = s.configured
         \/ s.join = "Pending" /\ j.join = "Joined" /\ j.configured = n
  <2>1. CASE s.join = "Pending" /\ Local \in peek
    BY SMT, <1>1, <1>4, <2>1 DEF State, Sound, InCall
  <2> QED
    BY <1>3, <2>1
<1> HIDE DEF j
<1>6. CASE r = [j EXCEPT !.alone = FALSE,
                         !.ring = IF j.ring = "HasSent" THEN "NotPermitted" ELSE j.ring]
  <2> DEFINE ring1 == IF j.ring = "HasSent" THEN "NotPermitted" ELSE j.ring
  <2>1. ring1 \in OutgoingRingState
    BY <1>5 DEF State, OutgoingRingState
  <2>2. r = [j EXCEPT !.alone = FALSE, !.ring = ring1]
    BY <1>6
  <2> HIDE DEF ring1
  <2>3. j \in State
    BY <1>5
  <2>4. r \in State
    BY <2>1, <2>2, <2>3, RingTyped
  <2>5. /\ ~r.alone /\ r.join = j.join /\ r.busy = j.busy /\ r.ends = j.ends
        /\ r.lateJoin = j.lateJoin /\ r.attempt = j.attempt /\ r.configured = j.configured
    BY <2>2, <2>3 DEF State
  <2> QED
    BY <1>5, <2>4, <2>5 DEF Sound, n
<1> QED
  BY <1>2, <1>5, <1>6 DEF n
(* A peek completes the join of a pending client, or ends the call if the  *)
(* peer connection refuses the devices, or leaves participation alone.     *)
LEMMA PeekEffect ==
  ASSUME NEW s \in State, Sound(s), NEW peek \in Peeks, NEW refused \in BOOLEAN,
         NEW r, r = set_peek_result_inner(s, peek, refused)
  PROVE  /\ r \in State /\ Sound(r) /\ (r.alone => s.alone)
         /\ r.attempt = s.attempt
         /\ \/ r.join = s.join /\ r.configured = s.configured
            \/ s.join = "Pending" /\ r.join = "Joined" /\ r.configured = s.configured + 1
            \/ InCall(s) /\ r.join = "NotJoined" /\ r.configured = 0
<1> DEFINE applies == InCall(s) /\ s.dhe = "Negotiated"
           v == [s EXCEPT !.request = "Updated", !.again = FALSE]
           w == [v EXCEPT !.remote = peek \ {Local}]
           u == IF applies THEN RemoteDevicesUpdated(v, peek) ELSE v
           k == [u EXCEPT !.lastPeek = peek]
<1>1. v \in State /\ Same(s, v)
  BY DEF State, Same
<1>2. \/ r = end(w) /\ InCall(s)
      \/ r = RequestSoon(k, FALSE)
      \/ r = k
  BY DEF set_peek_result_inner
<1> HIDE DEF v
<1>3. w \in State /\ Same(s, w)
  <2>1. peek \ {Local} \in SUBSET Devices
    BY DEF Peeks
  <2>2. PICK new : new = peek \ {Local}
    OBVIOUS
  <2>3. w = [v EXCEPT !.remote = new]
    BY <2>2
  <2> QED
    BY <1>1, <2>1, <2>2, <2>3 DEF State, Same
<1>4. Sound(v) /\ Sound(w)
  BY <1>1, <1>3 DEF Same, Sound, InCall
<1>5. /\ u \in State /\ Sound(u) /\ (u.alone => s.alone)
      /\ u.attempt = s.attempt
      /\ \/ u.join = s.join /\ u.configured = s.configured
         \/ s.join = "Pending" /\ u.join = "Joined" /\ u.configured = s.configured + 1
  <2>1. CASE applies
    BY SMT, <1>1, <1>4, <2>1, RemoteDevicesEffect DEF Same
  <2>2. CASE ~applies
    BY <1>1, <1>4, <2>2 DEF Same
  <2> QED
    BY <2>1, <2>2
<1> HIDE DEF u
<1>6. k \in State /\ Same(u, k)
  BY <1>5 DEF State, Same
<1>7. Sound(k)
  BY <1>5, <1>6 DEF Same, Sound, InCall
<1> HIDE DEF w, k
<1>8. CASE r = end(w) /\ InCall(s)
  BY <1>3, <1>4, <1>8, EndEffect DEF Same, InCall, Statuses
<1>9. CASE r = RequestSoon(k, FALSE)
  <2>1. r = maybe_request_remote_devices(k, TRUE, FALSE)
    BY <1>9 DEF RequestSoon
  <2>2. r \in State /\ Same(k, r)
    BY <1>6, <2>1, RequestEffect
  <2> QED
    BY SMT, <1>5, <1>6, <1>7, <2>2 DEF Same, Sound, InCall
<1>10. CASE r = k
  BY <1>5, <1>6, <1>7, <1>10 DEF Same
<1> QED
  BY <1>2, <1>8, <1>9, <1>10

(* Ringing needs a call the client is in and alone in for the ring to be   *)
(* one that somebody has to cancel.                                        *)
LEMMA RingEffect ==
  ASSUME NEW s \in State, Sound(s),
         NEW r, r = ring_inner(s)
  PROVE  /\ r \in State /\ Sound(r)
         /\ r.join = s.join /\ r.configured = s.configured /\ r.attempt = s.attempt
<1>1. CASE s.ring = "Permitted"
  <2> DEFINE to == IF s.remote = {} THEN "HasSent" ELSE "NotPermitted"
             rings == s.remote = {} /\ InCall(s)
  <2>1. to \in OutgoingRingState /\ (rings => to = "HasSent")
    BY DEF OutgoingRingState
  <2>2. r = [s EXCEPT !.ring = to, !.alone = rings]
    BY <1>1 DEF ring_inner
  <2>3. rings \in BOOLEAN /\ (rings => InCall(s))
    OBVIOUS
  <2> HIDE DEF to, rings
  <2>4. r = [s EXCEPT !.alone = rings, !.ring = to]
    BY <2>2 DEF State
  <2>5. r \in State
    <3>1. [s EXCEPT !.alone = rings, !.ring = to] \in State
      BY ONLY Zenon, <2>1, <2>3, s \in State, RingTyped
    <3> QED
      BY <2>4, <3>1
  <2>6. (r.alone => rings) /\ r.ring = to /\ r.join = s.join /\ r.busy = s.busy /\ r.ends = s.ends
        /\ r.lateJoin = s.lateJoin /\ r.attempt = s.attempt /\ r.configured = s.configured
    BY <2>4 DEF State
  <2> QED
    BY <2>1, <2>3, <2>5, <2>6 DEF Sound, InCall
<1>2. CASE s.ring = "Unknown"
  <2>1. r = [s EXCEPT !.ring = "Wants"]
    BY <1>2 DEF ring_inner
  <2>2. ~s.alone
    BY <1>2 DEF Sound
  <2> QED
    BY SMT, <2>1, <2>2 DEF State, Sound, OutgoingRingState
<1>3. CASE s.ring \notin {"Permitted", "Unknown"}
  BY <1>3 DEF ring_inner
<1> QED
  BY <1>1, <1>2, <1>3

(* Permission to ring is settled when a join completes, before which there *)
(* is no ring to be cancelled.                                             *)
LEMMA RingPermissionEffect ==
  ASSUME NEW s \in State, Sound(s), ~s.alone, NEW creator \in {"none", "self", "other"},
         NEW r, r = RingPermission(s, creator)
  PROVE  /\ r \in State /\ Sound(r)
         /\ r.join = s.join /\ r.configured = s.configured /\ r.attempt = s.attempt
<1> DEFINE to == IF creator = "self" THEN "Permitted" ELSE "NotPermitted"
           k == [s EXCEPT !.ring = to]
<1>1. r \in {s, k, ring_inner(k)}
  BY DEF RingPermission
<1>2. to \in OutgoingRingState
  BY DEF OutgoingRingState
<1> HIDE DEF to
<1>3. k \in State
  BY SMT, <1>2 DEF State, OutgoingRingState
<1>4. ~k.alone /\ k.join = s.join /\ k.busy = s.busy /\ k.ends = s.ends
      /\ k.lateJoin = s.lateJoin /\ k.attempt = s.attempt /\ k.configured = s.configured
  BY DEF State
<1>5. Sound(k)
  BY <1>4 DEF Sound
<1> HIDE DEF k
<1>6. CASE r = ring_inner(k)
  BY <1>3, <1>4, <1>5, <1>6, RingEffect
<1> QED
  BY <1>1, <1>3, <1>4, <1>5, <1>6
(* A join is completed once: by the answer that says so, or by the devices *)
(* known from before if the answer says that the client is pending.        *)
LEMMA JoinCompletesEffect ==
  ASSUME NEW s \in State, Sound(s), Configured(s), s.join = "Joining",
         NEW status \in Statuses, NEW creator \in {"none", "self", "other"},
         NEW late \in BOOLEAN, NEW refused \in BOOLEAN,
         NEW r, r = JoinCompletes(s, status, creator, late, refused)
  PROVE  r \in State /\ Sound(r) /\ Configured(r) /\ r.attempt = s.attempt
<1> DEFINE a == RequestSoon(s, late)
           q == [a EXCEPT !.join = status]
           p == IF s.lastPeek = NoPeek THEN q ELSE set_peek_result_inner(q, s.lastPeek, refused)
           j == IF status = "Joined" /\ p.join = "Joined" THEN on_client_joined(p) ELSE p
<1>1. r = RingPermission(j, creator)
  BY DEF JoinCompletes
<1>2. a \in State /\ Same(s, a)
  BY RequestEffect DEF RequestSoon
<1> HIDE DEF a
<1>3. /\ q \in State /\ q.join = status /\ ~q.alone /\ q.configured = 0
      /\ q.busy = "mine" /\ q.attempt = s.attempt /\ q.ends = s.ends /\ q.lateJoin = s.lateJoin
  <2>1. status \in {"NotJoined", "Joining"} \cup Statuses
    OBVIOUS
  <2>2. q \in State
    BY <1>2, <2>1 DEF State
  <2>3. q.join = status /\ q.alone = a.alone /\ q.configured = a.configured
        /\ q.busy = a.busy /\ q.attempt = a.attempt /\ q.ends = a.ends /\ q.lateJoin = a.lateJoin
    BY <1>2, <2>1 DEF State
  <2> QED
    BY <1>2, <2>2, <2>3 DEF Same, Sound, Configured, InCall, Statuses
<1>4. Sound(q)
  BY <1>3 DEF Sound, Statuses
<1> HIDE DEF q
<1>5. /\ p \in State /\ Sound(p) /\ ~p.alone /\ p.attempt = s.attempt
      /\ \/ p.join = status /\ p.configured = 0
         \/ status = "Pending" /\ p.join = "Joined" /\ p.configured = 1
         \/ p.join = "NotJoined" /\ p.configured = 0
  <2>1. CASE s.lastPeek = NoPeek
    BY <1>3, <1>4, <2>1
  <2>2. CASE s.lastPeek # NoPeek
    <3>1. s.lastPeek \in Peeks
      BY <2>2 DEF State
    <3>2. p = set_peek_result_inner(q, s.lastPeek, refused)
      BY <2>2
    <3> HIDE DEF p
    <3> QED
      BY SMT, <1>3, <1>4, <3>1, <3>2, PeekEffect
  <2> QED
    BY <2>1, <2>2
<1> HIDE DEF p
<1>6. j \in State /\ Sound(j) /\ Configured(j) /\ ~j.alone /\ j.attempt = s.attempt
  <2>1. CASE status = "Joined" /\ p.join = "Joined"
    <3> DEFINE n == p.configured + 1
    <3>1. n = 1
      BY SMT, <1>5, <2>1
    <3>2. j = [p EXCEPT !.configured = n]
      BY <2>1 DEF on_client_joined
    <3> HIDE DEF n, j
    <3>3. j = [p EXCEPT !.configured = 1]
      BY <3>1, <3>2
    <3>4. j \in State
      BY SMT, <1>5, <3>3 DEF State
    <3>5. j.configured = 1 /\ j.join = p.join /\ j.alone = p.alone /\ j.busy = p.busy
          /\ j.ring = p.ring /\ j.ends = p.ends /\ j.lateJoin = p.lateJoin /\ j.attempt = p.attempt
      BY <1>5, <3>3 DEF State
    <3> QED
      BY <1>5, <2>1, <3>4, <3>5 DEF Sound, Configured, InCall
  <2>2. CASE ~(status = "Joined" /\ p.join = "Joined")
    BY <1>5, <2>2 DEF Configured, Statuses
  <2> QED
    BY <2>1, <2>2
<1> HIDE DEF j
<1> QED
  BY SMT, <1>1, <1>6, RingPermissionEffect DEF Configured

(* What a handler that starts in s has to see to. *)
Kept(s, r) == r \in State /\ Sound(r) /\ Configured(r) /\ r.attempt = s.attempt

(* The answer to a join request, whatever the client did since it asked. *)
LEMMA JoinSuccessEffect ==
  ASSUME NEW s \in State, Sound(s), Configured(s),
         NEW status \in Statuses, NEW creator \in {"none", "self", "other"},
         NEW late \in BOOLEAN, NEW fails \in {"no", "keys", "start"}, NEW refused \in BOOLEAN,
         NEW r, r = on_sfu_client_join_success(s, status, creator, late, fails, refused)
  PROVE  Kept(s, r)
<1> DEFINE connects == s.conn = "Connecting"
           n == CASE ~connects \/ s.dhe # "Waiting" -> s
                  [] fails = "keys" -> [s EXCEPT !.dhe = "Failed"]
                  [] OTHER -> [s EXCEPT !.dhe = "Negotiated"]
           t == [n EXCEPT !.sfuInfo = @ \/ connects]
<1>1. \/ r = end(n)
      \/ r = JoinCompletes(t, status, creator, late, refused) /\ s.join = "Joining"
      \/ r = t
  BY SMT DEF on_sfu_client_join_success
<1>2. n \in State /\ Same(s, n)
  <2>1. n \in {s, [s EXCEPT !.dhe = "Failed"], [s EXCEPT !.dhe = "Negotiated"]}
    OBVIOUS
  <2> HIDE DEF n
  <2> QED
    BY SMT, <2>1 DEF State, Same
<1> HIDE DEF n
<1>3. t \in State /\ Same(s, t)
  <2> DEFINE info == n.sfuInfo \/ connects
  <2>1. t = [n EXCEPT !.sfuInfo = TRUE] \/ t = [n EXCEPT !.sfuInfo = FALSE]
    <3>1. t = [n EXCEPT !.sfuInfo = info]
      OBVIOUS
    <3>2. CASE info
      BY <3>1, <3>2 DEF State
    <3>3. CASE ~info
      BY <3>1, <3>3 DEF State
    <3> QED
      BY <3>2, <3>3
  <2> HIDE DEF t
  <2>2. t \in State /\ Same(n, t)
    <3>1. CASE t = [n EXCEPT !.sfuInfo = TRUE]
      BY <1>2, <3>1 DEF State, Same
    <3>2. CASE t = [n EXCEPT !.sfuInfo = FALSE]
      <4>1. t \in State
        BY <1>2, <3>2 DEF State
      <4> QED
        BY <1>2, <3>2, <4>1 DEF State, Same
    <3> QED
      BY <2>1, <3>1, <3>2
  <2> QED
    BY <1>2, <2>2 DEF Same
<1> HIDE DEF t
<1>4. Sound(n) /\ Sound(t) /\ Configured(t) /\ Configured(n)
  BY <1>2, <1>3 DEF Same, Sound, Configured, InCall
<1>5. CASE r = end(n)
  BY <1>2, <1>4, <1>5, EndEffect DEF Kept, Same, Configured
<1>6. CASE r = JoinCompletes(t, status, creator, late, refused) /\ s.join = "Joining"
  BY SMT, <1>3, <1>4, <1>6, JoinCompletesEffect DEF Kept, Same
<1>7. CASE r = t
  BY <1>3, <1>4, <1>7 DEF Kept, Same
<1> QED
  BY <1>1, <1>5, <1>6, <1>7

-----------------------------------------------------------------------------

(* The types of everything but the client's own state. *)
Outside ==
  /\ auth \in BOOLEAN /\ deferred \in BOOLEAN /\ pending \in BOOLEAN
  /\ sfu \in Peeks /\ peekAnswers \subseteq Peeks /\ joinAnswers \subseteq Statuses
  /\ joins \in 0..MaxJoins /\ inputs \in 0..MaxInputs

Requests == joins + (IF deferred THEN 1 ELSE 0)

(* A deferred join request counts as one. *)
LEMMA RequestsTyped ==
  ASSUME NEW j \in Nat, NEW d \in BOOLEAN
  PROVE  /\ j + (IF d THEN 1 ELSE 0) \in Nat
         /\ j <= j + (IF d THEN 1 ELSE 0) /\ j + (IF d THEN 1 ELSE 0) <= j + 1
<1>1. CASE d
  BY SMT, <1>1
<1>2. CASE ~d
  BY SMT, <1>2
<1> QED
  BY <1>1, <1>2

(* A step of the running actor keeps the invariant if it keeps what is     *)
(* said of the client's state and sends no join request.                   *)
LEMMA HandlerKeeps ==
  ASSUME Inv, NEW r, r \in State, Sound(r), Configured(r), r.attempt = state.attempt,
         Runs(r), told' = told, Outside', Requests' <= Requests
  PROVE  Inv'
<1>1. state' = r /\ ~stopped /\ stopped' = stopped
  BY DEF Runs
<1>2. TypeOK'
  BY <1>1 DEF Inv, TypeOK, Outside
<1>3. Sound(state)' /\ Configured(state)'
  BY <1>1 DEF Sound, Configured, InCall
<1>4. (joins + (IF deferred THEN 1 ELSE 0) <= state.attempt)'
  <2>1. Requests \in Nat /\ Requests' \in Nat /\ state.attempt \in Nat
    <3>1. joins \in Nat /\ joins' \in Nat /\ deferred \in BOOLEAN /\ deferred' \in BOOLEAN
      BY SMT, GroupCallAssumption DEF Outside, Inv, TypeOK
    <3>2. state.attempt \in Nat
      BY SMT, GroupCallAssumption DEF Inv, TypeOK, State
    <3> QED
      BY <3>1, <3>2, RequestsTyped DEF Requests
  <2>2. Requests <= state.attempt
    BY DEF Inv, Requests
  <2>3. Requests' <= state'.attempt
    BY SMT, <1>1, <2>1, <2>2
  <2> QED
    BY <2>3 DEF Requests
<1>5. told' = (IF stopped THEN 1 ELSE 0)'
  BY <1>1 DEF Inv
<1> QED
  BY <1>1, <1>2, <1>3, <1>4, <1>5 DEF Inv

(* The invariant holds at the start, and every step keeps it. *)
THEOREM Invariance == Spec => []Inv
<1>1. Init => Inv
  <2> SUFFICES ASSUME Init PROVE Inv
    OBVIOUS
  <2>1. state \in State
    BY SMT, GroupCallAssumption DEF Init, State, OutgoingRingState
  <2>2. TypeOK
    <3>1. sfu \in Peeks
      BY DEF Init, Peeks
    <3>2. joins \in 0..MaxJoins /\ told \in Nat /\ inputs \in 0..MaxInputs
      BY SMT, GroupCallAssumption DEF Init
    <3> QED
      BY <2>1, <3>1, <3>2 DEF Init, TypeOK
  <2> QED
    BY SMT, <2>2 DEF Init, Inv, Sound, Configured
<1>2. Inv /\ [Next]_vars => Inv'
  <2> SUFFICES ASSUME Inv, [Next]_vars PROVE Inv'
    OBVIOUS
  <2> USE GroupCallAssumption
  <2>0. /\ state \in State /\ Sound(state) /\ Configured(state) /\ Outside
        /\ Requests \in Nat /\ joins \in Nat /\ inputs \in Nat
    BY SMT DEF Inv, TypeOK, Outside, Requests
  <2>a. ASSUME UNCHANGED external, Input \/ NoInput
        PROVE  Outside' /\ Requests' <= Requests
    BY SMT, <2>0, <2>a DEF external, Outside, Requests, Input, NoInput
  <2>1. CASE connect
    <3>1. PICK late \in BOOLEAN :
            Runs(maybe_request_remote_devices(
                   [state EXCEPT !.conn = "Connecting", !.ticking = TRUE], FALSE, late))
      BY <2>1 DEF connect
    <3> DEFINE c == [state EXCEPT !.conn = "Connecting", !.ticking = TRUE]
               r == maybe_request_remote_devices(c, FALSE, late)
    <3>2. c \in State /\ Same(state, c)
      BY <2>0 DEF State, Same
    <3> HIDE DEF c
    <3>3. r \in State /\ Same(c, r)
      BY <3>2, RequestEffect
    <3> HIDE DEF r
    <3>4. Sound(r) /\ Configured(r) /\ r.attempt = state.attempt
      BY <2>0, <3>2, <3>3 DEF Same, Sound, Configured, InCall
    <3>5. Runs(r)
      BY <3>1 DEF c, r
    <3> QED
      BY <2>1, <2>a, <3>3, <3>4, <3>5, HandlerKeeps DEF connect
  <2>2. CASE join
    <3>1. CASE state.busy = "free" /\ JoinSent
      <4> DEFINE n == state.attempt + 1
                 late == state.lateJoin \/ state.ends > 0
      <4>1. n \in 0..MaxJoins /\ state.attempt \in Nat
        BY SMT, <2>0, <3>1 DEF JoinSent, State
      <4>2. state' = [state EXCEPT !.busy = "mine", !.join = "Joining", !.dhe = "Waiting",
                                   !.attempt = n, !.lateJoin = late]
        BY <3>1 DEF JoinSent, Runs
      <4> HIDE DEF n
      <4>3. /\ state' \in State
            /\ state'.join = "Joining" /\ state'.busy = "mine" /\ state'.attempt = n
            /\ state'.alone = state.alone /\ state'.ring = state.ring
            /\ state'.ends = state.ends /\ state'.configured = state.configured
            /\ (state'.ends > 0 => state'.lateJoin)
        <5>1. CASE late
          <6>1. state' = [state EXCEPT !.busy = "mine", !.join = "Joining", !.dhe = "Waiting",
                                       !.attempt = n, !.lateJoin = TRUE]
            BY <4>2, <5>1 DEF State
          <6>2. state' \in State
            BY <2>0, <4>1, <6>1 DEF State
          <6> QED
            BY SMT, <2>0, <4>1, <6>1, <6>2 DEF State
        <5>2. CASE ~late
          <6>1. state' = [state EXCEPT !.busy = "mine", !.join = "Joining", !.dhe = "Waiting",
                                       !.attempt = n, !.lateJoin = FALSE]
            BY <4>2, <5>2 DEF State
          <6>2. state' \in State
            BY <2>0, <4>1, <6>1 DEF State
          <6> QED
            BY SMT, <2>0, <4>1, <5>2, <6>1, <6>2 DEF State
        <5> QED
          BY <5>1, <5>2
      <4> HIDE DEF late
      <4>4. ~stopped /\ stopped' = stopped /\ told' = told /\ inputs' = inputs
        BY <2>2, <3>1 DEF join, JoinSent, Runs, NoInput
      <4>5. Sound(state)' /\ Configured(state)'
        <5>1. state.join = "NotJoined"
          BY <2>2 DEF join
        <5> QED
          BY <2>0, <4>3, <5>1 DEF Sound, Configured, InCall, Statuses
      <4>6. joins' \in Nat /\ deferred' \in BOOLEAN /\ Requests' <= n
        <5>1. Requests <= state.attempt
          BY DEF Inv, Requests
        <5>2. \/ auth /\ joins' = joins + 1 /\ deferred' = deferred
              \/ deferred' = TRUE /\ joins' = joins
          BY <3>1 DEF JoinSent
        <5>3. deferred \in BOOLEAN
          BY <2>0 DEF Outside
        <5>4. CASE joins' = joins + 1 /\ deferred' = deferred
          <6>1. joins' \in Nat /\ Requests' = Requests + 1
            BY SMT, <2>0, <5>3, <5>4 DEF Requests
          <6> QED
            BY SMT, <2>0, <4>1, <5>1, <5>3, <5>4, <6>1 DEF n
        <5>5. CASE deferred' = TRUE /\ joins' = joins
          <6>1. Requests' = joins + 1 /\ joins <= Requests
            BY <2>0, <5>3, <5>5, RequestsTyped DEF Requests
          <6> QED
            BY SMT, <2>0, <4>1, <5>1, <5>5, <6>1 DEF n
        <5> QED
          BY <5>2, <5>4, <5>5
      <4>7. joins' \in 0..MaxJoins
        <5>1. joins' <= Requests' /\ Requests' \in Nat
          BY <4>6, RequestsTyped DEF Requests
        <5> QED
          BY SMT, <4>1, <4>6, <5>1
      <4>8. TypeOK'
        BY <2>0, <2>2, <4>3, <4>4, <4>6, <4>7 DEF join, Inv, TypeOK
      <4> QED
        BY <4>3, <4>4, <4>5, <4>6, <4>8 DEF Inv, Requests
    <3>2. CASE Input /\ Runs(end(state)) /\ UNCHANGED <<joins, deferred>>
      <4>1. PICK r : r = end(state)
        OBVIOUS
      <4>2. r \in State /\ Sound(r) /\ Configured(r) /\ r.attempt = state.attempt
        BY <2>0, <4>1, EndEffect DEF Configured
      <4>3. UNCHANGED external
        BY <2>2, <3>2 DEF join, external
      <4> QED
        BY <2>2, <2>a, <3>2, <4>1, <4>2, <4>3, HandlerKeeps DEF join
    <3> QED
      BY <2>2, <3>1, <3>2 DEF join
  <2>3. CASE leave
    <3>1. PICK r : r = leave_inner(state)
      OBVIOUS
    <3>2. r \in State /\ Sound(r) /\ Configured(r) /\ r.attempt = state.attempt
      BY <2>0, <3>1, LeaveEffect DEF Configured
    <3> QED
      BY <2>3, <2>a, <3>1, <3>2, HandlerKeeps DEF leave
  <2>4. ASSUME Runs(end(state)), Input, UNCHANGED told, Outside', Requests' <= Requests
        PROVE  Inv'
    <3>1. PICK r : r = end(state)
      OBVIOUS
    <3>2. r \in State /\ Sound(r) /\ Configured(r) /\ r.attempt = state.attempt
      BY <2>0, <3>1, EndEffect DEF Configured
    <3> QED
      BY <2>4, <3>1, <3>2, HandlerKeeps
  <2>5. CASE disconnect
    BY <2>4, <2>5, <2>a DEF disconnect
  <2>6. CASE ring
    <3>1. PICK r : r = ring_inner(state)
      OBVIOUS
    <3>2. r \in State /\ Sound(r) /\ Configured(r) /\ r.attempt = state.attempt
      BY <2>0, <3>1, RingEffect DEF Configured
    <3> QED
      BY <2>6, <2>a, <3>1, <3>2, HandlerKeeps DEF ring
  <2>b. ASSUME NEW s \in State, Same(state, s), NEW soon \in BOOLEAN, NEW late \in BOOLEAN,
               Runs(maybe_request_remote_devices(s, soon, late)),
               UNCHANGED told, Outside', Requests' <= Requests
        PROVE  Inv'
    <3>1. PICK r : r = maybe_request_remote_devices(s, soon, late)
      OBVIOUS
    <3>2. r \in State /\ Same(s, r)
      BY <3>1, RequestEffect
    <3>3. Sound(r) /\ Configured(r) /\ r.attempt = state.attempt
      BY <2>0, <2>b, <3>2 DEF Same, Sound, Configured, InCall
    <3> QED
      BY <2>b, <3>1, <3>2, <3>3, HandlerKeeps
  <2>7. CASE set_membership_proof
    <3>1. Outside' /\ Requests' <= Requests /\ UNCHANGED told
      <4>1. deferred \in BOOLEAN /\ joins \in Nat /\ joins' = Requests /\ Requests' = Requests
        BY SMT, <2>0, <2>7 DEF set_membership_proof, Outside, Requests
      <4>2. joins' \in 0..MaxJoins
        <5>1. Requests <= state.attempt /\ state.attempt \in 0..MaxJoins
          BY <2>0 DEF Inv, Requests, State
        <5> QED
          BY SMT, <2>0, <4>1, <5>1
      <4>3. Requests' <= Requests
        BY SMT, <2>0, <4>1
      <4>4. auth' = TRUE /\ deferred' = FALSE /\ inputs' = inputs /\ told' = told
            /\ UNCHANGED <<sfu, pending, joinAnswers, peekAnswers>>
        BY <2>7 DEF set_membership_proof, NoInput
      <4> QED
        BY <2>0, <4>2, <4>3, <4>4 DEF Outside
    <3>2. CASE state.request = "WaitingForMembershipProof"
      <4>1. PICK s : s = [state EXCEPT !.request = "NeverRequested"]
        OBVIOUS
      <4>2. s \in State /\ Same(state, s)
        BY SMT, <2>0, <4>1 DEF State, Same
      <4>3. Runs(maybe_request_remote_devices(s, TRUE, FALSE))
        BY <2>7, <3>2, <4>1 DEF set_membership_proof, RequestSoon
      <4> QED
        BY <2>b, <3>1, <4>2, <4>3
    <3>3. CASE state.request # "WaitingForMembershipProof"
      <4>1. Runs(state)
        BY <2>7, <3>3 DEF set_membership_proof
      <4> QED
        BY <2>0, <3>1, <4>1, HandlerKeeps
    <3> QED
      BY <3>2, <3>3
  <2>c. Same(state, state)
    BY DEF Same
  <2>8. CASE DevicesMayHaveChanged
    <3>1. PICK late \in BOOLEAN : Runs(maybe_request_remote_devices(state, TRUE, late))
      BY <2>8 DEF DevicesMayHaveChanged, RequestSoon
    <3> QED
      BY <2>0, <2>8, <2>a, <2>b, <2>c, <3>1 DEF DevicesMayHaveChanged
  <2>9. ASSUME NEW late \in BOOLEAN, tick(late)
        PROVE  Inv'
    BY <2>0, <2>9, <2>a, <2>b, <2>c DEF tick
  <2>d. ASSUME Runs(state), UNCHANGED told, Outside', Requests' <= Requests
        PROVE  Inv'
    BY <2>0, <2>d, HandlerKeeps
  <2>10. ASSUME NEW d \in Devices, DeviceJoins(d) \/ DeviceLeaves(d)
         PROVE  Inv'
    <3>1. Runs(state) /\ UNCHANGED told /\ Requests' = Requests
      BY SMT, <2>10 DEF DeviceJoins, DeviceLeaves, Input, Runs, Requests
    <3>2. Outside'
      BY SMT, <2>0, <2>10 DEF DeviceJoins, DeviceLeaves, Input, Outside, Peeks
    <3> QED
      BY SMT, <2>0, <2>d, <3>1, <3>2
  <2>11. ASSUME NEW ice, handle_ice_connection_state_changed(ice)
         PROVE  Inv'
    <3>1. UNCHANGED told /\ Outside' /\ Requests' <= Requests /\ Input
      BY <2>11, <2>a DEF handle_ice_connection_state_changed
    <3>2. PICK r : /\ Runs(r)
                   /\ r \in {end(state), [state EXCEPT !.conn = "Connected"],
                             [state EXCEPT !.conn = "Reconnecting"], state}
      BY <2>11 DEF handle_ice_connection_state_changed
    <3>3. CASE r = end(state)
      BY <2>4, <3>1, <3>2, <3>3
    <3>4. CASE r = [state EXCEPT !.conn = "Connected"] \/ r = [state EXCEPT !.conn = "Reconnecting"]
      <4>1. r \in State /\ Same(state, r)
        BY SMT, <2>0, <3>4 DEF State, Same
      <4>2. Sound(r) /\ Configured(r) /\ r.attempt = state.attempt
        BY <2>0, <4>1 DEF Same, Sound, Configured, InCall
      <4> QED
        BY <3>1, <3>2, <4>1, <4>2, HandlerKeeps
    <3>5. CASE r = state
      BY <2>d, <3>1, <3>2, <3>5
    <3> QED
      BY <3>2, <3>3, <3>4, <3>5
  <2>12. ASSUME NEW peek \in Peeks, PeekSucceeds(peek)
         PROVE  Inv'
    <3>1. UNCHANGED told /\ Requests' <= Requests
      <4>1. UNCHANGED <<told, deferred, joins>>
        BY <2>12 DEF PeekSucceeds
      <4>2. Requests' = Requests
        BY <4>1 DEF Requests
      <4> QED
        BY SMT, <2>0, <4>1, <4>2
    <3>a. Outside'
      <4>1. inputs' \in 0..MaxInputs
        <5>1. Input \/ NoInput
          BY <2>12 DEF PeekSucceeds
        <5> QED
          BY SMT, <2>0, <5>1 DEF Input, NoInput, Outside
      <4>2. peekAnswers' \subseteq Peeks
        BY <2>0, <2>12 DEF PeekSucceeds, Outside
      <4>3. UNCHANGED <<sfu, auth, deferred, joins, pending, joinAnswers>>
        BY <2>12 DEF PeekSucceeds
      <4> QED
        BY <2>0, <4>1, <4>2, <4>3 DEF Outside
    <3>b. PICK refused \in BOOLEAN : Runs(set_peek_result_inner(state, peek, refused))
      BY <2>12 DEF PeekSucceeds
    <3>2. PICK r : r = set_peek_result_inner(state, peek, refused) /\ Runs(r)
      BY <3>b
    <3>3. r \in State /\ Sound(r) /\ r.attempt = state.attempt
      BY SMT, <2>0, <3>2, PeekEffect
    <3>4. \/ r.join = state.join /\ r.configured = state.configured
          \/ state.join = "Pending" /\ r.join = "Joined" /\ r.configured = state.configured + 1
          \/ r.join = "NotJoined" /\ r.configured = 0
      BY SMT, <2>0, <3>2, PeekEffect
    <3>5. Configured(r)
      BY SMT, <2>0, <3>4 DEF Configured
    <3> QED
      BY <3>1, <3>a, <3>2, <3>3, <3>5, HandlerKeeps
  <2>13. ASSUME NEW status \in Statuses, NEW creator \in Creators, JoinSucceeds(status, creator)
         PROVE  Inv'
    <3>1. UNCHANGED told /\ Requests' <= Requests
      <4>1. UNCHANGED <<told, deferred, joins>>
        BY <2>13 DEF JoinSucceeds
      <4>2. Requests' = Requests
        BY <4>1 DEF Requests
      <4> QED
        BY SMT, <2>0, <4>1, <4>2
    <3>a. Outside'
      <4>1. inputs' \in 0..MaxInputs
        <5>1. Input \/ NoInput
          BY <2>13 DEF JoinSucceeds
        <5> QED
          BY SMT, <2>0, <5>1 DEF Input, NoInput, Outside
      <4>2. joinAnswers' \subseteq Statuses
        BY <2>0, <2>13 DEF JoinSucceeds, Outside
      <4>3. UNCHANGED <<sfu, auth, deferred, joins, pending, peekAnswers>>
        BY <2>13 DEF JoinSucceeds
      <4> QED
        BY <2>0, <4>1, <4>2, <4>3 DEF Outside
    <3>b. PICK late \in BOOLEAN, fails \in {"no", "keys", "start"}, refused \in BOOLEAN :
            Runs(on_sfu_client_join_success(state, status, creator, late, fails, refused))
      <4>1. PICK late \in BOOLEAN :
              \/ Runs(on_sfu_client_join_success(state, status, creator, late, "no", FALSE))
              \/ \E fails \in {"no", "keys", "start"} :
                   Runs(on_sfu_client_join_success(state, status, creator, late, fails, TRUE))
        BY <2>13 DEF JoinSucceeds
      <4>2. CASE Runs(on_sfu_client_join_success(state, status, creator, late, "no", FALSE))
        BY <4>2
      <4>3. CASE \E fails \in {"no", "keys", "start"} :
                   Runs(on_sfu_client_join_success(state, status, creator, late, fails, TRUE))
        BY <4>3
      <4> QED
        BY <4>1, <4>2, <4>3
    <3>2. PICK r : /\ r = on_sfu_client_join_success(state, status, creator, late, fails, refused)
                   /\ Runs(r)
      BY <3>b
    <3>3. creator \in {"none", "self", "other"}
      BY GroupCallAssumption
    <3>4. Kept(state, r)
      BY <2>0, <3>2, <3>3, JoinSuccessEffect, Zenon
    <3> QED
      BY <3>1, <3>a, <3>2, <3>4, HandlerKeeps DEF Kept
  <2>14. CASE PeekFails
    <3>1. UNCHANGED told /\ Outside' /\ Requests' <= Requests
      BY <2>14, <2>a DEF PeekFails
    <3>2. state.asks \in Nat /\ state.asks > 0
      BY <2>0, <2>14 DEF PeekFails, State
    <3>3. PICK n \in Nat : n = state.asks - 1
      BY SMT, <3>2
    <3>4. PICK r : r = [state EXCEPT !.request = "Failed", !.again = FALSE, !.asks = n] /\ Runs(r)
      BY <2>14, <3>3 DEF PeekFails
    <3>5. r \in State /\ Same(state, r)
      BY <2>0, <3>4 DEF State, Same
    <3>6. Sound(r) /\ Configured(r) /\ r.attempt = state.attempt
      BY <2>0, <3>5 DEF Same, Sound, Configured, InCall
    <3> QED
      BY <3>1, <3>4, <3>5, <3>6, HandlerKeeps
  <2>15. CASE on_sfu_client_join_failure
    <3>1. /\ Runs(end(state)) /\ Input /\ UNCHANGED told
          /\ joins' = joins - 1 /\ joins > 0 /\ deferred' = deferred
      BY <2>15 DEF on_sfu_client_join_failure
    <3>2. Outside'
      BY SMT, <2>0, <2>15, GroupCallAssumption DEF on_sfu_client_join_failure, Input, Outside
    <3>3. Requests' <= Requests
      BY SMT, <2>0, <3>1 DEF Requests, Outside
    <3> QED
      BY <2>4, <3>1, <3>2, <3>3
  <2>16. CASE EndTask
    <3>1. state.ends \in Nat /\ state.ends > 0 /\ ~stopped
      BY <2>0, <2>16 DEF EndTask, State
    <3>2. PICK n \in Nat : n = state.ends - 1
      BY SMT, <3>1
    <3>3. state' = [state EXCEPT !.conn = "NotConnected", !.ends = n]
      BY <2>16, <3>2 DEF EndTask
    <3>4. state' \in State
      BY <2>0, <3>3 DEF State
    <3>5. /\ state'.join = state.join /\ state'.busy = state.busy /\ state'.alone = state.alone
          /\ state'.configured = state.configured /\ state'.attempt = state.attempt
          /\ state'.lateJoin = state.lateJoin /\ state'.ends = n
          /\ state'.ring = state.ring
      BY <2>0, <3>3 DEF State
    <3>6. Sound(state)' /\ Configured(state)'
      BY <2>0, <3>1, <3>5 DEF Sound, Configured, InCall
    <3>7. ~state'.lateJoin => state'.join = "NotJoined"
      BY <2>0, <3>1, <3>5 DEF Sound
    <3>8. Outside' /\ UNCHANGED <<joins, deferred>>
      BY <2>0, <2>16 DEF EndTask, Outside, external, NoInput
    <3>9. told = 0 /\ told' = told + 1 /\ stopped' = TRUE
      BY <2>16, <3>1 DEF EndTask, Inv
    <3>10. TypeOK'
      BY SMT, <3>4, <3>8, <3>9 DEF TypeOK, Outside
    <3>11. (joins + (IF deferred THEN 1 ELSE 0) <= state.attempt)'
      BY <3>5, <3>8 DEF Inv
    <3> QED
      BY SMT, <3>6, <3>7, <3>9, <3>10, <3>11 DEF Inv
  <2>17. CASE SfuAnswersJoin
    <3>1. Runs(state) /\ UNCHANGED told /\ joins' = joins - 1 /\ joins > 0 /\ deferred' = deferred
      BY <2>17 DEF SfuAnswersJoin, NoInput, Runs
    <3>2. PICK status \in Statuses :
            /\ joinAnswers' = joinAnswers \cup {status}
            /\ pending' = (status = "Pending")
            /\ sfu' = IF status = "Joined" THEN sfu \cup {Local} ELSE sfu \ {Local}
      BY <2>17 DEF SfuAnswersJoin
    <3>3. sfu' \in Peeks
      BY <2>0, <3>2 DEF Outside, Peeks
    <3>4. Outside'
      BY SMT, <2>0, <2>17, <3>1, <3>2, <3>3, GroupCallAssumption DEF SfuAnswersJoin, NoInput, Outside
    <3>5. Requests' <= Requests
      BY SMT, <2>0, <3>1 DEF Requests, Outside
    <3> QED
      BY <2>d, <3>1, <3>4, <3>5
  <2>18. CASE SfuAdmits \/ SfuDrops \/ SfuTellsDevices
    <3>1. Runs(state) /\ UNCHANGED <<told, joins, deferred>>
      BY <2>18 DEF SfuAdmits, SfuDrops, SfuTellsDevices, Input, NoInput, Runs
    <3>2. Outside'
      <4>1. sfu' \in Peeks
        BY <2>0, <2>18 DEF SfuAdmits, SfuDrops, SfuTellsDevices, Outside, Peeks
      <4>2. inputs' \in 0..MaxInputs
        BY SMT, <2>0, <2>18 DEF SfuAdmits, SfuDrops, SfuTellsDevices, Input, NoInput, Outside
      <4>3. peekAnswers' \subseteq Peeks
        BY <2>0, <2>18 DEF SfuAdmits, SfuDrops, SfuTellsDevices, Outside
      <4>4. pending' \in BOOLEAN /\ UNCHANGED <<auth, joinAnswers>>
        BY <2>0, <2>18 DEF SfuAdmits, SfuDrops, SfuTellsDevices, Outside
      <4> QED
        BY <2>0, <3>1, <4>1, <4>2, <4>3, <4>4 DEF Outside
    <3>3. Requests' = Requests
      BY <3>1 DEF Requests
    <3> QED
      BY SMT, <2>0, <2>d, <3>1, <3>2, <3>3
  <2>19. CASE SfuAnswersPeek
    <3>1. ~stopped /\ UNCHANGED <<stopped, told, joins, deferred>>
      BY <2>19 DEF SfuAnswersPeek, NoInput
    <3>2. Outside' /\ Requests' <= Requests
      <4>1. Outside'
        BY <2>0, <2>19 DEF SfuAnswersPeek, NoInput, Outside
      <4>2. Requests' = Requests
        BY <3>1 DEF Requests
      <4> QED
        BY SMT, <2>0, <4>1, <4>2
    <3>3. state.asks \in Nat /\ state.asks > 0
      BY <2>0, <2>19 DEF SfuAnswersPeek, State
    <3>4. PICK n \in Nat : n = state.asks - 1
      BY SMT, <3>3
    <3>5. PICK r : r = [state EXCEPT !.asks = n] /\ Runs(r)
      BY <2>19, <3>1, <3>4 DEF SfuAnswersPeek, Runs
    <3>6. r \in State /\ Same(state, r)
      BY <2>0, <3>5 DEF State, Same
    <3>7. Sound(r) /\ Configured(r) /\ r.attempt = state.attempt
      BY <2>0, <3>6 DEF Same, Sound, Configured, InCall
    <3> QED
      BY <3>1, <3>2, <3>5, <3>6, <3>7, HandlerKeeps
  <2>20. CASE OtherCallStarts \/ OtherCallEnds
    <3>1. UNCHANGED told /\ (Input \/ NoInput) /\ UNCHANGED external
      BY <2>20 DEF OtherCallStarts, OtherCallEnds
    <3>2. PICK b \in {"free", "other"} : state.busy # "mine" /\ Runs([state EXCEPT !.busy = b])
      BY <2>20 DEF OtherCallStarts, OtherCallEnds, Input, NoInput, Runs
    <3>3. PICK r : r = [state EXCEPT !.busy = b] /\ Runs(r)
      BY <3>2
    <3>4. /\ r \in State /\ r.busy = b
          /\ r.join = state.join /\ r.alone = state.alone /\ r.configured = state.configured
          /\ r.attempt = state.attempt /\ r.lateJoin = state.lateJoin /\ r.ends = state.ends
          /\ r.ring = state.ring
      BY SMT, <2>0, <3>3 DEF State
    <3>5. Sound(r) /\ Configured(r)
      BY <2>0, <3>2, <3>4 DEF Sound, Configured, InCall
    <3> QED
      BY <2>a, <3>1, <3>3, <3>4, <3>5, HandlerKeeps
  <2>21. CASE UNCHANGED vars
    BY <2>21 DEF vars, external, Inv, TypeOK, Sound, Configured, InCall
  <2> QED
    BY <2>1, <2>2, <2>3, <2>5, <2>6, <2>7, <2>8, <2>9, <2>10, <2>11, <2>12, <2>13, <2>14,
       <2>15, <2>16, <2>17, <2>18, <2>19, <2>20, <2>21 DEF Next
<1> QED
  BY <1>1, <1>2, PTL DEF Spec

(* Whatever ends a participation - leave(), disconnect(), the SFU, a       *)
(* removal, a failed join or connection - the busy flag is the client's    *)
(* exactly while it is joined or joining, and a stopped actor leaves it    *)
(* to nobody.                                                              *)
THEOREM BusyOwner == Spec => []BusyWhileJoined
<1>1. Inv => BusyWhileJoined
  BY DEF Inv, Sound, BusyWhileJoined
<1> QED
  BY <1>1, Invariance, PTL

(* The application is told of the end of the call at most once, however    *)
(* many of the delayed tasks of end() are waiting.                         *)
THEOREM EndIsToldOnce == Spec => []EndedOnce
<1>1. Inv => EndedOnce
  BY SMT DEF Inv, EndedOnce
<1> QED
  BY <1>1, Invariance, PTL

(* A join is configured once, whichever of the answer, the devices known   *)
(* from before and a later peek admits the client.                         *)
THEOREM ConfiguredExactlyOnce == Spec => []ConfiguredOnce
<1>1. Inv => ConfiguredOnce
  BY DEF Inv, Configured, ConfiguredOnce
<1> QED
  BY <1>1, Invariance, PTL

(* Whoever rang an empty call and is no longer in it has withdrawn the     *)
(* ring.                                                                   *)
THEOREM RingNeverLeft == Spec => []RingIsCancelled
<1>1. Inv => RingIsCancelled
  BY DEF Inv, Sound, RingIsCancelled
<1> QED
  BY <1>1, Invariance, PTL
=============================================================================
