---------------------------- MODULE Negotiation -----------------------------
(***************************************************************************)
(* Offer and answer of a direct call: one offer of the caller answered by  *)
(* every device of the callee, each with a connection of its own on the    *)
(* caller's side (start_outgoing_parent, start_outgoing_child and          *)
(* start_incoming in core/connection.rs; webrtc/sdp_observer.rs;           *)
(* core/signaling.rs).  Devices may run an older version, which knows      *)
(* neither of the one-way codec lists, or a newer one, which lists codecs  *)
(* this version does not know.  WebRTC may fail at any of the requests     *)
(* made of it.  Key agreement is symbolic: what two secrets share is the   *)
(* set of them, and a derived key is the tuple it is derived from.         *)
(***************************************************************************)
EXTENDS Integers, FiniteSets, FiniteSetsExt

CONSTANTS
  Caller, Devices,   \* the ends
  Configs,           \* what a device can be: [version, encode, decode, mode]
  CallerConfigs,
  MIN_SEND_RATE,
  None,
  MaxFailures        \* bound on the requests that fail

Ends == {Caller} \union Devices

VARIABLES
  config,   \* per end, its version, CallConfig and data mode
  forking,  \* the caller's ForkingState: its secret, ICE gatherer and offer
  conn,     \* per device, the connection of each of the two sides
  offered,  \* devices the offer has not reached yet
  answers,  \* answers on their way
  failures

vars == <<config, forking, conn, offered, answers, failures>>

-----------------------------------------------------------------------------
(* Connection::new, before it is started *)
NewConnection ==
  [state |-> "NotYetStarted", local |-> None, remote |-> None, remote_max |-> None,
   rate |-> None, incoming_rtp |-> FALSE, gatherer |-> None, fsm |-> FALSE]

Init ==
  /\ config \in {f \in [Ends -> Configs \union CallerConfigs] :
                   /\ f[Caller] \in CallerConfigs
                   /\ \A d \in Devices : f[d] \in Configs}
  /\ forking = None
  /\ conn = [d \in Devices |-> [caller |-> NewConnection, callee |-> NewConnection]]
  /\ offered = {}
  /\ answers = {}
  /\ failures = 0

(* A request of WebRTC fails, or a message is refused. *)
MayFail == failures < MaxFailures /\ failures' = failures + 1

-----------------------------------------------------------------------------
(* WebRTC: the codecs it lists for an end, as the fields of                *)
(* ConnectionParametersV4 document them.                                   *)
Vp9If(b) == IF b THEN {"Vp9"} ELSE {}

Newest(c) == IF c.version = "newer" THEN {"Av1"} ELSE {}

sessionDescriptionToV4(c) ==
  [both |-> {"Vp8"} \union Vp9If(c.encode /\ c.decode) \union Newest(c),
   encode |-> {"Vp8"} \union Vp9If(c.encode) \union Newest(c),
   decode |-> {"Vp8"} \union Vp9If(c.decode) \union Newest(c)]

sessionDescriptionToV4Legacy(c) ==
  [both |-> {"Vp8"} \union Vp9If(c.encode /\ c.decode), encode |-> {}, decode |-> {}]

(* to_v4 *)
to_v4(c, asymmetric, ufrag, public_key) ==
  [codecs |-> IF asymmetric /\ c.version # "old" THEN sessionDescriptionToV4(c)
              ELSE sessionDescriptionToV4Legacy(c),
   ufrag |-> ufrag, public_key |-> public_key, max_bitrate |-> c.mode]

(* from_v4: codecs this version does not know are left out; without both   *)
(* one-way lists the description is one of the legacy kind.                *)
Known(c, codecs) ==
  codecs \cap ({"Vp8", "Vp9"} \union (IF c.version = "newer" THEN {"Av1"} ELSE {}))

Asymmetric(c, codecs) == codecs.encode # {} /\ codecs.decode # {} /\ c.version # "old"

from_v4(c, v4) ==
  LET a == Asymmetric(c, v4.codecs) IN
  [ufrag |-> v4.ufrag,
   asymmetric |-> a,
   sends |-> Known(c, IF a THEN v4.codecs.encode ELSE v4.codecs.both),
   receives |-> Known(c, IF a THEN v4.codecs.decode ELSE v4.codecs.both),
   key |-> None]

disable_dtls_and_set_srtp_key(description, k) == [description EXCEPT !.key = k]

-----------------------------------------------------------------------------
(* generate_local_secret_and_public_key and negotiate_srtp_keys *)
Secret(e) == <<"secret", e>>

Public(secret) == <<"public", secret[2]>>

negotiate_srtp_keys(secret, public_key, caller_identity, callee_identity) ==
  [part \in {"offer", "answer"} |->
     <<{secret[2], public_key[2]}, caller_identity, callee_identity, part>>]

(* The identity keys an application gives with a message: the sender's and *)
(* the receiver's.  The devices of the callee share one.                   *)
Identity(e) == IF e = Caller THEN "caller" ELSE "callee"

-----------------------------------------------------------------------------
(* Bandwidth: see SendRates *)
max_send_rate(mode, remote_max) == Max({Min({mode, remote_max}), MIN_SEND_RATE})

(* start_outgoing_parent, called once by proceed: one secret, one ICE      *)
(* gatherer and one offer for all devices.  If it fails the call ends.     *)
start_outgoing_parent ==
  LET c == config[Caller]
      secret == Secret(Caller)
      gatherer == <<"ufrag", Caller>> IN
  /\ forking = None
  /\ \/ /\ forking' = [secret |-> secret, gatherer |-> gatherer,
                       offer |-> to_v4(c, TRUE, gatherer, Public(secret))]
        /\ offered' = Devices
        /\ UNCHANGED failures
     \/ MayFail /\ forking' = [secret |-> None] /\ UNCHANGED offered
  /\ UNCHANGED <<config, conn, answers>>

(* The observers hand what WebRTC made, or its failure, to the thread that *)
(* waits.  When a description cannot be made the remote's limit may be     *)
(* taken over already; when the second one cannot be set the first one is. *)
(* The state machine is started in any case.                               *)
FailsToCreate(done) ==
  {[NewConnection EXCEPT !.state = "Starting", !.fsm = TRUE, !.remote_max = m] :
     m \in {None, done.remote_max}}

FailsToSet(done, first) ==
  {[NewConnection EXCEPT !.state = "Starting", !.fsm = TRUE, !.remote_max = done.remote_max,
                         ![first] = done[first]]}

Failed(done, first) == FailsToCreate(done) \union FailsToSet(done, first)

(* start_incoming: the offer becomes the remote description, an answer of  *)
(* the same kind is made and sent, and made again from what is sent, which *)
(* loses its key.                                                          *)
Answered(d, offer, v4, keys) ==
  [NewConnection EXCEPT
     !.state = "ConnectingBeforeAccepted", !.fsm = TRUE,
     !.remote = disable_dtls_and_set_srtp_key(from_v4(config[d], offer), keys["offer"]),
     !.local = disable_dtls_and_set_srtp_key(from_v4(config[d], v4), keys["answer"]),
     !.remote_max = offer.max_bitrate,
     !.rate = max_send_rate(config[d].mode, offer.max_bitrate),
     !.gatherer = v4.ufrag]

start_incoming(d) ==
  LET offer == forking.offer
      v4 == to_v4(config[d], Asymmetric(config[d], offer.codecs), <<"ufrag", d>>,
                  Public(Secret(d)))
      keys == negotiate_srtp_keys(Secret(d), offer.public_key,
                                  Identity(Caller), Identity(d))
      done == Answered(d, offer, v4, keys) IN
  /\ d \in offered
  /\ offered' = offered \ {d}
  /\ \/ /\ conn' = [conn EXCEPT ![d].callee = done]
        /\ answers' = answers \union {[from |-> d, v4 |-> v4]}
        /\ UNCHANGED failures
     \/ /\ MayFail
        /\ \E f \in Failed(done, "remote") : conn' = [conn EXCEPT ![d].callee = f]
        /\ UNCHANGED answers
  /\ UNCHANGED <<config, forking>>

-----------------------------------------------------------------------------
(* A form without the fall back. *)
KeepsItsOffer(offer, answer) == offer

(* start_outgoing_child: the parent's offer, put back into the legacy form *)
(* when the answer has no one-way lists, is the local description.         *)
FallBack(offer, answer) ==
  IF answer.codecs.encode = {} \/ answer.codecs.decode = {}
  THEN [offer EXCEPT !.codecs.encode = {}, !.codecs.decode = {}]
  ELSE offer

Connected(offer, answer, keys) ==
  [NewConnection EXCEPT
     !.state = "ConnectingBeforeAccepted", !.fsm = TRUE,
     !.local = disable_dtls_and_set_srtp_key(from_v4(config[Caller], offer), keys["offer"]),
     !.remote = disable_dtls_and_set_srtp_key(from_v4(config[Caller], answer), keys["answer"]),
     !.remote_max = answer.max_bitrate,
     !.rate = max_send_rate(config[Caller].mode, answer.max_bitrate),
     !.incoming_rtp = TRUE,
     !.gatherer = forking.gatherer]

(* received_answer: the first answer of a device makes its connection. *)
start_outgoing_child(a) ==
  LET keys == negotiate_srtp_keys(forking.secret, a.v4.public_key,
                                  Identity(Caller), Identity(a.from))
      done == Connected(FallBack(forking.offer, a.v4), a.v4, keys) IN
  /\ a \in answers
  /\ answers' = answers \ {a}
  /\ \/ conn' = [conn EXCEPT ![a.from].caller = done] /\ UNCHANGED failures
     \/ MayFail /\ \E f \in Failed(done, "local") : conn' = [conn EXCEPT ![a.from].caller = f]
  /\ UNCHANGED <<config, forking, offered>>

(* Signaling loses messages. *)
Lose ==
  /\ \/ \E d \in offered : offered' = offered \ {d} /\ UNCHANGED answers
     \/ \E a \in answers : answers' = answers \ {a} /\ UNCHANGED offered
  /\ UNCHANGED <<config, forking, conn, failures>>

Next ==
  \/ start_outgoing_parent
  \/ \E d \in Devices : start_incoming(d)
  \/ \E a \in answers : start_outgoing_child(a)
  \/ Lose

Spec == Init /\ [][Next]_vars

-----------------------------------------------------------------------------
(* Both sides of a device's connection are negotiated. *)
Negotiated(d) ==
  /\ conn[d].caller.state = "ConnectingBeforeAccepted"
  /\ conn[d].callee.state = "ConnectingBeforeAccepted"

(* The codecs an end may send in: in its description, and received by the  *)
(* other's.                                                                *)
Sendable(from, to) == from.sends \cap to.receives

Mirrored(x, y) ==
  /\ x.ufrag = y.ufrag
  /\ x.key = y.key
  /\ x.asymmetric = y.asymmetric

(* Whatever the versions and settings of the two ends, both sides of a     *)
(* connection hold the same pair of descriptions: the same ICE credentials *)
(* (on the caller's side those of the gatherer that every fork shares),    *)
(* the same two distinct SRTP keys and the same kind of negotiation.  For  *)
(* each direction both allow the same codecs, which the sender encodes and *)
(* the receiver decodes.                                                   *)
EndsAgree ==
  \A d \in Devices : Negotiated(d) =>
    LET x == conn[d].caller
        y == conn[d].callee IN
    /\ Mirrored(x.local, y.remote) /\ Mirrored(x.remote, y.local)
    /\ x.local.ufrag = x.gatherer /\ y.local.ufrag = y.gatherer
    /\ x.local.key # x.remote.key /\ None \notin {x.local.key, x.remote.key}
    /\ Sendable(x.local, x.remote) = Sendable(y.remote, y.local)
    /\ Sendable(x.remote, x.local) = Sendable(y.local, y.remote)
    /\ "Vp8" \in Sendable(x.local, x.remote) \cap Sendable(y.local, y.remote)
    /\ "Vp9" \in Sendable(x.local, x.remote) => config[Caller].encode /\ config[d].decode
    /\ "Vp9" \in Sendable(y.local, y.remote) => config[d].encode /\ config[Caller].decode

(* No two devices that answered the same offer share a key, and each side  *)
(* starts within the rate the other asked for.                             *)
ForksAreApart ==
  /\ \A d, e \in Devices : d # e =>
       LET Keys(f) == {conn[f].caller[s].key : s \in {t \in {"local", "remote"} :
                                                        conn[f].caller[t] # None}}
       IN Keys(d) \cap Keys(e) = {}
  /\ \A d \in Devices : Negotiated(d) =>
       /\ conn[d].caller.rate <= Max({config[d].mode, MIN_SEND_RATE})
       /\ conn[d].callee.rate <= Max({config[Caller].mode, MIN_SEND_RATE})

=============================================================================
