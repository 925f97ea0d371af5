----------------------------- MODULE CallLinks -----------------------------
(***************************************************************************)
(* Call links (lite/call_links.rs, lite/sfu.rs) over HTTP requests that    *)
(* the application carries out (lite/http.rs, DelegatingClient).           *)
(*                                                                         *)
(* A creator makes a root key, has the server create the link, names it    *)
(* and gives the key's text to a reader, at any time; both use it to read, *)
(* change, peek at and join the link's call.  The server and the           *)
(* application's HTTP stack are external: an answer takes any time, may be *)
(* overtaken, and may be replaced by a failure.                            *)
(***************************************************************************)
EXTENDS RootKeys, Functions, TLC

CONSTANTS
  Crns,         \* random parts of keys
  Creator, Reader,
  Names,        \* names of links
  NoName,       \* the empty name, or none in a request
  NoLink, NoKey, NoResponse, Pending,
  IdModulus,    \* 2^32 in the code
  MaxInFlight,  \* bound on requests in flight at once
  MaxRequests   \* bound on requests, at most IdModulus: no request stays in
                \* flight while 2^32 later ones are made

Holders == {Creator, Reader}

VARIABLES
  epochs,       \* the epochs the server has given out; -1: it gives none
  link,         \* the link, as the server knows it
  keys,         \* the root key each holder has
  callbacks,    \* response_callback_by_request_id
  next_request_id,
  http,         \* requests the application is carrying out
  results,      \* history: what the last callback of each holder was told
  requests      \* requests made

vars == <<epochs, link, keys, callbacks, next_request_id, http, results, requests>>

Init ==
  /\ epochs \in {-1, 0} /\ link = NoLink
  /\ keys = [h \in Holders |-> NoKey]
  /\ callbacks = << >> /\ next_request_id = 0 /\ http = {}
  /\ results = [h \in Holders |-> [status |-> 0]] /\ requests = 0

-----------------------------------------------------------------------------
(* Statuses (lite/http.rs) *)

GROUP_CALL_NOT_STARTED == 404
GROUP_CALL_FULL == 413
REQUEST_FAILED == 602
INVALID_RESPONSE_BODY_JSON == 702
CALL_LINK_EXPIRED == 703
CALL_LINK_INVALID == 704
CALL_LINK_ALREADY_CREATED == 705

is_success(code) == code \in 200 .. 299

\* parse_json_response: a status, 0 when the body can be used.
parse_json_response(response) ==
  IF response = NoResponse THEN REQUEST_FAILED
  ELSE IF ~is_success(response.code) THEN response.code
  ELSE IF response.body = "garbage" THEN INVALID_RESPONSE_BODY_JSON ELSE 0

\* peek: a 404 without a body is a call nobody has started.
PeekStatus(response) ==
  LET s == parse_json_response(response) IN
  IF s # GROUP_CALL_NOT_STARTED THEN s
  ELSE CASE response.body = "none" -> 0
         [] response.body = "expired" -> CALL_LINK_EXPIRED
         [] response.body = "invalid" -> CALL_LINK_INVALID
         [] OTHER -> s

\* CallLinkState::from_serialized: a name that does not decrypt is empty.
NameOf(key, cipher) ==
  IF cipher # NoName /\ CanDecrypt(key, cipher) THEN cipher.name ELSE NoName

-----------------------------------------------------------------------------
\* The same id again.
push_same_id == UNCHANGED next_request_id

\* ResponseCallbacks::push: the next id.
push == next_request_id' = (next_request_id + 1) % IdModulus

\* DelegatingClient::send_request for holder h with key: the callback is
\* registered, then the application starts the request.
send_request(h, kind, key, name) ==
  /\ http' = http \cup {[id |-> next_request_id, by |-> h, kind |-> kind,
                         crn |-> key.crn, epoch |-> epoch_header(key), name |-> name,
                         answer |-> Pending]}
  /\ callbacks' = next_request_id :> [by |-> h, kind |-> kind, key |-> key] @@ callbacks
  /\ push

\* A function of this file with a key: a callback with an error at once when
\* the key is not of the right kind.
Asks(h, kind, name) ==
  LET key == keys[h] IN
  /\ key # NoKey /\ requests < MaxRequests /\ requests' = requests + 1
  /\ IF kind = "create" /\ is_valid(key)
     THEN /\ results' = [results EXCEPT ![h] = [status |-> CALL_LINK_ALREADY_CREATED]]
          /\ UNCHANGED <<callbacks, next_request_id, http>>
     ELSE IF kind # "create" /\ ~is_valid(key)
     THEN /\ results' = [results EXCEPT ![h] = [status |-> CALL_LINK_INVALID]]
          /\ UNCHANGED <<callbacks, next_request_id, http>>
     ELSE /\ Cardinality(http) < MaxInFlight
          /\ send_request(h, kind, key, name)
          /\ UNCHANGED results
  /\ UNCHANGED <<epochs, link, keys>>

\* CallLinkRootKey::generate
generate(crn) ==
  /\ keys[Creator] = NoKey /\ ~has_repeated_chunk(crn)
  /\ keys' = [keys EXCEPT ![Creator] = without_epoch(crn)]
  /\ UNCHANGED <<epochs, link, callbacks, next_request_id, http, results, requests>>

create_call_link == Asks(Creator, "create", NoName)
read_call_link(h) == Asks(h, "read", NoName)
\* rtc_sfu_updateCallLink encrypts a name that is not empty with the key.
update_call_link(name) ==
  /\ keys[Creator] # NoKey
  /\ Asks(Creator, "update", IF name = NoName THEN NoName ELSE encrypt(keys[Creator], name))
delete_call_link == Asks(Creator, "delete", NoName)
peek(h) == Asks(h, "peek", NoName)
join(h) == Asks(h, "join", NoName)

\* The creator gives the key's text to the reader.
Shares ==
  /\ keys[Creator] # NoKey /\ Parse(to_formatted_string(keys[Creator])) # keys[Reader]
  /\ keys' = [keys EXCEPT ![Reader] = Parse(to_formatted_string(keys[Creator]))]
  /\ UNCHANGED <<epochs, link, callbacks, next_request_id, http, results, requests>>

-----------------------------------------------------------------------------
\* The calling server carries out a request (external).
Found(q) == link # NoLink /\ q.crn = link.crn /\ q.epoch \in {<< >>, link.epoch}

ServerAnswers(q) ==
  LET Answer(code, body) ==
        http' = (http \ {q}) \cup
          {[q EXCEPT !.answer = [code |-> code, body |-> body,
                                 link |-> IF is_success(code) THEN link' ELSE NoLink]]}
      fresh == IF epochs = -1 THEN << >> ELSE <<0, 0, 0, epochs + 1>> IN
  /\ q.answer = Pending
  /\ CASE q.kind = "create" /\ link = NoLink ->
            /\ link' = [crn |-> q.crn, epoch |-> fresh, name |-> NoName]
            /\ epochs' = IF epochs = -1 THEN -1 ELSE epochs + 1
            /\ Answer(200, "json")
       [] q.kind = "create" /\ link # NoLink -> UNCHANGED <<epochs, link>> /\ Answer(409, "none")
       [] q.kind # "create" /\ ~Found(q) ->
            /\ UNCHANGED <<epochs, link>>
            /\ \E body \in {"invalid", "expired"} : Answer(404, body)
       [] q.kind \in {"read", "join"} /\ Found(q) ->
            UNCHANGED <<epochs, link>> /\ Answer(200, "json")
       [] q.kind = "update" /\ Found(q) ->
            link' = [link EXCEPT !.name = q.name] /\ UNCHANGED epochs /\ Answer(200, "json")
       [] q.kind = "delete" /\ Found(q) ->
            link' = NoLink /\ UNCHANGED epochs /\ Answer(200, "json")
       [] q.kind = "peek" /\ Found(q) ->
            /\ UNCHANGED <<epochs, link>>
            /\ Answer(200, "json") \/ Answer(404, "none")
  /\ UNCHANGED <<keys, callbacks, next_request_id, results, requests>>

ServerFails(q) ==
  /\ q.answer = Pending
  /\ \E a \in {[code |-> 413, body |-> "none", link |-> NoLink],
               [code |-> 200, body |-> "garbage", link |-> NoLink], NoResponse} :
       http' = (http \ {q}) \cup {[q EXCEPT !.answer = a]}
  /\ UNCHANGED <<epochs, link, keys, callbacks, next_request_id, results, requests>>

-----------------------------------------------------------------------------
\* What the callback of a request tells the one who asked.
Result(c, response) ==
  LET status == IF c.kind = "peek" THEN PeekStatus(response)
                ELSE parse_json_response(response) IN
  IF status # 0 \/ c.kind \notin {"create", "read", "update"} THEN [status |-> status]
  ELSE LET key == IF c.kind = "create"
                  THEN process_server_response(c.key, response.link.epoch) ELSE c.key IN
       [status |-> 0, key |-> key, name |-> NameOf(key, response.link.name),
        link |-> response.link]

\* received_response (and rtc_http_Client_request_failed): the callback is
\* taken out and called; the creator keeps the key of the link it created.
received_response(q) ==
  LET c == callbacks[q.id]  r == Result(c, q.answer) IN
  /\ q.answer # Pending /\ http' = http \ {q}
  /\ IF q.id \in DOMAIN callbacks
     THEN /\ callbacks' = Restrict(callbacks, DOMAIN callbacks \ {q.id})
          /\ results' = [results EXCEPT ![c.by] = r]
          /\ keys' = IF c.kind = "create" /\ r.status = 0
                     THEN [keys EXCEPT ![c.by] = r.key] ELSE keys
     ELSE UNCHANGED <<callbacks, results, keys>>
  /\ UNCHANGED <<epochs, link, next_request_id, requests>>

Next ==
  \/ \E crn \in Crns : generate(crn)
  \/ create_call_link \/ delete_call_link \/ Shares
  \/ \E n \in Names \cup {NoName} : update_call_link(n)
  \/ \E h \in Holders : read_call_link(h) \/ peek(h) \/ join(h)
  \/ \E q \in http : ServerAnswers(q) \/ ServerFails(q) \/ received_response(q)

Spec == Init /\ [][Next]_vars

-----------------------------------------------------------------------------
(***************************************************************************)
(* An answer goes to the one who asked for it: every request in flight has *)
(* its own callback waiting under its id, although answers overtake each   *)
(* other (ResponseCallbacks::push, pop).                                   *)
(***************************************************************************)
AnswersReachTheirCallback ==
  /\ \A q \in http : /\ q.id \in DOMAIN callbacks
                     /\ callbacks[q.id].by = q.by /\ callbacks[q.id].kind = q.kind
  /\ Cardinality(DOMAIN callbacks) = Cardinality(http)

(***************************************************************************)
(* Whoever reads a link reads the name its creator gave it: the versions   *)
(* of the key in the creator's hands, in the text that was shared and in   *)
(* the name's encryption agree, with servers that give epochs and servers  *)
(* that do not (process_server_response, make_cipher, TryFrom<&str>).      *)
(***************************************************************************)
NameIsReadable ==
  \A h \in Holders :
    results[h].status = 0 /\ "name" \in DOMAIN results[h] =>
      results[h].name = IF results[h].link.name = NoName THEN NoName ELSE results[h].link.name.name

(***************************************************************************)
(* A link that was deleted and created again is another link: a key from   *)
(* before never reads it (with_epoch, prepare_http_headers).               *)
(***************************************************************************)
OldKeyStaysDead ==
  \A h \in Holders :
    results[h].status = 0 /\ "link" \in DOMAIN results[h] /\ epochs # -1 =>
      results[h].key.version = 1 /\ results[h].key.epoch = results[h].link.epoch

=============================================================================
