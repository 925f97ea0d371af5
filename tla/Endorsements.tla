---------------------------- MODULE Endorsements ----------------------------
(***************************************************************************)
(* Endorsements of a call link's members (core/endorsements.rs) and the    *)
(* media keys sent with them (core/group_call.rs).  The SFU sends sets of  *)
(* endorsements that expire together; the client validates and caches them *)
(* and sends a media key to all recipients at once if one cached, valid    *)
(* set has an endorsement of every recipient, else to each by itself.      *)
(***************************************************************************)
EXTENDS Naturals, FiniteSetsExt

CONSTANTS
  Users,        \* members of the call, this user not included
  MaxTime       \* expirations are 1..MaxTime; the clock stops there

VARIABLES
  endorsements, \* the cache: for some expirations, the users endorsed
  updated,      \* last_updated, in ticks of the steps taken
  invalid,      \* invalid_markers: expirations that are marked
  now,          \* the time, which expirations are compared with
  sent,         \* the last send: how, to whom, with which set
  lastWord      \* history: whether the latest response for an expiration was valid

vars == <<endorsements, updated, invalid, now, sent, lastWord>>

Expirations == 1..MaxTime
NoSet == 0

Init ==
  /\ endorsements = [e \in {} |-> {}] /\ updated = {} /\ invalid = {}
  /\ now = 0
  /\ sent = [how |-> "none", to |-> {}, with |-> NoSet]
  /\ lastWord = [e \in Expirations |-> "none"]

(* A set is extended: users it had keep their endorsements. *)
insert(e, users) ==
  /\ endorsements' = [x \in DOMAIN endorsements \cup {e} |->
                        IF x # e THEN endorsements[x]
                        ELSE users \cup (IF e \in DOMAIN endorsements THEN endorsements[e] ELSE {})]
  /\ updated' = updated \cup {e}
  /\ invalid' = invalid \ {e}

(* Deviation: nothing is marked. *)
set_invalid_forgets(e) == UNCHANGED <<endorsements, updated, invalid>>

set_invalid(e) == invalid' = invalid \cup {e} /\ UNCHANGED <<endorsements, updated>>

is_valid(e) == e \in updated /\ e \notin invalid

(* The set of the given expiration, or the one that expires last: it must  *)
(* be valid and have every user.                                           *)
get_endorsements_for_users(epoch, users) ==
  LET candidates == IF epoch # NoSet THEN {epoch} \cap DOMAIN endorsements
                    ELSE DOMAIN endorsements
      e == IF candidates = {} THEN NoSet ELSE Max(candidates)
  IN IF e # NoSet /\ is_valid(e) /\ users \subseteq endorsements[e] THEN e ELSE NoSet

(* Keys go to users whose devices were added or are left. *)
send_media_send_key_to_users_over_signaling(users, epoch) ==
  LET e == get_endorsements_for_users(epoch, users)
  IN /\ users # {}
     /\ sent' = [how |-> IF e = NoSet THEN "each" ELSE "adhoc group", to |-> users, with |-> e]
     /\ UNCHANGED <<endorsements, updated, invalid, now, lastWord>>

(* A response whose members cannot be told, or that does not verify, marks *)
(* its set.                                                                *)
validate_and_cache_endorsements(e, users, verifies) ==
  IF verifies THEN insert(e, users) ELSE set_invalid(e)

(* A response without its fields, or one that cannot be read or has        *)
(* expired, changes nothing.                                               *)
handle_send_endorsements_response_inner(e, users, verifies) ==
  /\ users # {} /\ e >= now
  /\ validate_and_cache_endorsements(e, users, verifies)
  /\ lastWord' = [lastWord EXCEPT ![e] = IF verifies THEN "valid" ELSE "invalid"]
  /\ UNCHANGED <<now, sent>>

TimePasses ==
  /\ now < MaxTime /\ now' = now + 1
  /\ UNCHANGED <<endorsements, updated, invalid, sent, lastWord>>

Next ==
  \/ \E e \in Expirations, users \in SUBSET Users, verifies \in BOOLEAN :
       handle_send_endorsements_response_inner(e, users, verifies)
  \/ \E users \in SUBSET Users, epoch \in Expirations \cup {NoSet} :
       send_media_send_key_to_users_over_signaling(users, epoch)
  \/ TimePasses

Spec == Init /\ [][Next]_vars

-----------------------------------------------------------------------------

(* A key goes out with endorsements only if the latest response about      *)
(* their set was valid and the set has every recipient.                    *)
ValidWhenSent ==
  sent' # sent /\ sent'.how = "adhoc group" =>
    lastWord[sent'.with] = "valid" /\ sent'.to \subseteq endorsements[sent'.with]
=============================================================================
