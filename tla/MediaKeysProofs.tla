-------------------------- MODULE MediaKeysProofs ---------------------------
(***************************************************************************)
(* Media keys follow the members of a group call: for any devices and      *)
(* users, any peek results in any order, any number of rotations.          *)
(*                                                                         *)
(* Neither fact is inductive.  That a user who left cannot compute the key *)
(* in use rests on what is true of the key that a pending rotation will    *)
(* put in use (CleanInv), which in turn needs every rotation to start from *)
(* a root nobody was sent (FreshInv).  That a user cannot compute earlier  *)
(* keys rests on the key in use being ahead of the one the user was first  *)
(* seen with (AheadInv).                                                   *)
(***************************************************************************)
EXTENDS MediaKeys, TLAPS

(* A leaf is left to Zenon unless it says otherwise: most are first-order  *)
(* reasoning over sets and functions.                                      *)
USE ZenonT(60)

TypeInv ==
  /\ keys.sender.secret \in Secrets
  /\ keys.rotation \in Rotations
  /\ keys.roots \in Nat
  /\ known \in [Users -> SUBSET Secrets]
  /\ first \in [Users -> Secrets]
  /\ members = UsersOf(remote)

(* No secret is from a root not made yet, and a pending one is newest. *)
FreshInv ==
  /\ \A u \in Users : \A s \in known[u] : s.root <= keys.roots
  /\ keys.sender.secret.root > 0 /\ keys.sender.secret.root <= keys.roots
  /\ keys.rotation.pending => /\ keys.rotation.secret.root = keys.roots
                              /\ keys.sender.secret.root < keys.roots

(* Whoever is not a member has nothing of the root in use; unless another  *)
(* rotation will follow, nothing of the root that is pending.              *)
CleanInv ==
  \A u \in Users \ members : \A s \in known[u] :
     /\ ~keys.rotation.pending => s.root # keys.sender.secret.root
     /\ keys.rotation.pending /\ ~keys.rotation.again => s.root # keys.rotation.secret.root

Before(s, t) == s.root < t.root \/ (s.root = t.root /\ s.steps < t.steps)

(* A user was sent something only after it was seen, and since then the    *)
(* key in use is ahead of the one it was seen with.                        *)
AheadInv ==
  \A u \in Users :
     /\ first[u] = Unseen => known[u] = {} /\ u \notin members
     /\ first[u] # Unseen => Before(first[u], keys.sender.secret)
     /\ \A s \in known[u] : Before(first[u], s)

Inv == TypeInv /\ FreshInv /\ CleanInv /\ AheadInv

(***************************************************************************)
(* What the handlers send, as facts about the secrets of each user.        *)
(***************************************************************************)

(* send_media_send_key_to_users_over_signaling gives each user exactly the *)
(* secrets that are for that user.                                         *)
LEMMA SendsTo ==
  ASSUME NEW sent, Sends(sent), NEW u \in Users, NEW x
  PROVE  x \in known'[u] <=> x \in known[u] \/ \E p \in sent : p[1] = u /\ x = p[2].secret
BY DEF Sends

(* A pair for one of the users, with the secret. *)
LEMMA ToUsers ==
  ASSUME NEW users, NEW counter, NEW secret, NEW p \in To(users, counter, secret)
  PROVE  p[1] \in users /\ p[2].secret = secret
BY SMT DEF To, SenderState

(* The effect of a peek result on the keys (set_peek_result_inner). *)
LEMMA PeekEffect ==
  ASSUME TypeInv, NEW peek
  PROVE  LET k == AfterPeek(peek)
             added == UsersOf(peek \ remote)
             removed == members \ UsersOf(peek)
         IN /\ k.sender.secret = IF added = {} THEN keys.sender.secret
                                 ELSE Ratcheted(keys.sender.secret, 1)
            /\ k.roots = IF removed # {} /\ ~keys.rotation.pending
                         THEN keys.roots + 1 ELSE keys.roots
            /\ k.rotation = IF removed = {} THEN keys.rotation
                            ELSE IF keys.rotation.pending
                            THEN [keys.rotation EXCEPT !.again = TRUE]
                            ELSE [pending |-> TRUE, secret |-> Secret(keys.roots + 1),
                                  again |-> FALSE]
            /\ \A p \in k.sent :
                  \/ p[1] \in added /\ p[2].secret = Ratcheted(keys.sender.secret, 1)
                  \/ /\ p[1] \in added /\ keys.rotation.pending
                     /\ p[2].secret = keys.rotation.secret
                  \/ /\ p[1] \in UsersOf(peek) /\ removed # {} /\ ~keys.rotation.pending
                     /\ p[2].secret = Secret(keys.roots + 1)
<1> DEFINE added == UsersOf(peek \ remote)
           removed == members \ UsersOf(peek)
           next == mut_advance_ratchet(keys.sender)
           a == advance_media_send_key_and_send_to_users_with_added_devices(Unsent, added)
           b == send_pending_media_send_key_to_users_with_added_devices(a, added)
           k == IF added = {} THEN Unsent ELSE b
<1> HIDE DEF added, removed
<1>1. next.secret = Ratcheted(keys.sender.secret, 1)
  BY DEF mut_advance_ratchet, SenderState
<1> HIDE DEF next
<1>2. a = [sender |-> next, rotation |-> keys.rotation, roots |-> keys.roots,
           sent |-> To(added, next.counter, next.secret)]
  <2>1. a = [Unsent EXCEPT !.sender = next, !.sent = @ \cup To(added, next.counter, next.secret)]
    BY DEF advance_media_send_key_and_send_to_users_with_added_devices, next, Unsent
  <2> HIDE DEF a
  <2> QED
    BY <2>1 DEF Unsent
<1> HIDE DEF a
<1>3. b = [sender |-> next, rotation |-> keys.rotation, roots |-> keys.roots,
           sent |-> a.sent \cup (IF keys.rotation.pending
                                 THEN To(added, 0, keys.rotation.secret) ELSE {})]
  BY <1>2 DEF send_pending_media_send_key_to_users_with_added_devices
<1> HIDE DEF b
<1>4. /\ k.sender.secret = IF added = {} THEN keys.sender.secret
                           ELSE Ratcheted(keys.sender.secret, 1)
      /\ k.rotation = keys.rotation /\ k.roots = keys.roots
      /\ k = [sender |-> k.sender, rotation |-> k.rotation, roots |-> k.roots, sent |-> k.sent]
  BY <1>1, <1>3 DEF Unsent
<1>5. \A p \in k.sent :
         \/ p[1] \in added /\ p[2].secret = Ratcheted(keys.sender.secret, 1)
         \/ p[1] \in added /\ keys.rotation.pending /\ p[2].secret = keys.rotation.secret
  <2> SUFFICES ASSUME NEW p \in k.sent, added # {}
               PROVE  \/ p[1] \in added /\ p[2].secret = Ratcheted(keys.sender.secret, 1)
                      \/ p[1] \in added /\ keys.rotation.pending /\ p[2].secret = keys.rotation.secret
    BY DEF Unsent
  <2>1. p \in To(added, next.counter, next.secret)
        \/ (keys.rotation.pending /\ p \in To(added, 0, keys.rotation.secret))
    BY <1>2, <1>3
  <2> QED
    BY SMT, <2>1, <1>1, ToUsers
<1> HIDE DEF k
<1>6. AfterPeek(peek) = IF removed = {} THEN k
                        ELSE rotate_media_send_key_and_send_to_users_not_removed(k, UsersOf(peek))
  BY DEF AfterPeek, k, a, b, added, removed
<1>7. CASE removed = {}
  BY <1>4, <1>5, <1>6, <1>7 DEF added, removed
<1>8. CASE removed # {} /\ keys.rotation.pending
  <2>1. AfterPeek(peek) = [k EXCEPT !.rotation.again = TRUE]
    BY <1>4, <1>6, <1>8 DEF rotate_media_send_key_and_send_to_users_not_removed
  <2> QED
    BY <2>1, <1>4, <1>5, <1>8 DEF added, removed
<1>9. CASE removed # {} /\ ~keys.rotation.pending
  <2> DEFINE r == AfterPeek(peek)
  <2>1. /\ r.sender = k.sender /\ r.roots = keys.roots + 1
        /\ r.rotation = [pending |-> TRUE, secret |-> Secret(keys.roots + 1), again |-> FALSE]
        /\ r.sent = k.sent \cup To(UsersOf(peek), 0, Secret(keys.roots + 1))
    BY <1>4, <1>6, <1>9 DEF rotate_media_send_key_and_send_to_users_not_removed
  <2> HIDE DEF r
  <2>2. \A p \in r.sent : p \in k.sent \/ (p[1] \in UsersOf(peek) /\ p[2].secret = Secret(keys.roots + 1))
    BY SMT, <2>1, ToUsers
  <2> QED
    BY <2>1, <2>2, <1>4, <1>5, <1>9 DEF added, removed, r
<1> QED
  BY <1>7, <1>8, <1>9

(***************************************************************************)
(* Every step keeps the invariant.                                         *)
(***************************************************************************)

(* A peek result, current or stale. *)
LEMMA PeekKeeps ==
  ASSUME Inv, NEW peek, set_peek_result_inner(peek)
  PROVE  Inv'
<1> DEFINE k == AfterPeek(peek)
           added == UsersOf(peek \ remote)
           removed == members \ UsersOf(peek)
           old == keys.sender.secret
           new == Ratcheted(keys.sender.secret, 1)
           fresh == Secret(keys.roots + 1)
<1>1. /\ keys'.sender.secret = (IF added = {} THEN old ELSE new)
      /\ keys'.roots = (IF removed # {} /\ ~keys.rotation.pending
                       THEN keys.roots + 1 ELSE keys.roots)
      /\ keys'.rotation = (IF removed = {} THEN keys.rotation
                          ELSE IF keys.rotation.pending
                          THEN [keys.rotation EXCEPT !.again = TRUE]
                          ELSE [pending |-> TRUE, secret |-> fresh, again |-> FALSE])
  BY PeekEffect DEF Inv, set_peek_result_inner, KeysBecome
<1>2. \A u \in Users : \A x \in known'[u] :
         \/ x \in known[u]
         \/ u \in added /\ x = new
         \/ u \in added /\ keys.rotation.pending /\ x = keys.rotation.secret
         \/ u \in UsersOf(peek) /\ removed # {} /\ ~keys.rotation.pending /\ x = fresh
  <2> SUFFICES ASSUME NEW u \in Users, NEW x \in known'[u], x \notin known[u]
               PROVE  \/ u \in added /\ x = new
                      \/ u \in added /\ keys.rotation.pending /\ x = keys.rotation.secret
                      \/ u \in UsersOf(peek) /\ removed # {} /\ ~keys.rotation.pending /\ x = fresh
    OBVIOUS
  <2>1. PICK p \in k.sent : p[1] = u /\ x = p[2].secret
    BY SMT, SendsTo DEF set_peek_result_inner, KeysBecome
  <2> QED
    BY <2>1, PeekEffect DEF Inv
<1>3. members' = UsersOf(peek) /\ remote' = peek
  BY DEF set_peek_result_inner
<1>4. /\ added \subseteq members'
      /\ members' \subseteq members \cup added
      /\ removed = members \ members'
  <2>1. members = UsersOf(remote)
    BY DEF Inv, TypeInv
  <2> QED
    BY <1>3, <2>1 DEF UsersOf
<1>5. /\ old \in Secrets /\ new \in Secrets /\ fresh \in Secrets
      /\ new.root = old.root /\ new.steps = old.steps + 1
      /\ fresh.root = keys.roots + 1 /\ fresh.steps = 0
  BY SMT DEF Inv, TypeInv, Secrets, Ratcheted, Secret
<1>6. /\ first' = [u \in Users |-> IF u \in added /\ first[u] = Unseen THEN old ELSE first[u]]
  BY DEF set_peek_result_inner
<1> HIDE DEF k, added, removed, old, new, fresh
<1>7. TypeInv'
  <2>1. keys'.rotation \in Rotations
    <3>1. keys.rotation \in Rotations
      BY DEF Inv, TypeInv
    <3>2. [keys.rotation EXCEPT !.again = TRUE] \in Rotations
      BY <3>1 DEF Rotations
    <3>3. [pending |-> TRUE, secret |-> fresh, again |-> FALSE] \in Rotations
      BY <1>5 DEF Rotations
    <3> QED
      BY <1>1, <3>1, <3>2, <3>3
  <2>2. known' \in [Users -> SUBSET Secrets]
    <3>1. known' = [u \in Users |-> known'[u]]
      BY DEF set_peek_result_inner, KeysBecome, Sends
    <3>2. \A u \in Users : known'[u] \subseteq Secrets
      BY <1>2, <1>5 DEF Inv, TypeInv, Rotations
    <3> QED
      BY <3>1, <3>2
  <2>3. first' \in [Users -> Secrets]
    BY <1>5, <1>6 DEF Inv, TypeInv
  <2>4. members' = UsersOf(remote)'
    BY <1>3 DEF UsersOf
  <2> QED
    BY SMT, <1>1, <1>5, <2>1, <2>2, <2>3, <2>4 DEF Inv, TypeInv
<1>8. FreshInv'
  <2>1. \A u \in Users : \A s \in known'[u] : s.root <= keys'.roots
    <3> SUFFICES ASSUME NEW u \in Users, NEW s \in known'[u] PROVE s.root <= keys'.roots
      OBVIOUS
    <3>1. s \in Secrets /\ keys.roots \in Nat /\ old.root <= keys.roots
      BY <1>7 DEF Inv, TypeInv, FreshInv, old
    <3>2. CASE s \in known[u]
      BY SMT, <1>1, <3>1, <3>2 DEF Inv, FreshInv, Secrets
    <3>3. CASE s = new
      BY SMT, <1>1, <1>5, <3>1, <3>3 DEF Secrets
    <3>4. CASE keys.rotation.pending /\ s = keys.rotation.secret
      BY SMT, <1>1, <3>1, <3>4 DEF Inv, FreshInv, Secrets
    <3>5. CASE removed # {} /\ ~keys.rotation.pending /\ s = fresh
      BY SMT, <1>1, <1>5, <3>1, <3>5 DEF Secrets
    <3> QED
      BY <1>2, <3>2, <3>3, <3>4, <3>5
  <2>2. keys'.sender.secret.root = old.root
    BY <1>1, <1>5
  <2>3. /\ old.root \in Nat /\ keys.roots \in Nat /\ old.root > 0 /\ old.root <= keys.roots
        /\ keys.rotation.pending => keys.rotation.secret.root = keys.roots /\ old.root < keys.roots
    BY <1>5 DEF Inv, TypeInv, FreshInv, old, Secrets
  <2>4. keys'.rotation.pending => /\ keys'.rotation.secret.root = keys'.roots
                                  /\ old.root < keys'.roots
    BY SMT, <1>1, <1>5, <2>3 DEF Inv, TypeInv, Rotations
  <2> QED
    BY SMT, <1>1, <2>1, <2>2, <2>3, <2>4 DEF FreshInv
<1>9. CleanInv'
  <2> SUFFICES ASSUME NEW u \in Users, u \notin members', NEW s \in known'[u]
               PROVE  /\ ~keys'.rotation.pending => s.root # keys'.sender.secret.root
                      /\ keys'.rotation.pending /\ ~keys'.rotation.again
                           => s.root # keys'.rotation.secret.root
    BY DEF CleanInv
  <2>1. s \in known[u]
    BY <1>2, <1>3, <1>4
  <2>2. s.root <= keys.roots /\ s.root \in Nat /\ keys.roots \in Nat
    BY SMT, <2>1, <1>7 DEF Inv, TypeInv, FreshInv, Secrets
  <2>3. CASE removed = {}
    <3>1. u \notin members
      BY <1>4, <2>3
    <3> QED
      BY <1>1, <1>5, <2>1, <2>3, <3>1 DEF Inv, CleanInv, old
  <2>4. CASE removed # {} /\ ~keys.rotation.pending
    BY SMT, <1>1, <1>5, <2>2, <2>4
  <2>5. CASE removed # {} /\ keys.rotation.pending
    BY <1>1, <2>5 DEF Inv, TypeInv, Rotations
  <2> QED
    BY <2>3, <2>4, <2>5
<1>10. AheadInv'
  <2> SUFFICES ASSUME NEW u \in Users
               PROVE  /\ first'[u] = Unseen => known'[u] = {} /\ u \notin members'
                      /\ first'[u] # Unseen => Before(first'[u], keys'.sender.secret)
                      /\ \A s \in known'[u] : Before(first'[u], s)
    BY DEF AheadInv, Unseen, Secret, Before
  <2>1. /\ first[u] = Unseen => known[u] = {} /\ u \notin members
        /\ first[u] # Unseen => Before(first[u], old)
        /\ \A s \in known[u] : Before(first[u], s)
    BY DEF Inv, AheadInv, old
  <2>2. first[u] \in Secrets /\ first'[u] \in Secrets /\ keys.roots \in Nat
    BY <1>7 DEF Inv, TypeInv
  <2>3. old.root > 0 /\ old.root <= keys.roots
    BY DEF Inv, FreshInv, old
  <2>4. old # Unseen
    BY SMT, <2>3 DEF Unseen, Secret
  <2>5. CASE u \in added /\ first[u] = Unseen
    <3>1. first'[u] = old
      BY <1>6, <2>5
    <3>2. Before(old, keys'.sender.secret) /\ Before(old, new)
      BY SMT, <1>1, <1>5, <2>5 DEF Before, Secrets
    <3>3. \A s \in known'[u] : Before(old, s)
      <4>1. keys.rotation.pending => Before(old, keys.rotation.secret)
        BY <1>5, <2>3 DEF Inv, FreshInv, TypeInv, Before, old
      <4>2. Before(old, fresh)
        BY SMT, <1>5, <2>2, <2>3 DEF Before, Secrets
      <4> QED
        BY <1>2, <2>1, <2>5, <3>2, <4>1, <4>2
    <3> QED
      BY <2>4, <3>1, <3>2, <3>3
  <2>6. CASE first[u] # Unseen
    <3>1. first'[u] = first[u]
      BY <1>6, <2>6
    <3>2. Before(first[u], old)
      BY <2>1, <2>6
    <3>3. Before(first[u], new)
      BY SMT, <3>2, <1>5, <2>2 DEF Before, Secrets
    <3>4. keys.rotation.pending => Before(first[u], keys.rotation.secret)
      BY SMT, <3>2, <2>2, <1>5 DEF Inv, FreshInv, TypeInv, Before, old, Rotations, Secrets
    <3>5. Before(first[u], fresh)
      BY SMT, <3>2, <2>2, <2>3, <1>5 DEF Before, Secrets
    <3> QED
      BY <1>1, <1>2, <2>1, <2>6, <3>1, <3>2, <3>3, <3>4, <3>5
  <2>7. CASE u \notin added /\ first[u] = Unseen
    <3>1. first'[u] = Unseen /\ u \notin members'
      BY <1>4, <1>6, <2>1, <2>7
    <3>2. known'[u] = {}
      BY <1>2, <1>3, <2>1, <2>7, <3>1
    <3> QED
      BY <3>1, <3>2
  <2> QED
    BY <2>5, <2>6, <2>7
<1> QED
  BY <1>7, <1>8, <1>9, <1>10 DEF Inv

(* The rotation of a client with no rotation pending. *)
LEMMA RotateEffect ==
  ASSUME NEW sender, NEW users,
         NEW k, k = [sender |-> sender, rotation |-> Applied, roots |-> keys.roots, sent |-> {}]
  PROVE  rotate_media_send_key_and_send_to_users_not_removed(k, users)
           = [sender |-> sender, roots |-> keys.roots + 1,
              rotation |-> [pending |-> TRUE, secret |-> Secret(keys.roots + 1), again |-> FALSE],
              sent |-> To(users, 0, Secret(keys.roots + 1))]
<1>1. ~k.rotation.pending /\ k.roots = keys.roots
  BY DEF Applied
<1> QED
  BY <1>1 DEF rotate_media_send_key_and_send_to_users_not_removed

(* The keys of a handler that has sent nothing, with another key in use. *)
LEMMA InUse ==
  ASSUME NEW sender, NEW rotation,
         NEW k, k = [Unsent EXCEPT !.sender = sender, !.rotation = rotation]
  PROVE  k = [sender |-> sender, rotation |-> rotation, roots |-> keys.roots, sent |-> {}]
BY DEF Unsent

(* The delayed task puts the pending key in use. *)
LEMMA ApplyKeeps ==
  ASSUME Inv, ApplyNewKey
  PROVE  Inv'
<1> DEFINE pending == keys.rotation.secret
           fresh == Secret(keys.roots + 1)
           applied == [Unsent EXCEPT !.sender = reset_send_ratchet(pending), !.rotation = Applied]
<1>1. /\ pending \in Secrets /\ fresh \in Secrets /\ keys.roots \in Nat
      /\ fresh.root = keys.roots + 1 /\ fresh.steps = 0
      /\ keys.rotation.again \in BOOLEAN
  BY SMT DEF Inv, TypeInv, Rotations, Secret, Secrets
<1>2. /\ keys.rotation.pending
      /\ pending.root = keys.roots
      /\ keys.sender.secret.root < keys.roots
  BY DEF Inv, FreshInv, ApplyNewKey
<1>3. applied = [sender |-> reset_send_ratchet(pending), rotation |-> Applied,
                 roots |-> keys.roots, sent |-> {}]
  BY InUse
<1>4. UNCHANGED <<members, remote, first>>
  BY DEF ApplyNewKey
<1>5. reset_send_ratchet(pending).secret = pending
  BY DEF reset_send_ratchet, SenderState
<1>6. CASE ~keys.rotation.again
  <2>1. KeysBecome(applied)
    BY <1>6 DEF ApplyNewKey
  <2> HIDE DEF applied
  <2>2. /\ keys'.sender.secret = pending /\ keys'.rotation = Applied /\ keys'.roots = keys.roots
    BY <1>3, <1>5, <2>1 DEF KeysBecome
  <2>3. \A u \in Users : known'[u] = known[u]
    <3> SUFFICES ASSUME NEW u \in Users PROVE known'[u] = known[u]
      OBVIOUS
    <3>1. Sends({})
      BY <1>3, <2>1 DEF KeysBecome
    <3> QED
      BY <3>1 DEF Sends
  <2>4. known' = [u \in Users |-> known'[u]]
    BY <2>1 DEF KeysBecome, Sends
  <2>5. TypeInv'
    <3>1. Applied \in Rotations
      BY DEF Applied, Rotations, Unseen, Secret, Secrets
    <3>2. known' \in [Users -> SUBSET Secrets]
      BY <2>3, <2>4 DEF Inv, TypeInv
    <3>3. UsersOf(remote)' = UsersOf(remote)
      BY <1>4 DEF UsersOf
    <3> QED
      BY <1>1, <1>4, <2>2, <3>1, <3>2, <3>3 DEF Inv, TypeInv
  <2>6. FreshInv'
    <3>1. ~Applied.pending
      BY DEF Applied
    <3>2. keys.roots > 0
      BY SMT, <1>1, <1>2 DEF Inv, TypeInv, FreshInv, Secrets
    <3> QED
      BY SMT, <1>1, <1>2, <2>2, <2>3, <3>1, <3>2 DEF Inv, FreshInv
  <2>7. CleanInv'
    <3>1. ~Applied.pending
      BY DEF Applied
    <3> QED
      BY <1>2, <1>4, <1>6, <2>2, <2>3, <3>1 DEF Inv, CleanInv
  <2>8. AheadInv'
    <3> SUFFICES ASSUME NEW u \in Users
                 PROVE  /\ first[u] = Unseen => known[u] = {} /\ u \notin members
                        /\ first[u] # Unseen => Before(first[u], pending)
                        /\ \A s \in known[u] : Before(first[u], s)
      BY <1>4, <2>2, <2>3 DEF AheadInv, Before, Unseen, Secret
    <3>1. Before(first[u], keys.sender.secret) => Before(first[u], pending)
      BY SMT, <1>1, <1>2 DEF Inv, TypeInv, Before, Secrets
    <3> QED
      BY <3>1 DEF Inv, AheadInv
  <2> QED
    BY <2>5, <2>6, <2>7, <2>8 DEF Inv
<1>7. CASE keys.rotation.again
  <2> DEFINE k == rotate_media_send_key_and_send_to_users_not_removed(applied, UsersOf(remote))
  <2>1. KeysBecome(k)
    BY <1>7 DEF ApplyNewKey
  <2>2. k = [sender |-> reset_send_ratchet(pending), roots |-> keys.roots + 1,
             rotation |-> [pending |-> TRUE, secret |-> fresh, again |-> FALSE],
             sent |-> To(UsersOf(remote), 0, fresh)]
    BY <1>3, RotateEffect
  <2> HIDE DEF k
  <2>3. /\ keys'.sender.secret = pending /\ keys'.roots = keys.roots + 1
        /\ keys'.rotation = [pending |-> TRUE, secret |-> fresh, again |-> FALSE]
    BY <1>5, <2>1, <2>2 DEF KeysBecome
  <2>4. \A u \in Users : \A x \in known'[u] : x \in known[u] \/ (u \in members /\ x = fresh)
    <3> SUFFICES ASSUME NEW u \in Users, NEW x \in known'[u], x \notin known[u]
                 PROVE  u \in members /\ x = fresh
      OBVIOUS
    <3>1. Sends(To(UsersOf(remote), 0, fresh))
      BY <2>1, <2>2 DEF KeysBecome
    <3>2. PICK p \in To(UsersOf(remote), 0, fresh) : p[1] = u /\ x = p[2].secret
      BY SMT, <3>1, SendsTo
    <3> QED
      BY SMT, <3>2, ToUsers DEF Inv, TypeInv
  <2>5. known' = [u \in Users |-> known'[u]]
    BY <2>1 DEF KeysBecome, Sends
  <2> HIDE DEF fresh
  <2>6. TypeInv'
    <3>1. [pending |-> TRUE, secret |-> fresh, again |-> FALSE] \in Rotations
      BY <1>1 DEF Rotations
    <3>2. known' \in [Users -> SUBSET Secrets]
      BY <1>1, <2>4, <2>5 DEF Inv, TypeInv
    <3>3. UsersOf(remote)' = UsersOf(remote)
      BY <1>4 DEF UsersOf
    <3> QED
      BY SMT, <1>1, <1>4, <2>3, <3>1, <3>2, <3>3 DEF Inv, TypeInv
  <2>7. FreshInv'
    <3>1. \A u \in Users : \A s \in known'[u] : s.root <= keys'.roots
      BY SMT, <1>1, <2>3, <2>4 DEF Inv, TypeInv, FreshInv, Secrets
    <3>2. keys.roots > 0
      BY SMT, <1>1, <1>2 DEF Inv, TypeInv, FreshInv, Secrets
    <3> QED
      BY SMT, <1>1, <1>2, <2>3, <3>1, <3>2 DEF FreshInv
  <2>8. CleanInv'
    <3> SUFFICES ASSUME NEW u \in Users, u \notin members, NEW s \in known'[u]
                 PROVE  s.root # fresh.root
      BY SMT, <1>4, <2>3 DEF CleanInv
    <3>1. s \in known[u]
      BY <2>4
    <3> QED
      BY SMT, <1>1, <3>1 DEF Inv, TypeInv, FreshInv, Secrets
  <2>9. AheadInv'
    <3> SUFFICES ASSUME NEW u \in Users
                 PROVE  /\ first[u] = Unseen => known'[u] = {} /\ u \notin members
                        /\ first[u] # Unseen => Before(first[u], pending)
                        /\ \A s \in known'[u] : Before(first[u], s)
      BY <1>4, <2>3 DEF AheadInv, Before, Unseen, Secret
    <3>1. Before(first[u], keys.sender.secret) => Before(first[u], pending) /\ Before(first[u], fresh)
      BY SMT, <1>1, <1>2 DEF Inv, TypeInv, Before, Secrets
    <3> QED
      BY <2>4, <3>1 DEF Inv, AheadInv
  <2> QED
    BY <2>6, <2>7, <2>8, <2>9 DEF Inv
<1> QED
  BY <1>1, <1>6, <1>7

(* The key in use goes out again, to the users that are seen. *)
LEMMA ResendKeeps ==
  ASSUME Inv, resend_media_keys
  PROVE  Inv'
<1> DEFINE old == keys.sender.secret
           sent == To(UsersOf(remote), keys.sender.counter, old)
           k == [Unsent EXCEPT !.sent = sent]
<1>1. k = [sender |-> keys.sender, rotation |-> keys.rotation, roots |-> keys.roots, sent |-> sent]
  BY SMT DEF Unsent
<1>2. KeysBecome(k) /\ UNCHANGED <<members, remote, first>>
  BY DEF resend_media_keys
<1> HIDE DEF k, sent
<1>3. /\ keys'.sender.secret = old /\ keys'.rotation = keys.rotation /\ keys'.roots = keys.roots
      /\ known' = [u \in Users |-> known'[u]]
  BY <1>1, <1>2 DEF KeysBecome, Sends
<1>4. \A u \in Users : \A x \in known'[u] : x \in known[u] \/ (u \in members /\ x = old)
  <2> SUFFICES ASSUME NEW u \in Users, NEW x \in known'[u], x \notin known[u]
               PROVE  u \in members /\ x = old
    OBVIOUS
  <2>1. PICK p \in sent : p[1] = u /\ x = p[2].secret
    BY SMT, <1>1, <1>2, SendsTo DEF KeysBecome
  <2> QED
    BY SMT, <2>1, ToUsers DEF Inv, TypeInv, sent
<1>5. TypeInv'
  <2>1. known' \in [Users -> SUBSET Secrets]
    BY <1>3, <1>4 DEF Inv, TypeInv
  <2>2. UsersOf(remote)' = UsersOf(remote)
    BY <1>2 DEF UsersOf
  <2> QED
    BY <1>2, <1>3, <2>1, <2>2 DEF Inv, TypeInv
<1>6. FreshInv'
  BY <1>3, <1>4 DEF Inv, FreshInv
<1>7. CleanInv'
  BY <1>2, <1>3, <1>4 DEF Inv, CleanInv
<1>8. AheadInv'
  <2> SUFFICES ASSUME NEW u \in Users
               PROVE  /\ first[u] = Unseen => known'[u] = {} /\ u \notin members
                      /\ first[u] # Unseen => Before(first[u], old)
                      /\ \A s \in known'[u] : Before(first[u], s)
    BY <1>2, <1>3 DEF AheadInv, Before, Unseen, Secret
  <2> QED
    BY <1>4 DEF Inv, AheadInv
<1> QED
  BY <1>5, <1>6, <1>7, <1>8 DEF Inv

(* Nothing else touches what the invariant is about. *)
LEMMA OthersKeep ==
  ASSUME Inv, UNCHANGED <<remote, members, keys, known, first>>
  PROVE  Inv'
<1>1. TypeInv'
  BY DEF Inv, TypeInv, UsersOf
<1>2. FreshInv'
  BY DEF Inv, FreshInv
<1>3. CleanInv'
  BY DEF Inv, CleanInv
<1>4. AheadInv'
  BY DEF Inv, AheadInv
<1> QED
  BY <1>1, <1>2, <1>3, <1>4 DEF Inv

(* The invariant holds at the start and is kept by every step. *)
THEOREM Invariance == Spec => []Inv
<1>1. Init => Inv
  <2> SUFFICES ASSUME Init PROVE Inv
    OBVIOUS
  <2>1. keys.sender.secret = Secret(1) /\ keys.rotation = Applied /\ keys.roots = 1
    BY DEF Init, SenderState
  <2>2. Secret(1) \in Secrets /\ Unseen \in Secrets /\ Secret(1).root = 1
    BY DEF Secret, Secrets, Unseen
  <2>3. Applied \in Rotations /\ ~Applied.pending
    BY <2>2 DEF Applied, Rotations
  <2>4. members = UsersOf(remote) /\ members = {}
    BY DEF Init, UsersOf
  <2>5. \A u \in Users : known[u] = {} /\ first[u] = Unseen
    BY DEF Init
  <2>6. known \in [Users -> SUBSET Secrets] /\ first \in [Users -> Secrets]
    BY <2>2 DEF Init
  <2>7. TypeInv
    BY SMT, <2>1, <2>2, <2>3, <2>4, <2>6 DEF TypeInv
  <2> QED
    BY SMT, <2>1, <2>2, <2>3, <2>4, <2>5, <2>7 DEF Inv, FreshInv, CleanInv, AheadInv
<1>2. Inv /\ [Next]_vars => Inv'
  <2> SUFFICES ASSUME Inv, [Next]_vars PROVE Inv'
    OBVIOUS
  <2>1. CASE Peek
    BY <2>1, PeekKeeps DEF Peek
  <2>2. CASE StalePeek
    BY <2>2, PeekKeeps DEF StalePeek
  <2>3. CASE ApplyNewKey
    BY <2>3, ApplyKeeps
  <2>4. CASE resend_media_keys
    BY <2>4, ResendKeeps
  <2>5. CASE \E d \in Devices : Joins(d) \/ Leaves(d) \/ ReceiverPeeks(d)
    BY <2>5, OthersKeep DEF Joins, Leaves, ReceiverPeeks
  <2>6. CASE \E m \in signaling : KeyArrives(m)
    BY <2>6, OthersKeep DEF KeyArrives
  <2>7. CASE UNCHANGED vars
    BY <2>7, OthersKeep DEF vars
  <2> QED
    BY <2>1, <2>2, <2>3, <2>4, <2>5, <2>6, <2>7 DEF Next
<1> QED
  BY <1>1, <1>2, PTL DEF Spec

(* Once no rotation is pending, no user the client has seen leave can      *)
(* compute the key in use (rotate_media_send_key_and_send_to_users_not_    *)
(* removed and the delayed task), for any members and any peek results.    *)
THEOREM RemovedNeverRead == Spec => []RemovedCannotRead
<1>1. Inv => RemovedCannotRead
  BY DEF Inv, CleanInv, RemovedCannotRead, Knows
<1> QED
  BY <1>1, Invariance, PTL

(* No key sent to a user opens what was sent before the user was seen      *)
(* (advance_media_send_key_and_send_to_users_with_added_devices).          *)
THEOREM PastStaysClosed == Spec => []NoPastMedia
<1>1. Inv => NoPastMedia
  <2> SUFFICES ASSUME Inv, NEW u \in Users, NEW s \in known[u]
               PROVE  s.root > first[u].root \/ (s.root = first[u].root /\ s.steps > first[u].steps)
    BY DEF NoPastMedia
  <2>1. s \in Secrets /\ first[u] \in Secrets /\ Before(first[u], s)
    BY DEF Inv, TypeInv, AheadInv
  <2> QED
    BY <2>1 DEF Before, Secrets
<1> QED
  BY <1>1, Invariance, PTL
=============================================================================
