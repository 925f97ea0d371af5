----------------------------- MODULE RootKeys -----------------------------
(***************************************************************************)
(* The root key of a call link (lite/call_links/root_key.rs) and the text  *)
(* form users see (lite/call_links/base16.rs).                             *)
(*                                                                         *)
(* Version 0 is the random part (crn) alone.  Version 1 adds a version     *)
(* byte, whose high bit marks a key the server has not confirmed, and the  *)
(* server's epoch.  A crn is a sequence of CrnLen bytes, an epoch a        *)
(* sequence of 4.  A text is a sequence of digits 0..15 and Dash.          *)
(***************************************************************************)
EXTENDS Integers, Sequences, FiniteSetsExt

CONSTANTS CrnLen,  \* CRN_LEN, 16 in the code
          Dash     \* the separator

VERSION == 1
INVALID_BIT == 128
NoEpoch == <<0, 0, 0, 0>>

V0(crn) == [version |-> 0, crn |-> crn]
V1(crn, tag, epoch) == [version |-> 1, crn |-> crn, tag |-> tag, epoch |-> epoch]
without_epoch(crn) == V1(crn, VERSION + INVALID_BIT, NoEpoch)
with_epoch(crn, epoch) == V1(crn, VERSION, epoch)

is_valid(key) == key.version = 0 \/ key.tag < INVALID_BIT

\* Checks if an even-odd pair of bytes is the same hexadecimal digit 4 times.
has_repeated_chunk(bytes) ==
  \E i \in 1 .. Len(bytes) \div 2 : (bytes[2 * i - 1] + 256 * bytes[2 * i]) % 4369 = 0

\* The key the server's answer to a creation makes of an unconfirmed one;
\* `epoch' is << >> when the server gives none.
process_server_response(key, epoch) ==
  IF is_valid(key) THEN key
  ELSE IF epoch = << >> THEN V0(key.crn) ELSE with_epoch(key.crn, epoch)

NoEpochHeader(key) == << >>

\* The epoch a request carries, << >> when none (prepare_http_headers).
epoch_header(key) == IF key.version = 1 /\ is_valid(key) THEN key.epoch ELSE << >>

\* encrypt and decrypt of the link's name: make_cipher derives a key from
\* the crn under a label of the version's own.
encrypt(key, name) == [version |-> key.version, crn |-> key.crn, name |-> name]
CanDecrypt(key, c) == c.version = key.version /\ c.crn = key.crn

-----------------------------------------------------------------------------
\* Display of ConsonantBase16 with a precision: two digits for each byte and
\* a separator every `chunk' bytes.
ConsonantBase16(bytes, chunk) ==
  LET text[n \in 0 .. Len(bytes)] ==
        IF n = 0 THEN << >>
        ELSE text[n - 1]
             \o (IF n > 1 /\ (n - 1) % chunk = 0 THEN <<Dash>> ELSE << >>)
             \o <<bytes[n] \div 16, bytes[n] % 16>>
  IN text[Len(bytes)]

Bad == << -1 >>

to_formatted_string(key) ==
  IF key.version = 0 THEN ConsonantBase16(key.crn, 2)
  ELSE ConsonantBase16(key.crn, 4) \o <<Dash>> \o ConsonantBase16(<<key.tag>>, 1)
       \o <<Dash>> \o ConsonantBase16(key.epoch, 4)

\* parse_with_separators: from position p, with `left' bytes until the next
\* separator and the chunk sizes from the c-th on still to come.  When the
\* sizes are used up at a separator the loop breaks, whatever follows.
parse_with_separators(text, sizes) ==
  LET Run[p \in 1 .. Len(text) + 1, left \in 0 .. Max({sizes[i] : i \in DOMAIN sizes}),
          c \in 2 .. Len(sizes) + 1] ==
        IF p > Len(text) THEN << >>
        ELSE IF left = 0
        THEN IF text[p] # Dash \/ p = Len(text) THEN Bad
             ELSE IF c > Len(sizes) THEN << >> ELSE Run[p + 1, sizes[c], c + 1]
        ELSE IF text[p] = Dash \/ p = Len(text) \/ text[p + 1] = Dash THEN Bad
        ELSE LET rest == Run[p + 2, left - 1, c] IN
             IF rest = Bad THEN Bad ELSE <<16 * text[p] + text[p + 1]>> \o rest
  IN Run[1, sizes[1], 2]

Failed == [version |-> -1]

ParseV0(text) ==
  LET b == parse_with_separators(text, [i \in 1 .. CrnLen \div 2 |-> 2]) IN
  IF b = Bad \/ Len(b) # CrnLen \/ has_repeated_chunk(b) THEN Failed ELSE V0(b)

ParseV1AsV0(text) ==
  LET b == parse_with_separators(text, [i \in 1 .. CrnLen \div 4 |-> 4] \o <<1, 4>>) IN
  IF b = Bad \/ Len(b) < CrnLen THEN Failed ELSE V0(SubSeq(b, 1, CrnLen))

ParseV1(text) ==
  LET b == parse_with_separators(text, [i \in 1 .. CrnLen \div 4 |-> 4] \o <<1, 4>>)
      crn == SubSeq(b, 1, CrnLen) IN
  IF b = Bad \/ Len(b) # CrnLen + 5 \/ b[CrnLen + 1] % INVALID_BIT # VERSION
     \/ has_repeated_chunk(crn) THEN Failed
  ELSE V1(crn, b[CrnLen + 1], SubSeq(b, CrnLen + 2, CrnLen + 5))

\* TryFrom<&str> for CallLinkRootKey
Parse(text) == IF ParseV0(text) # Failed THEN ParseV0(text) ELSE ParseV1(text)

=============================================================================
