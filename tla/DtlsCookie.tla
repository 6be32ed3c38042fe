----------------------------- MODULE DtlsCookie -----------------------------
(***************************************************************************)
(* The DTLS cookie callbacks of src/src/protocol/ssl.cc:                   *)
(* swoole_ssl_generate_cookie and swoole_ssl_verify_cookie, with           *)
(* calculate_cookie filling the stack secret the HMAC is keyed with.       *)
(*                                                                         *)
(* A server answers ClientHellos of peers with cookies and later verifies  *)
(* the cookies peers send back (their own, or one seen from another peer). *)
(* verify_cookie recomputes the cookie by calling generate_cookie again,   *)
(* in a new stack frame: the secret's address, and the bytes on the stack  *)
(* that calculate_cookie leaves unwritten, are chosen again at each call.  *)
(* HMAC is abstracted to the record of its key and message, so two         *)
(* cookies are equal exactly when both are.                                *)
(***************************************************************************)
EXTENDS Integers, FiniteSets

CONSTANTS
  LongSize,     \* sizeof(long)
  SecretLen,    \* COOKIE_SECRET_LENGTH
  Alignments,   \* possible values of the secret's address modulo LongSize
  StackBytes,   \* possible contents of a stack byte nobody wrote
  Peers,        \* peer addresses: records [addr, port]
  NoVerdict     \* last before any verify_cookie call

ASSUME LongSize \in Nat \ {0} /\ SecretLen \in Nat \ {0}
ASSUME Alignments \subseteq 0..(LongSize - 1)
ASSUME "rv" \in StackBytes

VARIABLES
  issued,    \* issued[p]: the cookies generate_cookie handed out for peer p
  last       \* the latest verify_cookie call: peer, cookie, result

vars == <<issued, last>>

-----------------------------------------------------------------------------
(* calculate_cookie                                                        *)

\* Mutant of Inum: one long fewer than the code computes.
InumShort(a) == (SecretLen - (a % LongSize)) \div LongSize - 1

\* The number of longs calculate_cookie writes into a secret at an address
\* whose remainder modulo sizeof(long) is a.
Inum(a) == (SecretLen - (a % LongSize)) \div LongSize

\* The secret after calculate_cookie: the first Inum(a) longs, written from
\* the secret's start, hold the bytes of the SSL pointer ("rv"); the other
\* bytes keep the stack contents g.
CalculateCookie(a, g) ==
  [i \in 1..SecretLen |-> IF i <= Inum(a) * LongSize THEN "rv" ELSE g[i]]

\* Mutant of CookieOf: the HMAC message holds only the peer's port.
CookieOfPortOnly(secret, peer) == [key |-> secret, msg |-> peer.port]

\* HMAC(secret, port . address): the message copies the peer's port and
\* then its address.
CookieOf(secret, peer) == [key |-> secret, msg |-> <<peer.port, peer.addr>>]

\* swoole_ssl_generate_cookie for peer p in a frame whose secret has
\* alignment a and stack contents g, when OPENSSL_malloc succeeds (when it
\* fails the callback returns 0 and no cookie).
GenerateCookie(p, a, g) == CookieOf(CalculateCookie(a, g), p)

\* Stack contents for the secret's bytes.
Stacks == [1..SecretLen -> StackBytes]

-----------------------------------------------------------------------------
(* The callbacks                                                           *)

\* OpenSSL asks for a cookie for peer p (HelloVerifyRequest); a failed
\* allocation hands out none.
Generate(p) ==
  \E a \in Alignments, g \in Stacks, alloc \in BOOLEAN :
    /\ issued' = IF alloc THEN [issued EXCEPT ![p] = @ \cup {GenerateCookie(p, a, g)}]
                 ELSE issued
    /\ UNCHANGED last

\* Peer p returns a cookie issued to some peer q (its own, or a replay of
\* another's); swoole_ssl_verify_cookie regenerates the cookie for p and
\* compares length and bytes; when allocation fails the regenerated length
\* stays 0 and differs from any cookie's.
Verify(p) ==
  \E q \in Peers, a \in Alignments, g \in Stacks, alloc \in BOOLEAN :
    \E c \in issued[q] :
      /\ last' = [peer |-> p, cookie |-> c, alloc |-> alloc,
                  ok |-> alloc /\ GenerateCookie(p, a, g) = c]
      /\ UNCHANGED issued

Init ==
  /\ issued = [p \in Peers |-> {}]
  /\ last = NoVerdict

Next == \E p \in Peers : Generate(p) \/ Verify(p)

Spec == Init /\ [][Next]_vars

-----------------------------------------------------------------------------
(* Properties                                                              *)

\* calculate_cookie fills the whole secret, so the cookie verify_cookie
\* recomputes for a peer equals the one generate_cookie issued to it: a
\* peer returning its own cookie is accepted unless allocation failed.
GenuineCookieAccepted ==
  last # NoVerdict /\ last.alloc /\ last.cookie \in issued[last.peer] => last.ok

\* verify_cookie accepts a cookie only from the peer it was issued to: a
\* cookie replayed from another address or port is rejected.
CookieBindsPeer ==
  last # NoVerdict /\ last.ok => last.cookie \in issued[last.peer]

=============================================================================
