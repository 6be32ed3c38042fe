----------------------------- MODULE SslGlobals -----------------------------
(***************************************************************************)
(* The process-wide OpenSSL state of src/src/protocol/ssl.cc:              *)
(* swoole_ssl_init (the openssl_init flag, OPENSSL_init_ssl and the two    *)
(* SSL ex-data indices), swoole_ssl_destroy, SSLContext::create's call of  *)
(* swoole_ssl_init, and swoole_ssl_info_callback, which every session      *)
(* runs during its handshakes and which reads the session's Socket from    *)
(* ex-data slot ssl_connection_index.                                      *)
(*                                                                         *)
(* The sessions themselves are built outside src/ (Socket::ssl_create):    *)
(* an SSL object made from a context stores its Socket with                *)
(* SSL_set_ex_data(ssl, swoole_ssl_get_ex_connection_index(), socket).     *)
(***************************************************************************)
EXTENDS Integers

CONSTANTS
  Sessions,    \* TLS sessions (SSL objects)
  MayFail,     \* TRUE: OPENSSL_init_ssl and SSL_get_ex_new_index may fail
  FirstIndex,  \* the first SSL ex-data index OpenSSL hands out
  MaxIndex,    \* bound on the ex-data indices OpenSSL hands out
  NoIndex      \* model value of the abstract specification: no index yet

ASSUME MayFail \in BOOLEAN
ASSUME FirstIndex \in Nat \ {0} /\ MaxIndex \in Nat /\ FirstIndex <= MaxIndex

VARIABLES
  openssl_init,          \* the static flag openssl_init
  ssl_connection_index,  \* the static ssl_connection_index (0 at load)
  ssl_port_index,        \* the static ssl_port_index (0 at load)
  next_index,            \* the next index SSL_get_ex_new_index hands out
  libinit,               \* OPENSSL_init_ssl has succeeded
  ctx,                   \* an SSL_CTX has been built
  sess,                  \* session: "none", "open" or "closed"
  exslot,                \* index under which the session stored its Socket, -1: none
  ready,                 \* socket->ssl_state == SW_SSL_STATE_READY
  reneg,                 \* socket->ssl_renegotiation
  bufset,                \* socket->ssl_handshake_buffer_set
  split,                 \* SSL_get_rbio(ssl) != SSL_get_wbio(ssl)
  phase                  \* "run", or "down" once swoole_ssl_destroy ran

vars == <<openssl_init, ssl_connection_index, ssl_port_index, next_index, libinit,
          ctx, sess, exslot, ready, reneg, bufset, split, phase>>

sessionVars == <<sess, exslot, ready, reneg, bufset, split>>

\* Outcomes of a library call that can fail.
Outcomes == IF MayFail THEN BOOLEAN ELSE {TRUE}

\* SSL_get_ex_new_index: the next free index, or -1.
ExNewIndex(ok, i) == IF ok THEN i ELSE -1

-----------------------------------------------------------------------------
(* swoole_ssl_init                                                         *)

\* The body of swoole_ssl_init: it returns at once when openssl_init is set,
\* and at the first failure of OPENSSL_init_ssl or of an index allocation;
\* openssl_init is set only once both indices were allocated.
InitBody ==
  IF openssl_init
  THEN UNCHANGED <<openssl_init, ssl_connection_index, ssl_port_index, next_index, libinit>>
  ELSE \E libOk, connOk, portOk \in Outcomes :
         /\ libinit' = (libinit \/ libOk)
         /\ IF ~libOk
            THEN UNCHANGED <<openssl_init, ssl_connection_index, ssl_port_index, next_index>>
            ELSE /\ ssl_connection_index' = ExNewIndex(connOk, next_index)
                 /\ IF ~connOk
                    THEN UNCHANGED <<openssl_init, ssl_port_index, next_index>>
                    ELSE /\ ssl_port_index' = ExNewIndex(portOk, next_index + 1)
                         /\ next_index' = next_index + (IF portOk THEN 2 ELSE 1)
                         /\ openssl_init' = portOk

\* Every call allocates at most two indices: the bound on them.
IndexRoom == next_index + 2 <= MaxIndex + 1

\* swoole_ssl_init called on its own (server and client start-up).
SslInit ==
  /\ phase = "run" /\ IndexRoom
  /\ InitBody
  /\ UNCHANGED <<ctx, sessionVars, phase>>

\* SSLContext::create: `if (!openssl_init) swoole_ssl_init();` whatever that
\* returns, then SSL_CTX_new, which succeeds once the library is initialized
\* (the rest of create() is module SslContext).
Create ==
  /\ phase = "run" /\ IndexRoom
  /\ InitBody
  /\ ctx' = (ctx \/ libinit')
  /\ UNCHANGED <<sessionVars, phase>>

\* swoole_ssl_destroy, at process shutdown: clears openssl_init and nothing
\* else; no session runs afterwards.
SslDestroy ==
  /\ phase = "run"
  /\ openssl_init' = FALSE
  /\ phase' = "down"
  /\ UNCHANGED <<ssl_connection_index, ssl_port_index, next_index, libinit, ctx, sessionVars>>

-----------------------------------------------------------------------------
(* Sessions and swoole_ssl_info_callback                                   *)

\* SSL_get_ex_data(ssl, ssl_connection_index) returns the session's Socket.
Found(s) == exslot[s] # -1 /\ exslot[s] = ssl_connection_index

\* A socket upgraded to TLS: SSL_new from the context, the Socket stored
\* under the current connection index (SSL_set_ex_data fails for -1), and a
\* buffering BIO on the write side or not.
SessionOpen(s) ==
  /\ phase = "run" /\ ctx /\ sess[s] = "none"
  /\ sess' = [sess EXCEPT ![s] = "open"]
  /\ exslot' = [exslot EXCEPT ![s] = IF ssl_connection_index < 0 THEN -1 ELSE ssl_connection_index]
  /\ \E b \in BOOLEAN : split' = [split EXCEPT ![s] = b]
  /\ UNCHANGED <<openssl_init, ssl_connection_index, ssl_port_index, next_index, libinit,
                 ctx, ready, reneg, bufset, phase>>

\* The handshake of s completes: ssl_state becomes READY.
HandshakeDone(s) ==
  /\ phase = "run" /\ sess[s] = "open" /\ ~ready[s]
  /\ ready' = [ready EXCEPT ![s] = TRUE]
  /\ UNCHANGED <<openssl_init, ssl_connection_index, ssl_port_index, next_index, libinit,
                 ctx, sess, exslot, reneg, bufset, split, phase>>

\* swoole_ssl_info_callback(SSL_CB_HANDSHAKE_START): a handshake starting on
\* a READY session is a renegotiation. The Socket read from ex-data is
\* dereferenced unchecked: without it the process crashes (no step).
InfoHandshakeStart(s) ==
  /\ phase = "run" /\ sess[s] = "open" /\ Found(s)
  /\ reneg' = [reneg EXCEPT ![s] = @ \/ ready[s]]
  /\ UNCHANGED <<openssl_init, ssl_connection_index, ssl_port_index, next_index, libinit,
                 ctx, sess, exslot, ready, bufset, split, phase>>

\* swoole_ssl_info_callback(SSL_CB_ACCEPT_LOOP): the first time the write
\* BIO differs from the read BIO, its buffer is enlarged and the Socket
\* remembers it.
InfoAcceptLoop(s) ==
  /\ phase = "run" /\ sess[s] = "open" /\ Found(s)
  /\ bufset' = [bufset EXCEPT ![s] = @ \/ split[s]]
  /\ UNCHANGED <<openssl_init, ssl_connection_index, ssl_port_index, next_index, libinit,
                 ctx, sess, exslot, ready, reneg, split, phase>>

SessionClose(s) ==
  /\ phase = "run" /\ sess[s] = "open"
  /\ sess' = [sess EXCEPT ![s] = "closed"]
  /\ UNCHANGED <<openssl_init, ssl_connection_index, ssl_port_index, next_index, libinit,
                 ctx, exslot, ready, reneg, bufset, split, phase>>

-----------------------------------------------------------------------------

Init ==
  /\ openssl_init = FALSE
  /\ ssl_connection_index = 0
  /\ ssl_port_index = 0
  /\ next_index = FirstIndex
  /\ libinit = FALSE
  /\ ctx = FALSE
  /\ sess = [s \in Sessions |-> "none"]
  /\ exslot = [s \in Sessions |-> -1]
  /\ ready = [s \in Sessions |-> FALSE]
  /\ reneg = [s \in Sessions |-> FALSE]
  /\ bufset = [s \in Sessions |-> FALSE]
  /\ split = [s \in Sessions |-> FALSE]
  /\ phase = "run"

\* After swoole_ssl_destroy the process has ended.
Ended == phase = "down" /\ UNCHANGED vars

Next ==
  \/ SslInit \/ Create \/ SslDestroy
  \/ \E s \in Sessions : \/ SessionOpen(s) \/ HandshakeDone(s) \/ SessionClose(s)
                         \/ InfoHandshakeStart(s) \/ InfoAcceptLoop(s)
  \/ Ended

Spec == Init /\ [][Next]_vars

-----------------------------------------------------------------------------
(* Refinement                                                              *)

\* The abstract state: the connection index once one was handed out, and
\* which open sessions the callbacks find.
Abs == INSTANCE SslInitOnce
         WITH Indexes <- FirstIndex..MaxIndex,
              initialized <- openssl_init,
              index <- IF ssl_connection_index >= FirstIndex THEN ssl_connection_index ELSE NoIndex,
              found <- [s \in Sessions |-> sess[s] = "open" /\ Found(s)]

\* Spec section 7: swoole_ssl_init, SSLContext::create and
\* swoole_ssl_destroy implement a one-time, idempotent initialization: the
\* connection index is handed out once and never replaced, and every
\* session's handshake callback finds the Socket it stored.
InitializedOnce == Abs!Spec

=============================================================================
