---------------------------- MODULE SslInitOnce ----------------------------
(***************************************************************************)
(* What the TLS layer promises about its process-wide state (spec section  *)
(* 7, "global mutable TLS initialization flag"): initialization is a       *)
(* one-time, idempotent ensure_initialized() called lazily by the first    *)
(* Security Context build. The ex-data index under which every session     *)
(* stores its Socket is handed out once and never changes, so the          *)
(* handshake callbacks of every open session find their Socket.            *)
(***************************************************************************)
CONSTANTS
  Sessions,   \* TLS sessions (SSL objects)
  Indexes,    \* ex-data indices the library can hand out
  NoIndex     \* no index handed out yet

VARIABLES
  initialized,  \* ensure_initialized() has succeeded (and no destroy since)
  index,        \* the connection index, NoIndex until one is handed out
  ctx,          \* a Security Context has been built
  sess,         \* session: "none", "open" or "closed"
  found,        \* an open session's Socket is found by the callbacks
  phase         \* "run", or "down" once the process released the library

vars == <<initialized, index, ctx, sess, found, phase>>

\* ensure_initialized(): may fail and change nothing; an index is handed
\* out at most once, and initialization holds only with an index.
EnsureInitialized ==
  /\ index' \in IF index = NoIndex THEN Indexes \cup {NoIndex} ELSE {index}
  /\ initialized' \in IF index' = NoIndex THEN {initialized} ELSE {initialized, TRUE}

Ensure ==
  /\ phase = "run"
  /\ EnsureInitialized
  /\ UNCHANGED <<ctx, sess, found, phase>>

\* A Security Context build ensures initialization first.
Build ==
  /\ phase = "run"
  /\ EnsureInitialized
  /\ ctx' = TRUE
  /\ UNCHANGED <<sess, found, phase>>

Open(s) ==
  /\ phase = "run" /\ ctx /\ sess[s] = "none"
  /\ sess' = [sess EXCEPT ![s] = "open"]
  /\ found' = [found EXCEPT ![s] = TRUE]
  /\ UNCHANGED <<initialized, index, ctx, phase>>

Close(s) ==
  /\ phase = "run" /\ sess[s] = "open"
  /\ sess' = [sess EXCEPT ![s] = "closed"]
  /\ found' = [found EXCEPT ![s] = FALSE]
  /\ UNCHANGED <<initialized, index, ctx, phase>>

\* Releasing the library at process end; the index is not reused.
Release ==
  /\ phase = "run"
  /\ initialized' = FALSE /\ phase' = "down"
  /\ UNCHANGED <<index, ctx, sess, found>>

Init ==
  /\ initialized = FALSE
  /\ index = NoIndex
  /\ ctx = FALSE
  /\ sess = [s \in Sessions |-> "none"]
  /\ found = [s \in Sessions |-> FALSE]
  /\ phase = "run"

Next ==
  \/ Ensure \/ Build \/ Release
  \/ \E s \in Sessions : Open(s) \/ Close(s)

Spec == Init /\ [][Next]_vars

=============================================================================
