----------------------------- MODULE SslContext -----------------------------
(***************************************************************************)
(* SSLContext::create (src/src/protocol/ssl.cc): building an OpenSSL       *)
(* SSL_CTX from a configuration, one step per block of create(), and the   *)
(* value create() returns.                                                 *)
(*                                                                         *)
(* The configuration is chosen in Init among all configurations; each     *)
(* OpenSSL call the configuration makes is accepted or, for the calls in   *)
(* Rejects, possibly rejected by the library when it is made.  A step runs *)
(* its calls in the order of the code and stops at the first one that     *)
(* fails, returning what the code returns there.  Option setters that      *)
(* cannot fail (SSL_CTX_set_options, set_mode, the protocol mask, the info *)
(* and cookie callbacks, verify depth) change nothing modelled here.       *)
(***************************************************************************)
EXTENDS Integers, Sequences, SequencesExt, FiniteSets

CONSTANTS
  Rejects,     \* OpenSSL calls the library may reject
  PassLens,    \* lengths of the configured passphrase (0: none)
  PemBufSize   \* size of the buffer OpenSSL hands the passphrase callback

\* The OpenSSL calls create() can make, named after the call ("passphrase"
\* stands for OpenSSL obtaining the passphrase through the callback).
Calls == {"ctx_new", "cert_file", "chain_file", "passphrase", "key_file",
          "check_key", "verify_locations", "default_paths", "alpn_protos",
          "client_locations", "client_ca_file", "cipher_list", "dh_file",
          "dh_read", "dh_set", "curves_list"}

ASSUME Rejects \subseteq Calls \ {"passphrase"}
ASSUME PassLens \subseteq Nat /\ PemBufSize \in Nat \ {0}

\* The members of SSLContext that create() reads.
Configs == [cert : BOOLEAN, key : BOOLEAN, passlen : PassLens,
            verify_peer : BOOLEAN, ca : BOOLEAN, alpn : BOOLEAN,
            client : BOOLEAN, ciphers : BOOLEAN, dhparam : BOOLEAN,
            ecdh : {"none", "auto", "list"}]

\* The blocks of create(), in order; "ret" is its final `return true`.
Order == <<"new", "cert", "key", "ca", "alpn", "client", "ciphers", "ret">>
Done == Len(Order) + 1

VARIABLES
  conf,      \* the configuration being built
  pc,        \* index in Order of the next block, Done once create returned
  result,    \* the value create() returned
  accepted,  \* calls the library accepted
  rejected   \* calls the library rejected

vars == <<conf, pc, result, accepted, rejected>>

-----------------------------------------------------------------------------
(* Helpers                                                                 *)

At(s) == pc <= Len(Order) /\ Order[pc] = s

Advance == pc' = pc + 1

Return(r) == result' = r /\ pc' = Done

\* ssl_passwd_callback: the configured passphrase if it is shorter than
\* num - 1, else 0.
PasswdCallback(len, num) == IF len > 0 /\ len < num - 1 THEN len ELSE 0

\* Reference: the passphrase fits a buffer of num bytes with its terminator.
PassphraseFits(len, num) == len > 0 /\ len <= num - 1

\* set_dhparam: open the file, read the parameters, install them.
DhparamCalls == <<"dh_file", "dh_read", "dh_set">>

\* set_ecdh_curve: "auto" returns before any call that can fail.
EcdhCalls(curve) == IF curve = "list" THEN <<"curves_list">> ELSE <<>>

\* set_ciphers: the calls the configuration makes, in order; the
\* server-preference option cannot fail.
CipherCalls ==
  (IF conf.ciphers THEN <<"cipher_list">> ELSE <<>>)
  \o (IF conf.dhparam THEN DhparamCalls ELSE <<>>)
  \o (IF conf.ecdh = "none" THEN <<>> ELSE EcdhCalls(conf.ecdh))

\* set_capath: the CA file or path if one is configured, else the default
\* verify paths.
CapathCall(c) == IF c.ca THEN "verify_locations" ELSE "default_paths"

\* Every call a configuration asks for.
Configured ==
  {"ctx_new"}
  \cup (IF conf.cert THEN {"cert_file", "chain_file"} ELSE {})
  \cup (IF conf.key THEN {"key_file", "check_key"} ELSE {})
  \cup (IF conf.key /\ conf.passlen > 0 THEN {"passphrase"} ELSE {})
  \cup (IF conf.ca THEN {"verify_locations"}
        ELSE IF conf.verify_peer THEN {"default_paths"} ELSE {})
  \cup (IF conf.alpn THEN {"alpn_protos"} ELSE {})
  \cup (IF conf.client THEN {"client_locations", "client_ca_file"} ELSE {})
  \cup ToSet(CipherCalls)

\* Mutant of RunCalls: a rejected call is logged and the block goes on.
RunCallsUnchecked(calls, onFail) ==
  /\ \E i \in 0..Len(calls) :
       /\ \A j \in 1..i : calls[j] \in Rejects
       /\ accepted' = accepted \cup (ToSet(calls) \ ToSet(SubSeq(calls, 1, i)))
       /\ rejected' = rejected \cup ToSet(SubSeq(calls, 1, i))
  /\ Advance /\ UNCHANGED result

\* A block makes its calls in order and returns onFail[c] at the first call c
\* the library rejects; when all are accepted control goes to the next block.
RunCalls(calls, onFail) ==
  \/ /\ accepted' = accepted \cup ToSet(calls)
     /\ Advance /\ UNCHANGED <<result, rejected>>
  \/ \E i \in 1..Len(calls) :
       /\ calls[i] \in Rejects
       /\ accepted' = accepted \cup ToSet(SubSeq(calls, 1, i - 1))
       /\ rejected' = rejected \cup {calls[i]}
       /\ Return(onFail[calls[i]])

AllFalse == [c \in Calls |-> FALSE]

-----------------------------------------------------------------------------
(* The blocks of SSLContext::create                                        *)

\* SSL_CTX_new; the options and protocol mask that follow cannot fail.
CtxNew ==
  /\ At("new")
  /\ RunCalls(<<"ctx_new">>, AllFalse)
  /\ UNCHANGED conf

\* The certificate file, then the chain from the same file. A rejected
\* certificate file makes create() return true.
UseCertificate ==
  /\ At("cert")
  /\ RunCalls(IF conf.cert THEN <<"cert_file", "chain_file">> ELSE <<>>,
              [AllFalse EXCEPT !["cert_file"] = TRUE])
  /\ UNCHANGED conf

\* The private key, decrypted with the passphrase the callback supplies,
\* then SSL_CTX_check_private_key. A passphrase the callback does not hand
\* over leaves the key undecryptable; one too long for the buffer is an
\* error OpenSSL reports.
UsePrivateKey ==
  /\ At("key")
  /\ LET len == IF conf.key THEN conf.passlen ELSE 0
         supplied == len = 0 \/ PasswdCallback(len, PemBufSize) = len
     IN \/ /\ supplied
           /\ RunCalls(IF ~conf.key THEN <<>>
                       ELSE IF len > 0 THEN <<"passphrase", "key_file", "check_key">>
                       ELSE <<"key_file", "check_key">>, AllFalse)
        \/ /\ ~supplied
           /\ rejected' = IF PassphraseFits(len, PemBufSize) THEN rejected
                          ELSE rejected \cup {"passphrase"}
           /\ Return(FALSE)
           /\ UNCHANGED accepted
  /\ UNCHANGED conf

\* set_capath (CA file/path, else the default paths); its failure fails
\* create() only when verify_peer is set.
SetCapath ==
  /\ At("ca")
  /\ LET call == CapathCall(conf)
     IN \E ok \in IF call \in Rejects THEN BOOLEAN ELSE {TRUE} :
          /\ accepted' = IF ok THEN accepted \cup {call} ELSE accepted
          /\ rejected' = IF ok THEN rejected ELSE rejected \cup {call}
          /\ IF conf.verify_peer /\ ~ok THEN Return(FALSE)
             ELSE Advance /\ UNCHANGED result
  /\ UNCHANGED conf

\* SSL_CTX_set_alpn_protos returns 0 on success and 1 on failure; create()
\* treats a negative value as failure.
SetAlpn ==
  /\ At("alpn")
  /\ IF ~conf.alpn
     THEN Advance /\ UNCHANGED <<result, accepted, rejected>>
     ELSE \E ok \in IF "alpn_protos" \in Rejects THEN BOOLEAN ELSE {TRUE} :
            LET rc == IF ok THEN 0 ELSE 1
            IN /\ accepted' = IF ok THEN accepted \cup {"alpn_protos"} ELSE accepted
               /\ rejected' = IF ok THEN rejected ELSE rejected \cup {"alpn_protos"}
               /\ IF rc < 0 THEN Return(FALSE) ELSE Advance /\ UNCHANGED result
  /\ UNCHANGED conf

\* set_client_certificate: the client CA locations, then the CA name list.
SetClientCertificate ==
  /\ At("client")
  /\ RunCalls(IF conf.client THEN <<"client_locations", "client_ca_file">> ELSE <<>>,
              AllFalse)
  /\ UNCHANGED conf

\* create() returns false when set_ciphers fails.
SetCiphers ==
  /\ At("ciphers")
  /\ RunCalls(CipherCalls, AllFalse)
  /\ UNCHANGED conf

ReturnTrue ==
  /\ At("ret")
  /\ Return(TRUE)
  /\ UNCHANGED <<conf, accepted, rejected>>

\* create() has returned.
Finished == pc = Done /\ UNCHANGED vars

Init ==
  /\ conf \in Configs
  /\ pc = 1
  /\ result = FALSE
  /\ accepted = {}
  /\ rejected = {}

Next ==
  \/ CtxNew \/ UseCertificate \/ UsePrivateKey \/ SetCapath \/ SetAlpn
  \/ SetClientCertificate \/ SetCiphers \/ ReturnTrue
  \/ Finished

Spec == Init /\ [][Next]_vars

-----------------------------------------------------------------------------
(* Properties                                                              *)

\* Spec sections 4.1 and 6: create() succeeds iff every option the
\* configuration asks for is accepted by OpenSSL, and fails only because
\* one of them was rejected.
CreateReportsEveryFailure ==
  pc = Done =>
    /\ result => Configured \subseteq accepted
    /\ ~result => rejected \cap Configured # {}

=============================================================================
