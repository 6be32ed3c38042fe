--------------------------- MODULE MC_SslContext ---------------------------
(* SslContext instantiated for TLC: which OpenSSL calls may be rejected.    *)
EXTENDS SslContext

\* Every call whose failure create() checks correctly may be rejected.
MCRejectsChecked ==
  {"ctx_new", "chain_file", "key_file", "check_key", "client_locations",
   "client_ca_file", "cipher_list", "dh_file", "dh_read", "dh_set",
   "curves_list"}

\* One rejected call at a time, for the violation runs.
MCRejectsCert == {"cert_file"}
MCRejectsAlpn == {"alpn_protos"}
MCRejectsNone == {}
=============================================================================
