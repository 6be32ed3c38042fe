---------------------------- MODULE MC_SslGlobals ----------------------------
(* Model-checking instance of SslGlobals: two sessions (one opened before  *)
(* and one after a later initialization call), and room for three         *)
(* initialization calls' worth of ex-data indices.                        *)
EXTENDS SslGlobals

CONSTANTS s1, s2

MCSessions == {s1, s2}
=============================================================================
