---------------------------- MODULE MC_CurlMulti ----------------------------
(* Model-checking instance of CurlMulti: three CurlHandle slots (enough for *)
(* a handle, its copy and an unrelated handle, or a handle, a pushed       *)
(* stream and a copy), two multis (a handle added to the wrong multi), and *)
(* the answers of the push callback each configuration lets happen.       *)
EXTENDS CurlMulti, TLC

CONSTANTS h1, h2, h3, m1, m2

MCHandles == {h1, h2, h3}
MCMultis == {m1, m2}
MCPushAccept == {"accept"}
MCPushDeny == {"deny"}
MCPushFail == {"fail"}
\* What the transfer callback function calls: nothing; the calls PHP keeps
\* safe inside a callback, and closing another multi; dropping the handle
\* and closing the multi that runs the callback; fclose of a stream.
MCCallbackNone == {}
MCCallbackSafe == {"unset", "add", "remove", "multi_close", "reset"}
MCCallbackClose == {"unset", "close_running"}
MCCallbackFclose == {"fclose"}

\* Callback kinds with three different abort rules: the write, progress
\* and ssh host key callbacks.
MCKinds == {"write", "progress", "sshhostkey"}
MCKindWrite == {"write"}

Symmetry == Permutations(MCHandles) \cup Permutations(MCMultis)
=============================================================================
