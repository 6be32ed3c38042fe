----------------------------- MODULE CurlMulti -----------------------------
(***************************************************************************)
(* The coroutine curl binding: CurlHandle objects (php_curl, interface.cc) *)
(* and CurlMultiHandle objects (php_curlm, multi.cc), their native easy    *)
(* handles, the swoole::curl::Handle attached to every easy handle, the    *)
(* engine (libcurl multi) registration table behind every Multi, and the   *)
(* shared clone counter and to_free lists of cloned handles.               *)
(*                                                                         *)
(* A native easy handle is identified with the CurlHandle slot that first  *)
(* owned it: curl_init and curl_copy_handle always obtain a fresh CURL*.   *)
(*                                                                         *)
(* PHP frees an object synchronously when its reference count drops to 0. *)
(* A call that drops references (remove, close, unset) leaves the freed    *)
(* objects to FreeHandle steps, and no other call can start before they    *)
(* have run (guard Quiescent), so the destructor cascade completes inside  *)
(* the call that started it, in some order of the list.                    *)
(***************************************************************************)
EXTENDS Integers, Sequences, SequencesExt, FiniteSets

CONSTANTS
  Handles,   \* CurlHandle object slots (and the native easy handle each owns)
  Multis,    \* CurlMultiHandle object slots
  NULL,      \* model value: no easy handle, no Multi, no counter cell
  PHP82,     \* TRUE: the PHP_VERSION_ID >= 80200 branches are compiled in
  MaxRefs,   \* bound on the script's references to one CurlHandle
  MaxList,   \* bound on the length of one easyh list
  PushAnswers, \* outcomes of calling the CURLMOPT_PUSHFUNCTION callback
  CallbackCalls, \* what the script's transfer callback function may call
  CallbackKinds, \* the transfer callbacks libcurl may call with a user function
  HeaderOutValues, \* values the script passes for CURLINFO_HEADER_OUT
  Streams,   \* PHP file streams the script has opened for writing
  MaxWriters \* bound on the CurlHandles the script gives a write stream

ASSUME NULL \notin Handles \cup Multis
ASSUME PHP82 \in BOOLEAN
ASSUME MaxRefs \in Nat \ {0} /\ MaxList \in Nat \ {0}
ASSUME PushAnswers \subseteq {"accept", "deny", "fail"}
ASSUME CallbackCalls \subseteq {"unset", "add", "remove", "multi_close", "close_running", "reset", "fclose"}
ASSUME NULL \notin Streams
ASSUME MaxWriters \in Nat
ASSUME HeaderOutValues \subseteq BOOLEAN
ASSUME CallbackKinds \subseteq {"write", "header", "read", "progress", "xferinfo", "fnmatch", "sshhostkey"}

\* CURLMcode values returned by the multi calls.
CURLM_OK == 0
CURLM_BAD_EASY_HANDLE == 2
CURLM_INTERNAL_ERROR == 4
CURLM_ADDED_ALREADY == 7
CURLM_RECURSIVE_API_CALL == 8

VARIABLES
  obj,      \* php_curl object: "unused", "live" or "freed"
  uref,     \* references to the CurlHandle held by the script
  cp,       \* ch->cp: the native easy handle, or NULL
  clone,    \* ch->clone: the shared counter cell (a slot), or NULL
  counter,  \* value of every counter cell
  to_free,  \* ch->to_free cell of every slot: "none", "alloc" or "freed"
  native,   \* native easy handle: "none", "alive" or "cleaned"
  swh,      \* swoole::curl::Handle of an easy handle: "none", "live", "destroyed"
  hmulti,   \* Handle::multi: the Multi the swoole Handle is attached to, or NULL
  mobj,     \* php_curlm object: "unused", "live" or "freed"
  muref,    \* TRUE while the script holds the CurlMultiHandle
  easyh,    \* mh->easyh: the zvals of the CurlHandles added to the multi
  engine,   \* easy handles registered in the Multi's libcurl multi handle
  msgs,     \* easy handles with a completion message queued in the libcurl multi
  done,     \* the transfer of an easy handle has completed
  phase,    \* "run" while the script runs, "shutdown" once the request ends
  push,     \* mh->handlers.server_push is installed
  lost,     \* references held by zvals nobody will ever release
  cb,       \* NULL, or the transfer callback libcurl is running: multi m,
            \* easy e, CurlHandle h (the ctx), st "in" while the script's
            \* function runs and "out" once it has returned into the fn_
            \* callback, abort: the value it returns stops the transfer
  dbg,      \* CURLOPT_DEBUGDATA of an easy handle: the php_curl curl_debug
            \* receives as ctx, or NULL when CURLINFO_HEADER_OUT is off
  wfile,    \* handlers.write->stream of a CurlHandle (write->fp is its FILE*,
            \* method PHP_CURL_FILE), or NULL (method PHP_CURL_STDOUT)
  sopen     \* the streams the script has not closed with fclose()

vars == <<obj, uref, cp, clone, counter, to_free, native, swh, hmulti,
          mobj, muref, easyh, engine, msgs, done, phase, push, lost, cb, dbg,
          wfile, sopen>>

-----------------------------------------------------------------------------
(* Helpers                                                                 *)

\* References to h held by the easyh lists (Z_ADDREF on add).
ListRefs(h) == MapThenSumSet(LAMBDA m : Cardinality({i \in 1..Len(easyh[m]) : easyh[m][i] = h}), Multis)

\* libcurl is inside a callback of multi m (multi->in_callback): from the
\* moment it calls the callback until fn_write returns to it.
Performing(m) == cb # NULL /\ cb.m = m

\* ch->in_callback: the script's function runs as a callback of h.
InCallback(h) == cb # NULL /\ cb.h = h /\ cb.st = "in"

\* The reference GC_ADDREF(&ch->std) takes for argv[0] during the call.
CallbackRef(h) == IF InCallback(h) THEN 1 ELSE 0

RefCount(h) == uref[h] + ListRefs(h) + lost[h] + CallbackRef(h)

\* No object is waiting for its destructor: the next PHP call may start.
Quiescent == \A h \in Handles : obj[h] = "live" => RefCount(h) > 0

\* swoole::curl::get_handle(cp): the Handle stored in the easy handle, or NULL.
GetHandle(e) == IF e # NULL /\ swh[e] = "live" THEN e ELSE NULL

\* The Multi whose libcurl multi handle tracks easy e, or NULL.
EngineOf(e) == IF \E m \in Multis : e \in engine[m]
               THEN CHOOSE m \in Multis : e \in engine[m] ELSE NULL

\* curl_multi_remove_handle / Multi::remove_handle result: removing an easy
\* handle that is in no multi is a success, one of another multi is refused,
\* and so is any removal from a multi that is inside a callback.
RemoveResult(m, e) == CASE EngineOf(e) = NULL -> CURLM_OK
                        [] EngineOf(e) # m -> CURLM_BAD_EASY_HANDLE
                        [] Performing(m) -> CURLM_RECURSIVE_API_CALL
                        [] OTHER -> CURLM_OK

\* Multi::add_handle result.
AddResult(m, e) == CASE GetHandle(e) = NULL -> CURLM_INTERNAL_ERROR
                     [] Performing(m) -> CURLM_RECURSIVE_API_CALL
                     [] EngineOf(e) # NULL -> CURLM_ADDED_ALREADY
                     [] OTHER -> CURLM_OK

\* Removing the easy handles ES from Multi m: the engine stops tracking them
\* and drops their pending messages; when the removal goes through the
\* swoole Handle (viaHandle) its multi pointer is reset.
DetachEngine(m, ES) ==
  /\ engine' = [engine EXCEPT ![m] = @ \ ES]
  /\ msgs' = [msgs EXCEPT ![m] = SelectSeq(@, LAMBDA x : x \notin ES)]

DetachHandles(m, ES) ==
  hmulti' = [e \in Handles |-> IF e \in ES /\ e \in engine[m] THEN NULL ELSE hmulti[e]]

\* _php_curl_multi_find_easy_handle: the first CurlHandle of easyh whose cp is e.
FindEasyHandle(m, e) ==
  LET i == SelectInSeq(easyh[m], LAMBDA h : cp[h] = e)
  IN IF i = 0 THEN NULL ELSE easyh[m][i]

\* swoole_curl_verify_handlers on the CurlHandles H: a write stream that
\* has gone away (fclose) is released and the handle writes to stdout.
\* (CURLOPT_FILE is the only write target modelled: a handle with a write
\* stream has method PHP_CURL_FILE.)
VerifyHandlers(H) ==
  [h \in Handles |-> IF h \in H /\ wfile[h] \notin sopen THEN NULL ELSE wfile[h]]

\* Mutant of ExecVerify: curl_multi_exec goes straight to curl_multi_perform.
ExecVerifySkipped(m) == wfile

\* The loop curl_multi_exec runs over easyh before curl_multi_perform.
ExecVerify(m) == VerifyHandlers(ToSet(easyh[m]))

-----------------------------------------------------------------------------
(* CurlHandle operations (interface.cc)                                   *)

\* curl_init(): a new handle with a fresh easy handle, its own clone counter
\* and to_free lists, and a swoole Handle. A URL that is rejected destroys
\* the new object before it is returned.
CurlInit(h) ==
  /\ obj[h] = "unused"
  /\ \E urlOk \in BOOLEAN :
       uref' = [uref EXCEPT ![h] = IF urlOk THEN 1 ELSE 0]
  /\ obj' = [obj EXCEPT ![h] = "live"]
  /\ cp' = [cp EXCEPT ![h] = h]
  /\ clone' = [clone EXCEPT ![h] = h]
  /\ counter' = [counter EXCEPT ![h] = 1]
  /\ to_free' = [to_free EXCEPT ![h] = "alloc"]
  /\ native' = [native EXCEPT ![h] = "alive"]
  /\ swh' = [swh EXCEPT ![h] = "live"]
  /\ dbg' = [dbg EXCEPT ![h] = NULL]
  /\ wfile' = [wfile EXCEPT ![h] = NULL]
  /\ UNCHANGED <<hmulti, mobj, muref, easyh, engine, msgs, done, phase, push, lost, sopen>>

\* Mutant of CopyHandlers: the copy shares the counter without counting itself.
CopyHandlersUncounted(c, h) ==
  /\ clone' = [clone EXCEPT ![c] = clone[h]]
  /\ UNCHANGED counter

\* swoole_setup_easy_copy_handlers: the copy drops the to_free lists and the
\* counter that swoole_curl_init_handle gave it, shares the source's, and
\* increments the shared counter.
CopyHandlers(c, h) ==
  /\ clone' = [clone EXCEPT ![c] = clone[h]]
  /\ counter' = [counter EXCEPT ![clone[h]] = @ + 1]

\* curl_copy_handle() / clone: curl_easy_duphandle gives a fresh easy handle
\* with the source's options, CURLOPT_DEBUGDATA included, that gets its own
\* swoole Handle. When it fails, the new object without an
\* easy handle comes back with an exception, so the script never holds it
\* and its destructor runs at once.
CopyHandle(h, c) ==
  /\ obj[h] = "live" /\ uref[h] > 0 /\ cp[h] # NULL
  /\ obj[c] = "unused"
  /\ obj' = [obj EXCEPT ![c] = "live"]
  /\ \/ /\ uref' = [uref EXCEPT ![c] = 1]
        /\ cp' = [cp EXCEPT ![c] = c]
        /\ CopyHandlers(c, h)
        /\ native' = [native EXCEPT ![c] = "alive"]
        /\ swh' = [swh EXCEPT ![c] = "live"]
        /\ dbg' = [dbg EXCEPT ![c] = dbg[cp[h]]]
        /\ wfile' = [wfile EXCEPT ![c] = wfile[h]]
     \/ /\ UNCHANGED <<uref, cp, clone, counter, native, swh, dbg, wfile>>
  /\ UNCHANGED <<to_free, hmulti, mobj, muref, easyh, engine, msgs, done, phase, push, lost,
                 sopen>>

\* The script drops one of its references to a CurlHandle.
DropRef(h) ==
  /\ obj[h] = "live" /\ uref[h] > 0
  /\ uref' = [uref EXCEPT ![h] = @ - 1]
  /\ UNCHANGED <<obj, cp, clone, counter, to_free, native, swh, hmulti,
                 mobj, muref, easyh, engine, msgs, done, phase, push, lost, dbg,
                 wfile, sopen>>

\* curl_setopt($ch, CURLINFO_HEADER_OUT, on): installs curl_debug with the
\* handle itself as CURLOPT_DEBUGDATA (and turns VERBOSE on), or removes both.
CurlSetoptHeaderOut(h) ==
  /\ obj[h] = "live" /\ uref[h] > 0 /\ cp[h] # NULL
  /\ \E on \in HeaderOutValues : dbg' = [dbg EXCEPT ![cp[h]] = IF on THEN h ELSE NULL]
  /\ UNCHANGED <<obj, uref, cp, clone, counter, to_free, native, swh, hmulti,
                 mobj, muref, easyh, engine, msgs, done, phase, push, lost, wfile, sopen>>

\* curl_reset(): refused with a warning while the handle's own callback
\* function runs; otherwise curl_easy_reset returns every libcurl option to
\* its default (no CURLOPT_DEBUGDATA), _php_curl_reset_handlers releases the
\* write stream (method PHP_CURL_STDOUT), and the default options are set
\* again.
CurlReset(h) ==
  /\ obj[h] = "live" /\ uref[h] > 0 /\ cp[h] # NULL
  /\ dbg' = IF InCallback(h) THEN dbg ELSE [dbg EXCEPT ![cp[h]] = NULL]
  /\ wfile' = IF InCallback(h) THEN wfile ELSE [wfile EXCEPT ![h] = NULL]
  /\ UNCHANGED <<obj, uref, cp, clone, counter, to_free, native, swh, hmulti,
                 mobj, muref, easyh, engine, msgs, done, phase, push, lost, sopen>>

\* curl_setopt($ch, CURLOPT_FILE, $fp): a stream that has gone away is
\* refused (FAILURE, nothing changes); an open writable one replaces the
\* write stream (ZVAL_COPY) and its FILE* becomes write->fp; NULL releases
\* the stream and writes go to stdout again.
CurlSetoptFile(h) ==
  /\ obj[h] = "live" /\ uref[h] > 0
  /\ wfile[h] # NULL \/ Cardinality({x \in Handles : wfile[x] # NULL}) < MaxWriters
  /\ \E s \in Streams \cup {NULL} :
       wfile' = IF s = NULL \/ s \in sopen THEN [wfile EXCEPT ![h] = s] ELSE wfile
  /\ UNCHANGED <<obj, uref, cp, clone, counter, to_free, native, swh, hmulti,
                 mobj, muref, easyh, engine, msgs, done, phase, push, lost, dbg, sopen>>

\* The script calls fclose() on a stream: the resource is closed whatever
\* references the handlers still hold, and its FILE* with it.
FClose ==
  /\ \E s \in sopen : sopen' = sopen \ {s}
  /\ UNCHANGED <<obj, uref, cp, clone, counter, to_free, native, swh, hmulti,
                 mobj, muref, easyh, engine, msgs, done, phase, push, lost, dbg, wfile>>

\* Mutant of DetachOnFree: the easy handle is cleaned up while still
\* registered in its multi.
DetachOnFreeSkipped(e) == UNCHANGED <<engine, msgs, hmulti>>

\* _php_curl_free: a handle whose swoole Handle is attached to a multi is
\* removed from it through the Handle; libcurl refuses the removal while
\* that multi is inside a callback, and the easy handle stays registered.
DetachOnFree(e) ==
  LET m == IF GetHandle(e) # NULL THEN hmulti[e] ELSE NULL
  IN IF m # NULL /\ RemoveResult(m, e) # CURLM_RECURSIVE_API_CALL
     THEN /\ DetachEngine(m, {e})
          /\ hmulti' = [hmulti EXCEPT ![e] = NULL]
     ELSE UNCHANGED <<engine, msgs, hmulti>>

\* swoole_curl_free_obj / _php_curl_free: detach from the multi the Handle
\* points to, decrement the shared counter and, for the last copy, release
\* the to_free lists and destroy the swoole Handle; clean up the easy handle.
\* A handle without an easy handle is only destroyed.
CurlFree(h) ==
  /\ obj' = [obj EXCEPT ![h] = "freed"]
  /\ IF cp[h] = NULL
     THEN UNCHANGED <<counter, to_free, native, swh, hmulti, engine, msgs, dbg, wfile>>
     ELSE LET e == cp[h]
              g == clone[h]
              last == counter[g] = 1
          IN /\ DetachOnFree(e)
             /\ counter' = [counter EXCEPT ![g] = @ - 1]
             /\ to_free' = IF last THEN [to_free EXCEPT ![g] = "freed"] ELSE to_free
             /\ swh' = IF last THEN [swh EXCEPT ![e] = "destroyed"] ELSE swh
             /\ native' = [native EXCEPT ![e] = "cleaned"]
             /\ dbg' = [dbg EXCEPT ![e] = NULL]
             /\ wfile' = [wfile EXCEPT ![h] = NULL]
  /\ UNCHANGED <<uref, cp, clone, mobj, muref, easyh, done, phase, push, lost, sopen>>

\* The destructor of a CurlHandle whose last reference is gone.
FreeHandle(h) ==
  /\ phase = "run"
  /\ obj[h] = "live" /\ RefCount(h) = 0
  /\ CurlFree(h)

-----------------------------------------------------------------------------
(* CurlMultiHandle operations (multi.cc)                                  *)

\* curl_multi_init()
MultiInit(m) ==
  /\ mobj[m] = "unused"
  /\ mobj' = [mobj EXCEPT ![m] = "live"]
  /\ muref' = [muref EXCEPT ![m] = TRUE]
  /\ easyh' = [easyh EXCEPT ![m] = <<>>]
  /\ UNCHANGED <<obj, uref, cp, clone, counter, to_free, native, swh, hmulti,
                 engine, msgs, done, phase, push, lost, dbg, wfile, sopen>>

\* Mutant of KeepInList: easyh follows the call whatever libcurl answered.
KeepInListAlways(error) == TRUE

\* Whether add/remove update easyh: only on success from PHP 8.2 on.
KeepInList(error) == error = CURLM_OK \/ ~PHP82

\* curl_multi_add_handle(): Multi::add_handle registers the easy handle and
\* points its Handle at the Multi; the zval is appended to easyh (with an
\* extra reference) on success only from PHP 8.2 on, and always before.
\* The handle's handlers are verified first.
MultiAdd(m, h) ==
  /\ mobj[m] = "live" /\ muref[m]
  /\ obj[h] = "live" /\ uref[h] > 0
  /\ Len(easyh[m]) < MaxList
  /\ wfile' = VerifyHandlers({h})
  /\ LET e == cp[h]
         error == AddResult(m, e)
     IN /\ IF error = CURLM_OK
           THEN /\ engine' = [engine EXCEPT ![m] = @ \cup {e}]
                /\ hmulti' = [hmulti EXCEPT ![e] = m]
                /\ done' = [done EXCEPT ![e] = FALSE]
           ELSE UNCHANGED <<engine, hmulti, done>>
        /\ easyh' = IF KeepInList(error)
                    THEN [easyh EXCEPT ![m] = Append(@, h)] ELSE easyh
  /\ UNCHANGED <<obj, uref, cp, clone, counter, to_free, native, swh, mobj, muref,
                 msgs, phase, push, lost, dbg, sopen>>

\* curl_multi_remove_handle(): through Multi::remove_handle when the Handle
\* is attached to a multi, else straight to libcurl; the first zval equal to
\* the handle leaves easyh (dropping its reference) on success only from
\* PHP 8.2 on, and always before.
MultiRemove(m, h) ==
  /\ mobj[m] = "live" /\ muref[m]
  /\ obj[h] = "live" /\ uref[h] > 0
  /\ LET e == cp[h]
         handle == GetHandle(e)
         error == IF e = NULL THEN CURLM_BAD_EASY_HANDLE ELSE RemoveResult(m, e)
     IN /\ IF error = CURLM_OK /\ e \in engine[m]
           THEN /\ DetachEngine(m, {e})
                /\ IF handle # NULL /\ hmulti[e] # NULL
                   THEN DetachHandles(m, {e}) ELSE UNCHANGED hmulti
           ELSE UNCHANGED <<engine, msgs, hmulti>>
        /\ easyh' = IF KeepInList(error)
                    THEN [easyh EXCEPT ![m] = RemoveFirst(@, h)] ELSE easyh
  /\ UNCHANGED <<obj, uref, cp, clone, counter, to_free, native, swh,
                 mobj, muref, done, phase, push, lost, dbg, wfile, sopen>>

\* curl_multi_exec(): verifies the handlers of every listed handle, then
\* curl_multi_perform drives the registered transfers; a transfer that
\* finishes queues a completion message for its easy handle.
MultiExec(m) ==
  /\ mobj[m] = "live" /\ muref[m]
  /\ wfile' = ExecVerify(m)
  /\ \E e \in engine[m] :
       /\ ~done[e]
       /\ done' = [done EXCEPT ![e] = TRUE]
       /\ msgs' = [msgs EXCEPT ![m] = Append(@, e)]
  /\ UNCHANGED <<obj, uref, cp, clone, counter, to_free, native, swh, hmulti,
                 mobj, muref, easyh, engine, phase, push, lost, dbg, sopen>>

\* curl_multi_info_read(): pops the oldest completion message, finds the
\* CurlHandle of its easy handle in easyh (storing the result there) and
\* returns that handle with an extra reference, which the script keeps or
\* drops.
MultiInfoRead(m) ==
  /\ mobj[m] = "live" /\ muref[m]
  /\ msgs[m] # <<>>
  /\ msgs' = [msgs EXCEPT ![m] = Tail(@)]
  /\ LET h == FindEasyHandle(m, Head(msgs[m]))
     IN \E keep \in BOOLEAN :
          uref' = IF h # NULL /\ keep /\ uref[h] < MaxRefs
                  THEN [uref EXCEPT ![h] = @ + 1] ELSE uref
  /\ UNCHANGED <<obj, cp, clone, counter, to_free, native, swh, hmulti, mobj, muref,
                 easyh, engine, done, phase, push, lost, dbg, wfile, sopen>>

\* curl_multi_setopt(m, CURLMOPT_PUSHFUNCTION, f): installs the push handler
\* and hands _php_server_push_callback to libcurl. (The integer options go to
\* libcurl as they are and change no state modelled here.)
MultiSetopt(m) ==
  /\ mobj[m] = "live" /\ muref[m]
  /\ push' = [push EXCEPT ![m] = TRUE]
  /\ UNCHANGED <<obj, uref, cp, clone, counter, to_free, native, swh, hmulti,
                 mobj, muref, easyh, engine, msgs, done, phase, lost, dbg, wfile, sopen>>

\* _php_server_push_callback: libcurl offers the pushed stream of parent
\* easy e as a new easy handle c, duplicated from e with its options. The callback wraps c in a new CurlHandle
\* (held by the local zval pz_ch) sharing the parent's clone group, gives it a
\* Handle pointed at the parent's Multi, and calls the script's function.
\*   accept: pz_ch moves into easyh and libcurl adds c to the multi;
\*   deny:   ch->cp = NULL and libcurl closes c; pz_ch is never released;
\*   fail:   the call fails or throws, the callback answers CURL_PUSH_DENY,
\*           libcurl closes c, ch->cp still points at it; pz_ch is never
\*           released.
ServerPush(m, e, c, answer) ==
  LET parent == FindEasyHandle(m, e)
      accepted == answer = "accept"
  IN /\ parent # NULL
     /\ obj' = [obj EXCEPT ![c] = "live"]
     /\ CopyHandlers(c, parent)
     /\ cp' = [cp EXCEPT ![c] = IF answer = "deny" THEN NULL ELSE c]
     /\ dbg' = [dbg EXCEPT ![c] = IF accepted THEN dbg[e] ELSE NULL]
     /\ wfile' = [ExecVerify(m) EXCEPT ![c] = ExecVerify(m)[parent]]
     /\ native' = [native EXCEPT ![c] = IF accepted THEN "alive" ELSE "cleaned"]
     /\ IF GetHandle(e) # NULL
        THEN /\ swh' = [swh EXCEPT ![c] = "live"]
             /\ hmulti' = [hmulti EXCEPT ![c] = hmulti[e]]
        ELSE UNCHANGED <<swh, hmulti>>
     /\ IF accepted
        THEN /\ easyh' = [easyh EXCEPT ![m] = Append(@, c)]
             /\ engine' = [engine EXCEPT ![m] = @ \cup {c}]
             /\ done' = [done EXCEPT ![c] = FALSE]
             /\ UNCHANGED lost
        ELSE /\ lost' = [lost EXCEPT ![c] = 1]
             /\ UNCHANGED <<easyh, engine, done>>

\* curl_multi_exec() during which the server pushes a stream on an unfinished
\* transfer of the multi: libcurl calls the push callback only once one is
\* installed. The new handle copies the parent's handlers as the exec loop
\* left them.
MultiExecPush(m) ==
  /\ mobj[m] = "live" /\ muref[m] /\ push[m]
  /\ \E e \in engine[m], c \in Handles, answer \in PushAnswers :
       /\ ~done[e] /\ obj[c] = "unused"
       /\ ServerPush(m, e, c, answer)
  /\ UNCHANGED <<uref, to_free, mobj, muref, msgs, phase, push, sopen>>

\* curl_multi_close(): verifies the handlers of every listed handle and
\* removes it (through its Handle when it has one), ignoring the result, and
\* empties easyh, dropping the list's references. Inside a callback of m
\* libcurl refuses every removal.
MultiClose(m) ==
  /\ mobj[m] = "live" /\ muref[m]
  /\ wfile' = VerifyHandlers({h \in ToSet(easyh[m]) : obj[h] = "live"})
  /\ LET ES == {cp[h] : h \in {h \in ToSet(easyh[m]) : obj[h] = "live"}} \ {NULL}
     IN IF Performing(m)
        THEN UNCHANGED <<engine, msgs, hmulti>>
        ELSE /\ DetachEngine(m, ES)
             /\ DetachHandles(m, {e \in ES : GetHandle(e) # NULL})
  /\ easyh' = [easyh EXCEPT ![m] = <<>>]
  /\ UNCHANGED <<obj, uref, cp, clone, counter, to_free, native, swh,
                 mobj, muref, done, phase, push, lost, dbg, sopen>>

\* Mutant of MultiFree: the multi is deleted without removing its handles
\* through their Handles first (as the curl_multi_remove_handle branch does).
MultiFreeNoRemove(m) ==
  /\ UNCHANGED hmulti
  /\ wfile' = VerifyHandlers({h \in ToSet(easyh[m]) : obj[h] = "live"})
  /\ engine' = [engine EXCEPT ![m] = {}]
  /\ msgs' = [msgs EXCEPT ![m] = <<>>]
  /\ easyh' = [easyh EXCEPT ![m] = <<>>]
  /\ mobj' = [mobj EXCEPT ![m] = "freed"]
  /\ push' = [push EXCEPT ![m] = FALSE]
  /\ UNCHANGED <<obj, uref, cp, clone, counter, to_free, native, swh,
                 done, phase, lost, dbg, sopen>>

\* swoole_curl_multi_free_obj / _php_curl_multi_free: verifies and removes
\* every listed handle whose own destructor has not been called, deletes the
\* Multi (its libcurl multi handle forgets every easy handle), and empties
\* easyh.
MultiFree(m) ==
  /\ wfile' = VerifyHandlers({h \in ToSet(easyh[m]) : obj[h] = "live"})
  /\ LET ES == {cp[h] : h \in {h \in ToSet(easyh[m]) : obj[h] = "live"}} \ {NULL}
     IN DetachHandles(m, {e \in ES : GetHandle(e) # NULL})
  /\ engine' = [engine EXCEPT ![m] = {}]
  /\ msgs' = [msgs EXCEPT ![m] = <<>>]
  /\ easyh' = [easyh EXCEPT ![m] = <<>>]
  /\ mobj' = [mobj EXCEPT ![m] = "freed"]
  /\ push' = [push EXCEPT ![m] = FALSE]
  /\ UNCHANGED <<obj, uref, cp, clone, counter, to_free, native, swh,
                 done, phase, lost, dbg, sopen>>

\* The script drops the CurlMultiHandle: its destructor runs at once. The
\* curl_multi_exec frame of a multi inside a callback still holds it.
DropMulti(m) ==
  /\ mobj[m] = "live" /\ muref[m] /\ ~Performing(m)
  /\ muref' = [muref EXCEPT ![m] = FALSE]
  /\ MultiFree(m)

-----------------------------------------------------------------------------
(* Transfer callbacks (fn_write and its siblings, interface.cc): inside    *)
(* curl_multi_exec, libcurl calls the callback of an unfinished transfer   *)
(* with the CurlHandle it was configured with as ctx. For PHP_CURL_USER    *)
(* the callback pins the object (GC_ADDREF), sets in_callback, calls the   *)
(* script's function, clears in_callback, checks the handlers, releases    *)
(* the pin and returns to libcurl, which goes on with the transfer.        *)

\* How the script's function ends: it returns the value that lets the
\* transfer go on ("ok") or the one that stops it ("stop"), it throws
\* (retval stays undefined), or zend_call_function fails.
Outcomes == {"ok", "stop", "throw", "failure"}

\* fn_write: the returned length, or -1 when the call fails; libcurl aborts
\* on any length other than size * nmemb. After an exception the length is
\* left at size * nmemb.
FnWriteAborts(o) == o \in {"stop", "failure"}

\* fn_write_header: the same rule for CURLOPT_HEADERFUNCTION.
FnWriteHeaderAborts(o) == o \in {"stop", "failure"}

\* fn_read: CURL_READFUNC_ABORT when the call fails; whatever the function
\* returns is data, or length 0 (the end of the upload) when not a string.
FnReadAborts(o) == o = "failure"

\* fn_progress: a nonzero return aborts; a failed or throwing call gives 0.
FnProgressAborts(o) == o = "stop"

\* fn_xferinfo: the same rule for CURLOPT_XFERINFOFUNCTION (PHP >= 8.2).
FnXferinfoAborts(o) == o = "stop"

\* fn_fnmatch: rval starts as CURL_FNMATCHFUNC_FAIL and only a returned value
\* other than FAIL replaces it.
FnFnmatchAborts(o) == o # "ok"

\* fn_ssh_hostkeyfunction: rval starts as CURLKHMATCH_MISMATCH ("cancel
\* connection in case of an exception"); only a returned CURLKHMATCH_OK keeps
\* the connection.
FnSshHostkeyAborts(o) == o # "ok"

CallbackAborts(k, o) ==
  CASE k = "write" -> FnWriteAborts(o)
    [] k = "header" -> FnWriteHeaderAborts(o)
    [] k = "read" -> FnReadAborts(o)
    [] k = "progress" -> FnProgressAborts(o)
    [] k = "xferinfo" -> FnXferinfoAborts(o)
    [] k = "fnmatch" -> FnFnmatchAborts(o)
    [] k = "sshhostkey" -> FnSshHostkeyAborts(o)

\* curl_multi_exec verifies the listed handles' handlers, and libcurl calls a
\* callback of easy e of multi m; the function starts.
CallbackEnter(m) ==
  /\ mobj[m] = "live" /\ muref[m]
  /\ wfile' = ExecVerify(m)
  /\ \E e \in engine[m], h \in Handles :
       /\ ~done[e] /\ obj[h] = "live" /\ cp[h] = e
       /\ cb' = [m |-> m, e |-> e, h |-> h, st |-> "in", abort |-> FALSE]
  /\ UNCHANGED <<obj, uref, cp, clone, counter, to_free, native, swh, hmulti,
                 mobj, muref, easyh, engine, msgs, done, phase, push, lost, dbg, sopen>>

\* The function ends: in_callback = 0, swoole_curl_verify_handlers on the
\* ctx handle only when the function returned a value (neither a failed
\* call nor an exception), the value callback k will give libcurl, and
\* zval_ptr_dtor(&argv[0]) releases the pin, which may destroy the handle.
\* (Nothing between the call and its end depends on which callback k it is,
\* so k is chosen here rather than kept in cb; a handle writing to a file
\* has no user write function.)
CallbackReturn ==
  /\ cb # NULL /\ cb.st = "in"
  /\ \E k \in CallbackKinds, o \in Outcomes :
       /\ k = "write" => wfile[cb.h] = NULL
       /\ cb' = [cb EXCEPT !.st = "out", !.abort = CallbackAborts(k, o)]
       /\ wfile' = IF o \in {"ok", "stop"} THEN VerifyHandlers({cb.h}) ELSE wfile
  /\ UNCHANGED <<obj, uref, cp, clone, counter, to_free, native, swh, hmulti,
                 mobj, muref, easyh, engine, msgs, done, phase, push, lost, dbg, sopen>>

\* Once the destructors the release started have run, the callback returns
\* into libcurl, which resumes the transfer of cb.e, or ends it with an
\* error and queues its completion message when the value aborts it.
ExecResume ==
  /\ cb # NULL /\ cb.st = "out"
  /\ cb' = NULL
  /\ IF cb.abort /\ cb.e \in engine[cb.m]
     THEN /\ done' = [done EXCEPT ![cb.e] = TRUE]
          /\ msgs' = [msgs EXCEPT ![cb.m] = Append(@, cb.e)]
     ELSE UNCHANGED <<done, msgs>>
  /\ UNCHANGED <<obj, uref, cp, clone, counter, to_free, native, swh, hmulti,
                 mobj, muref, easyh, engine, phase, push, lost, dbg, wfile, sopen>>

-----------------------------------------------------------------------------
(* End of the request: the object store calls the destructor of every     *)
(* remaining object, whatever its reference count, in any order.          *)

BeginShutdown ==
  /\ phase = "run"
  /\ phase' = "shutdown"
  /\ UNCHANGED <<obj, uref, cp, clone, counter, to_free, native, swh, hmulti,
                 mobj, muref, easyh, engine, msgs, done, push, lost, dbg, wfile, sopen>>

ShutdownHandle(h) ==
  /\ phase = "shutdown"
  /\ obj[h] = "live"
  /\ CurlFree(h)

ShutdownMulti(m) ==
  /\ phase = "shutdown"
  /\ mobj[m] = "live"
  /\ MultiFree(m)
  /\ UNCHANGED muref

Terminated ==
  /\ phase = "shutdown"
  /\ \A h \in Handles : obj[h] # "live"
  /\ \A m \in Multis : mobj[m] # "live"

-----------------------------------------------------------------------------

Init ==
  /\ obj = [h \in Handles |-> "unused"]
  /\ uref = [h \in Handles |-> 0]
  /\ cp = [h \in Handles |-> NULL]
  /\ clone = [h \in Handles |-> NULL]
  /\ counter = [h \in Handles |-> 0]
  /\ to_free = [h \in Handles |-> "none"]
  /\ native = [h \in Handles |-> "none"]
  /\ swh = [h \in Handles |-> "none"]
  /\ hmulti = [h \in Handles |-> NULL]
  /\ mobj = [m \in Multis |-> "unused"]
  /\ muref = [m \in Multis |-> FALSE]
  /\ easyh = [m \in Multis |-> <<>>]
  /\ engine = [m \in Multis |-> {}]
  /\ msgs = [m \in Multis |-> <<>>]
  /\ done = [h \in Handles |-> FALSE]
  /\ phase = "run"
  /\ push = [m \in Multis |-> FALSE]
  /\ lost = [h \in Handles |-> 0]
  /\ cb = NULL
  /\ dbg = [h \in Handles |-> NULL]
  /\ wfile = [h \in Handles |-> NULL]
  /\ sopen = Streams

\* A PHP call: only in the running script, once every destructor has run,
\* and outside any callback.
Call ==
  /\ phase = "run" /\ Quiescent /\ cb = NULL
  /\ \/ \E h \in Handles : CurlInit(h) \/ DropRef(h) \/ CurlSetoptHeaderOut(h) \/ CurlReset(h)
                             \/ CurlSetoptFile(h)
     \/ FClose
     \/ \E h, c \in Handles : CopyHandle(h, c)
     \/ \E m \in Multis : \/ MultiInit(m) \/ MultiExec(m) \/ MultiInfoRead(m)
                          \/ MultiClose(m) \/ DropMulti(m) \/ MultiSetopt(m)
                          \/ MultiExecPush(m)
     \/ \E m \in Multis, h \in Handles : MultiAdd(m, h) \/ MultiRemove(m, h)
     \/ BeginShutdown
  /\ UNCHANGED cb

\* A PHP call the script's transfer callback function makes.
CallInCallback ==
  /\ phase = "run" /\ Quiescent /\ cb # NULL /\ cb.st = "in"
  /\ \/ "unset" \in CallbackCalls /\ \E h \in Handles : DropRef(h)
     \/ "add" \in CallbackCalls /\ \E m \in Multis, h \in Handles : MultiAdd(m, h)
     \/ "remove" \in CallbackCalls /\ \E m \in Multis, h \in Handles : MultiRemove(m, h)
     \/ "multi_close" \in CallbackCalls /\ \E m \in Multis : ~Performing(m) /\ MultiClose(m)
     \/ "close_running" \in CallbackCalls /\ MultiClose(cb.m)
     \/ "reset" \in CallbackCalls /\ \E h \in Handles : CurlReset(h)
     \/ "fclose" \in CallbackCalls /\ FClose
  /\ UNCHANGED cb

\* A step of curl_multi_exec's transfer callback.
Callback ==
  /\ phase = "run" /\ Quiescent
  /\ \/ cb = NULL /\ \E m \in Multis : CallbackEnter(m)
     \/ CallbackReturn
     \/ ExecResume

Next ==
  \/ Call
  \/ CallInCallback
  \/ Callback
  \/ (\E h \in Handles : FreeHandle(h) \/ ShutdownHandle(h)) /\ UNCHANGED cb
  \/ (\E m \in Multis : ShutdownMulti(m)) /\ UNCHANGED cb
  \/ Terminated /\ UNCHANGED vars

\* The engine frees every remaining object at the end of the request.
Fairness ==
  /\ \A h \in Handles : WF_vars(FreeHandle(h)) /\ WF_vars(ShutdownHandle(h))
  /\ \A m \in Multis : WF_vars(ShutdownMulti(m))

Spec == Init /\ [][Next]_vars /\ Fairness

-----------------------------------------------------------------------------
(* Properties                                                              *)

TypeOK ==
  /\ obj \in [Handles -> {"unused", "live", "freed"}]
  /\ uref \in [Handles -> 0..MaxRefs]
  /\ cp \in [Handles -> Handles \cup {NULL}]
  /\ clone \in [Handles -> Handles \cup {NULL}]
  /\ counter \in [Handles -> Nat]
  /\ to_free \in [Handles -> {"none", "alloc", "freed"}]
  /\ native \in [Handles -> {"none", "alive", "cleaned"}]
  /\ swh \in [Handles -> {"none", "live", "destroyed"}]
  /\ hmulti \in [Handles -> Multis \cup {NULL}]
  /\ mobj \in [Multis -> {"unused", "live", "freed"}]
  /\ muref \in [Multis -> BOOLEAN]
  /\ easyh \in [Multis -> Seq(Handles)]
  /\ engine \in [Multis -> SUBSET Handles]
  /\ msgs \in [Multis -> Seq(Handles)]
  /\ done \in [Handles -> BOOLEAN]
  /\ phase \in {"run", "shutdown"}
  /\ push \in [Multis -> BOOLEAN]
  /\ lost \in [Handles -> 0..1]
  /\ cb \in {NULL} \cup [m : Multis, e : Handles, h : Handles, st : {"in", "out"},
                          abort : BOOLEAN]
  /\ dbg \in [Handles -> Handles \cup {NULL}]
  /\ wfile \in [Handles -> Streams \cup {NULL}]
  /\ sopen \subseteq Streams

\* Spec section 3: the multi's handle list and the libcurl registration table
\* change in lock-step. While the script runs, the CurlHandles listed in a
\* live multi's easyh are listed once each, and their easy handles are
\* exactly the ones its libcurl multi handle tracks (curl_multi_add_handle /
\* curl_multi_remove_handle keep both sides in step, whatever fails).
EasyListMirrorsEngine ==
  phase = "run" =>
    \A m \in Multis : mobj[m] = "live" =>
      /\ \A i, j \in 1..Len(easyh[m]) : i # j => easyh[m][i] # easyh[m][j]
      /\ {cp[h] : h \in ToSet(easyh[m])} = engine[m]

\* The swoole Handle of a live easy handle is attached to a Multi exactly
\* when that Multi's libcurl multi handle tracks the easy handle, and never to
\* a Multi that has been deleted: _php_curl_free calls
\* handle->multi->remove_handle, so a stale pointer left by remove, close,
\* a push or the multi destructor is a use after free.
HandleMultiAgree ==
  \A e \in Handles : swh[e] = "live" /\ native[e] = "alive" =>
    /\ hmulti[e] # NULL => mobj[hmulti[e]] = "live" /\ e \in engine[hmulti[e]]
    /\ \A m \in Multis : e \in engine[m] => hmulti[e] = m

\* Every live CurlHandle owns an easy handle no other live CurlHandle uses
\* and that has not been cleaned up, and libcurl tracks only such handles:
\* clone and free never make curl_easy_cleanup run twice or too early.
LiveHandlesOwnEasy ==
  /\ \A h \in Handles : obj[h] = "live" /\ cp[h] # NULL =>
       /\ native[cp[h]] = "alive"
       /\ \A h2 \in Handles \ {h} : obj[h2] = "live" => cp[h2] # cp[h]
  /\ \A m \in Multis : \A e \in engine[m] : native[e] = "alive"

\* Spec section 8, clone lifetime: the shared counter of a group of copies
\* equals the number of copies still alive, and the shared to_free lists are
\* released exactly when the last copy is destroyed, never before.
CloneCounterTracksCopies ==
  \A g \in Handles : to_free[g] # "none" =>
    LET copies == {h \in Handles : obj[h] = "live" /\ cp[h] # NULL /\ clone[h] = g}
    IN /\ counter[g] = Cardinality(copies)
       /\ to_free[g] = "freed" <=> copies = {}

\* Spec section 5 (usage errors from inside a live callback): while libcurl
\* is inside a transfer callback of easy e, e is not cleaned up, whatever
\* the script's function calls: the GC_ADDREF pin keeps the CurlHandle for
\* the call, and a removal refused with CURLM_RECURSIVE_API_CALL keeps the
\* list's reference, so no destructor runs curl_easy_cleanup under libcurl.
CallbackTargetAlive ==
  cb # NULL => native[cb.e] = "alive"

\* Spec section 4.2, clone semantics: a copy, like a pushed stream, gets
\* callback bindings of its own. So while a multi runs the transfer of an
\* easy handle, the ctx curl_debug will receive for it (CURLOPT_DEBUGDATA,
\* set by CURLINFO_HEADER_OUT) is a CurlHandle that is still alive:
\* curl_debug releases and replaces that object's header.str.
DebugTargetAlive ==
  \A m \in Multis : \A e \in engine[m] :
    ~done[e] /\ dbg[e] # NULL => obj[dbg[e]] = "live"

\* fn_write with method PHP_CURL_FILE fwrite()s to write->fp without any
\* check, so whenever libcurl is running a multi's transfers (here: when a
\* callback has returned into it) every unfinished transfer of that multi
\* that writes to a file writes to a stream that is still open. The
\* handlers are verified when curl_multi_exec starts and after a callback
\* that returned a value, for the callback's own handle.
WriteTargetsOpen ==
  cb # NULL /\ cb.st = "out" =>
    \A h \in Handles :
      obj[h] = "live" /\ cp[h] \in engine[cb.m] /\ ~done[cp[h]] /\ wfile[h] # NULL
        => wfile[h] \in sopen

\* Once the request has ended and every object is destroyed, nothing the
\* handles owned is left: to_free lists, easy handles and swoole Handles.
ReleasedAtEnd ==
  Terminated =>
    \A e \in Handles : to_free[e] # "alloc" /\ native[e] # "alive" /\ swh[e] # "live"

=============================================================================
