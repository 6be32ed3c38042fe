# TLA+ models of the swoole coroutine curl binding and TLS helpers

This directory holds TLA+ models of parts of `src/`, checked with TLC. Each
module is translated from the C/C++ source. `PROJECT.json` maps every
definition to the lines it models and lists the runs, mutants, findings and
hazards.

## The system

The sources in `src/` are parts of swoole:

| Part | Source | State | Operations |
|---|---|---|---|
| CurlHandle (`php_curl`) | `thirdparty/php/curl/interface.cc`, `thirdparty/php81/curl/curl_private.h` | `cp` (native easy handle), `clone` (counter shared by copies), `to_free` (lists shared by copies), `err`, `in_callback`, callback bindings | `curl_init`, `curl_copy_handle`/`clone`, `curl_setopt`, `curl_exec`, `curl_reset`, `curl_close`, `curl_errno`, destructor |
| CurlMultiHandle (`php_curlm`) | `thirdparty/php81/curl/multi.cc` | `multi` (a `swoole::curl::Multi`), `easyh` (list of added CurlHandle zvals, each holding a reference), `err`, push handler | `curl_multi_init`, `add_handle`, `remove_handle`, `exec`, `select`, `info_read`, `getcontent`, `close`, `setopt`, destructor |
| swoole::curl::Handle / Multi | outside `src/` (spec only) | per easy handle: `Handle::multi`; per multi: libcurl registration | `create_handle`, `get_handle`, `destroy_handle`, `Multi::add_handle`, `Multi::remove_handle` |
| Transfer callbacks | `interface.cc` 381-800 | `in_callback`, temporary `GC_ADDREF` | write, read, header, progress, xferinfo, fnmatch, ssh hostkey |
| Server push callback | `multi.cc` 428-508 | a new CurlHandle for the pushed stream | accept / deny |
| SSL context | `src/protocol/ssl.cc` 192-584 | `SSL_CTX` options | `SSLContext::create`, `set_capath`, `set_ciphers`, `set_client_certificate`, `set_ecdh_curve`, `set_dhparam` |
| OpenSSL globals | `ssl.cc` 33-176 | `openssl_init`, ex-data indices | `swoole_ssl_init`, `swoole_ssl_destroy`, the index getters, info callback, ALPN callback |
| DTLS cookies | `ssl.cc` 627-699 | stack secret | `generate_cookie`, `verify_cookie` |
| SQLite placeholder scanner | `thirdparty/php84/pdo_sqlite/sqlite_sql_parser.c` | none (a pure DFA over the query) | `pdo_sqlite_scanner` |
| Glue and headers | `ext-src/php_swoole_cxx.cc`, `include/*.h` | none | wrappers |

How the parts interact. A CurlHandle owns an easy handle, and
`swoole::curl::create_handle` attaches a Handle to it. Adding the CurlHandle
to a CurlMultiHandle registers the easy handle with the multi's libcurl
handle. It also points `Handle::multi` at the Multi and appends the zval to
`easyh`, which takes a reference. Destroying a CurlHandle removes it from the
multi that its Handle points at. Destroying a multi removes every listed
handle and then deletes the Multi. Copies made with `curl_copy_handle` share
one counter cell and one set of `to_free` lists, which the last copy to be
destroyed releases. PHP destroys an object when its last reference goes. At
request end, it destroys every remaining object in an unspecified order.

## Modules

### CurlMulti (core)

`CurlMulti.tla` models CurlHandles and CurlMultiHandles together. The model
needs both: their lifetimes are tied by `easyh`'s references and by
`Handle::multi`.

* State. Every CurlHandle slot has `obj`, `uref` (references held by the
  script), `cp`, `clone` (the counter cell, named by the slot that created it),
  `counter`, `to_free` and `lost` (references held by a zval nobody will
  release). Every easy handle has `native`
  (alive/cleaned), `swh` (its swoole Handle) and `hmulti` (`Handle::multi`).
  Every multi has `mobj`, `muref`, `easyh` (a sequence, because duplicates
  matter), `engine` (the easy handles its libcurl multi tracks), `msgs` (queued
  completions) and `push` (a push function is installed). `done` marks
  finished transfers, and `dbg` holds the CurlHandle each easy handle's
  `CURLOPT_DEBUGDATA` names. `wfile` is each CurlHandle's
  `handlers.write->stream` (the `CURLOPT_FILE` stream, or NULL), and `sopen`
  is the set of streams the script has not closed. `phase` is `run`
  or `shutdown`.
* Actions. `CurlInit` covers a rejected URL, after which the object is
  destroyed at once. `CopyHandle` covers both outcomes of
  `curl_easy_duphandle`, and `CopyHandlers` shares the counter and `to_free`
  lists. `curl_easy_duphandle` copies the source's options, so a copy starts
  with the source's `dbg`. `DropRef` is the script dropping a reference.
  `CurlSetoptHeaderOut` is `curl_setopt(CURLINFO_HEADER_OUT)`, which points
  `CURLOPT_DEBUGDATA` at the handle or clears it. `CurlReset` is
  `curl_reset`: it is refused inside the handle's own callback, and otherwise
  `curl_easy_reset` clears every option. The value the script passes for
  `CURLINFO_HEADER_OUT` comes from the constant `HeaderOutValues`. The
  easy handle's options vanish with it at `curl_easy_cleanup`.
  `CurlSetoptFile` is `curl_setopt(CURLOPT_FILE)`. NULL releases the stream
  and sets `PHP_CURL_STDOUT`. An open stream is copied into the handler with
  `PHP_CURL_FILE`. A closed stream fails `zend_fetch_resource2_ex`, and the
  call changes nothing. `FClose` is the script's `fclose`. `MultiInit`, `MultiAdd`
  and `MultiRemove` are modelled. Both of the last two use `KeepInList`, the
  `PHP_VERSION_ID >= 80200` gate. Also modelled are `MultiExec` (a transfer
  completes), `MultiInfoRead` (pops a message, returns the handle),
  `MultiSetopt` (installs the push function), `MultiExecPush` (a push
  arrives during exec) with `ServerPush` (`_php_server_push_callback`, whose
  user function accepts, denies or fails), `MultiClose` and `DropMulti`. Destructors are `FreeHandle` (a
  CurlHandle whose reference count reached 0, through `CurlFree` =
  `_php_curl_free`) and `MultiFree` (`_php_curl_multi_free`). After
  `BeginShutdown`, `ShutdownHandle` and `ShutdownMulti` destroy the remaining
  objects in any order.
* Stream checks. `VerifyHandlers` is `swoole_curl_verify_handlers` for the
  write stream: a handle whose stream has gone away is reset to stdout. The
  code calls it in `curl_multi_add_handle`, for every listed handle in
  `curl_multi_exec` before `curl_multi_perform` (`ExecVerify`), for every
  listed handle in `curl_multi_close` and in the multi destructor, and in a
  callback on its own handle only when `retval` is defined. `curl_reset` and
  the destructor release the stream. A copy, and a pushed handle, share the
  source's stream.
* Reference counting. A call that drops references leaves the freed objects
  to `FreeHandle` steps. No other call may start until those steps have run
  (`Quiescent`), which is how PHP's synchronous destructor cascade works.
* The CURLcode/CURLMcode values that the calls store in `ch->err` and
  `mh->err` are left out. No property reads them. The result codes that
  decide control flow (`KeepInList`) are kept.
* libcurl and `swoole::curl::Multi` are outside `src/`. The model follows
  their documented results, marked `spec_modelled` in the map:
  * `add` returns `CURLM_ADDED_ALREADY` if the easy handle is in a multi, and
    `CURLM_INTERNAL_ERROR` if it has no Handle.
  * `remove` of an easy handle in no multi is OK, and in another multi is
    `CURLM_BAD_EASY_HANDLE`.
  * Removal drops queued messages.
  * Deleting a multi forgets its easy handles.

* Transfer callbacks. `CallbackEnter(m)` is libcurl, inside
  `curl_multi_exec` of `m`, calling the user branch (`PHP_CURL_USER`) of
  `fn_write` and its siblings for a running easy handle `e` whose CurlHandle
  is `h`. The handler pins `h` (`GC_ADDREF`, counted by `CallbackRef`) and
  sets `in_callback`. The variable `cb` records the multi, the easy handle,
  the CurlHandle and whether the user function is running (`in`) or has
  returned (`out`). While it runs, `CallInCallback` lets the script do what
  the constant `CallbackCalls` allows: drop a reference (`unset`),
  `curl_multi_add_handle`, `curl_multi_remove_handle`, close another multi
  (`multi_close`), or close the multi that is running the callback
  (`close_running`), `curl_reset` a handle (`reset`), or `fclose` a stream
  (`fclose`). `CallbackReturn`
  clears `in_callback` and releases the pin, which may free `h`. The
  function ends in one of four ways (`Outcomes`): it returns a value that
  lets the transfer go on (`ok`), it returns a value that stops it (`stop`),
  it throws (`throw`, leaving `retval` undefined), or `zend_call_function`
  fails (`failure`). Each callback kind in `CallbackKinds` turns the outcome
  into its return value by its own rule (`FnWriteAborts` and its six
  siblings). `fn_write` and `fn_write_header` abort on a stopping value or a
  failed call. `fn_read` aborts only on a failed call. `fn_progress` and
  `fn_xferinfo` abort only on a nonzero return. `fn_fnmatch` and
  `fn_ssh_hostkeyfunction` start from their failing value, so they abort
  unless the function returns the continuing one. `ExecResume` is libcurl
  going on with `e`. If the value aborts the transfer, it ends with an error
  and its completion message is queued. Nothing between the call and its
  end depends on the kind, so the kind is chosen when the function ends.
* libcurl refuses `curl_multi_add_handle` and `curl_multi_remove_handle`
  with `CURLM_RECURSIVE_API_CALL` while the multi is in a callback
  (`Performing`, spec_modelled). `AddResult` and `RemoveResult` check in
  libcurl's order. `curl_multi_close` ignores those results and calls
  `zend_llist_clean(&mh->easyh)` anyway (multi.cc 356-390).
* `CallbackTargetAlive` (spec section 5, "callbacks must not destroy the
  handle they run for"): while a callback is active, the easy handle libcurl
  is inside has not been cleaned up.
* `WriteTargetsOpen`: when a callback returns into libcurl, every live handle
  with an unfinished transfer in that multi that writes to a stream writes to
  an open one. Otherwise the next `fn_write` for it runs `fwrite` on a closed
  `FILE` (interface.cc:396), which nothing checks.

### SslGlobals and SslInitOnce

`SslGlobals.tla` models the process-wide OpenSSL state of `ssl.cc`.

* State: `openssl_init`, `ssl_connection_index` and `ssl_port_index` (all 0
  at load, lines 33-35), `next_index` (the next index OpenSSL hands out),
  `libinit` (`OPENSSL_init_ssl` succeeded), and `ctx` (an `SSL_CTX` was
  built). Each session has `sess`, `exslot` (the index under which it stored
  its Socket), `ready`, `reneg`, `bufset` and `split` (its write BIO differs
  from its read BIO).
* Actions:
  * `SslInit` is `swoole_ssl_init`. `InitBody` returns early when
    `openssl_init` is set, and at the first failure of `OPENSSL_init_ssl` or
    of either `SSL_get_ex_new_index`. Each index is stored before it is
    checked.
  * `Create` is `SSLContext::create`'s `if (!openssl_init) swoole_ssl_init()`,
    whose result it ignores.
  * `SslDestroy` is `swoole_ssl_destroy`. It is modelled at process end
    (phase `down`), as the code calls it.
  * `SessionOpen`, `HandshakeDone` and `SessionClose` are the session side,
    outside `src/` (spec_modelled). A session stores its Socket under the
    connection index current at the time.
  * `InfoHandshakeStart` and `InfoAcceptLoop` are the two branches of
    `swoole_ssl_info_callback`. Each dereferences the Socket read from slot
    `ssl_connection_index` without a check, so each is enabled only when
    the Socket is found (`Found`). Otherwise the process crashes.
* `SslInitOnce.tla` is the abstract specification of spec section 7. It is
  an idempotent `EnsureInitialized`, which hands out the connection index at
  most once. `Build` ensures initialization and builds a context. `Open` and
  `Close` change sessions, and an open session's Socket is always `found`.
  `Release` happens at process end.
* The refinement mapping `Abs` sends `openssl_init` to `initialized`, and a
  connection index of at least `FirstIndex` to `index` (0 and -1 become
  `NoIndex`). `found` is "open and `Found`". The property `InitializedOnce`
  is `Abs!Spec`, checked as a `PROPERTY` in the run
  `ssl_init_partial_failure`. No passing run checks it. With every library
  call succeeding, `InitBody` either returns at the `openssl_init` guard or
  succeeds outright, so the refinement would only restate that guard.
* With `MayFail = TRUE`, `SSL_get_ex_new_index` may fail. A first call
  stores index 1 and fails on the port index. A second call overwrites the
  connection index with -1, so a session opened under index 1 is no longer
  found (ssl.cc:63-72, 112).

### SqliteScanner

`SqliteScanner.tla` models `pdo_sqlite_scanner`, the re2c DFA in
`thirdparty/php84/pdo_sqlite/sqlite_sql_parser.c`, as pure operators.
The spec leaves this generated lexer out of its scope, but the code is in
`src/`, and PDO relies on it to find placeholders.

* A query is a sequence of character classes (`word` is `[a-zA-Z0-9_]`,
  `space` any character the DFA does not single out). The scanner's input
  is the query followed by its NUL terminator, as `pdo_parse_params` sets
  `s.end` one past it.
* Each labelled block of the DFA is an operator. `Scan` is the entry and
  dispatch. `TextRun`, `Quoted` with `QuotedBody` and `QuotedClose`,
  `Dash` with `LineComment`, `Slash` with `CommentBody` and `CommentStar`,
  `Colon` with `BindName`, and `Question` with `Repeat` are the rest.
  `Backtrack` is `yy1`, and `SkipOne` is `yy5`. The loops are `RECURSIVE`.
  Each returns the token kind and the new `s->cur`.
* `Tokens` is `pdo_parse_params`'s loop, which calls the scanner until
  `PDO_PARSER_EOI`. `Type` builds a query one character at a time, and
  `Prepare` scans it.
* The reference is SQL's lexical structure (`Lex`, `RefPlaceholders`). A
  quoted literal or identifier ends at the first closer that is not
  doubled. `[...]` ends at the first `]`. Comments end at the newline or at
  the first star-slash.
* `EveryPlaceholderReported`: in a query whose literals and comments are all
  closed, every lone `?` and every `:name` outside them is reported.
* The module's tokens (kind and start) were compared with those of the
  compiled `sqlite_sql_parser.c`, built with PDO's scanner macros, on 2119
  random queries of up to seven characters. They agree on every one.
  `''?''` is one TEXT token in both.

### SslContext

`SslContext.tla` models `SSLContext::create` in `src/protocol/ssl.cc`.

* State. `conf` is the configuration: certificate, key, passphrase length,
  `verify_peer`, CA file/path, HTTP (ALPN), client certificate, ciphers,
  DH parameters, and ECDH curve (`none`, `auto` or a list). It is chosen in
  `Init` among all configurations. `pc` is the block of `create()` about to
  run. `result` is what `create()` returned. `accepted` and `rejected` are the
  OpenSSL calls the library accepted and rejected.
* Actions. There is one action per block of `create()`, in code order:
  * `CtxNew`;
  * `UseCertificate`;
  * `UsePrivateKey`, with `PasswdCallback`;
  * `SetCapath`, with `CapathCall`;
  * `SetAlpn`;
  * `SetClientCertificate`;
  * `SetCiphers`, with `CipherCalls`, `DhparamCalls` and `EcdhCalls`;
  * `ReturnTrue`.
* `RunCalls` makes a block's calls in order. At the first call the library
  rejects, it returns what the code returns there. Only the calls named in the
  constant `Rejects` may be rejected. Setters that cannot fail change nothing
  that is modelled: options, modes, the protocol mask, callbacks and the
  verify depth.
* `CreateReportsEveryFailure` is spec section 6. At return, `true` means every
  configured call was accepted, and `false` means some configured call was
  rejected.

### DtlsCookie

`DtlsCookie.tla` models the DTLS cookie callbacks in `ssl.cc` 627-699.

* `calculate_cookie` is `Inum` and `CalculateCookie`. They are operators over
  the secret's alignment `a` and the stack contents `g`: the first `Inum(a)`
  longs hold the SSL pointer's bytes, and every other byte keeps what the
  stack held.
* `GenerateCookie` is HMAC over the peer's port and address. The HMAC is
  abstracted to the record of its key and message (`CookieOf`). `issued[p]`
  holds the cookies handed to peer `p`.
* `Verify(p)` is `verify_cookie`. A peer returns a cookie that was issued to
  any peer. The cookie is regenerated in a new frame with a fresh alignment,
  fresh stack bytes and a fresh malloc outcome, then compared. `last`
  records the latest verdict.
* `GenuineCookieAccepted`: a peer returning its own cookie is accepted unless
  allocation failed. `CookieBindsPeer`: an accepted cookie was issued to the
  peer presenting it.
* `MC_DtlsCookie` uses four peers (two addresses by two ports) and a secret
  of two longs of two bytes. `Alignments` is `{0}`, because the compiler
  aligns the 32-byte stack array `cookie_secret` to `long`, so
  `calculate_cookie`'s misalignment term (ssl.cc:629) is always 0.

## Runs

| Run | Config | Expect | What it shows |
|---|---|---|---|
| `curl_lifecycle` | `MC_CurlMulti.cfg` | pass | Checks `TypeOK`, `EasyListMirrorsEngine`, `HandleMultiAgree`, `LiveHandlesOwnEasy`, `CloneCounterTracksCopies` `CallbackTargetAlive` and `WriteTargetsOpen` over every sequence of API calls (`curl_setopt(CURLINFO_HEADER_OUT)`, `curl_setopt(CURLOPT_FILE)`, `fclose` and `curl_reset` included), callbacks of three kinds that unset, add, remove, close another multi or reset a handle and that end in each of the four ways, and every shutdown order, on the PHP 8.2 build. |
| `curl_push_deny_leak` | `MC_CurlMulti_pushdeny.cfg` | violation | A denied push leaves a CurlHandle counted in the parent's clone counter that no destructor will uncount (multi.cc:502). |
| `curl_push_fail_double_cleanup` | `MC_CurlMulti_pushfail.cfg` | violation | A push function that throws leaves a live CurlHandle whose easy handle libcurl already closed. Its destructor cleans it up again (multi.cc:495). |
| `curl_clone_handle_leak` | `MC_CurlMulti_leak.cfg` | violation | `destroy_handle` runs only for the last copy, so the Handle of the copy destroyed first is never freed (interface.cc:2420). |
| `curl_copy_debugdata` | `MC_CurlMulti_debug.cfg` | violation | A copy of a handle with `CURLINFO_HEADER_OUT` keeps the source's `CURLOPT_DEBUGDATA`, because `swoole_setup_easy_copy_handlers` re-points every other callback's data but not this one. Once the source is freed, a transfer of the copy in a multi hands `curl_debug` a freed `php_curl` (interface.cc:1023, 1855). |
| `curl_multi_close_in_callback` | `MC_CurlMulti_cbclose.cfg` | violation | A callback that closes the multi running it: libcurl refuses the removals, `zend_llist_clean` drops the list's references anyway, and once the callback returns and releases its pin the CurlHandle is freed. Its easy handle is cleaned up while libcurl is still inside it (multi.cc:389). |
| `curl_fclose_in_callback` | `MC_CurlMulti_fclose.cfg` | violation | A header or progress callback fcloses its handle's `CURLOPT_FILE` stream and then throws. `retval` stays undefined, so `swoole_curl_verify_handlers` is skipped (interface.cc:426), the throw does not abort the transfer, and libcurl's next `fn_write` calls `fwrite` on the closed `FILE` (interface.cc:396). |
| `ssl_create` | `MC_SslContext.cfg` | pass | Checks `CreateReportsEveryFailure` over every configuration, with every call whose result the code checks correctly possibly rejected, and with passphrases of 0, 1 and 4 bytes for a 4-byte buffer. |
| `ssl_cert_ignored` | `MC_SslContext_cert.cfg` | violation | A rejected certificate file makes `create()` return true (ssl.cc:320). |
| `dtls_cookie` | `MC_DtlsCookie.cfg` | pass | With an aligned secret, a peer's own cookie is always accepted (unless allocation fails), and a cookie replayed from another address or port never is. |
| `sqlite_placeholders_between_literals` | `MC_SqliteScanner_literals.cfg` | violation | The scanner takes everything from the first quote to the last quote as one literal, so `''?''` is a single TEXT token and its placeholder is never reported (sqlite_sql_parser.c:230). |
| `ssl_init_partial_failure` | `MC_SslGlobals_fail.cfg` | violation | When the port index allocation fails, a later `swoole_ssl_init` replaces the connection index, and the info callback of an earlier session reads NULL (ssl.cc:69, 112). |

The properties:

* `EasyListMirrorsEngine` is the spec's lock-step invariant. While the script
  runs, a live multi lists each handle once, and the listed handles' easy
  handles are exactly the ones libcurl tracks.
* `HandleMultiAgree`: a live Handle points at a multi exactly when that multi
  tracks its easy handle, and that multi is alive. This rules out the use
  after free at interface.cc:2401.
* `LiveHandlesOwnEasy`: no two live CurlHandles share an easy handle, none
  uses a cleaned-up one, and libcurl tracks no cleaned-up one.
* `CloneCounterTracksCopies`: each counter equals the number of live copies,
  and the shared lists are released exactly when none is left.
* `CallbackTargetAlive`: while a transfer callback is active, the easy
  handle libcurl is inside is alive. The pin and libcurl's recursion guard
  protect it from `unset`, add and remove. Closing the running multi is the
  violation run.
* `DebugTargetAlive`: while a multi runs an easy handle's transfer, the
  CurlHandle its `CURLOPT_DEBUGDATA` names is alive. This is the property of
  the violation run `curl_copy_debugdata`. Spec section 4.2 says a clone
  gets callback bindings of its own.
* `WriteTargetsOpen`: when a transfer callback returns into libcurl, no
  unfinished transfer of that multi writes to a closed stream. The
  `fclose` calls between API calls are caught by the check in
  `curl_multi_exec`, and the mutant that skips it is caught too. The
  lifecycle run's callbacks do not call `fclose`. When they may, the
  property fails: that is the violation run `curl_fclose_in_callback`.
* `InitializedOnce`: `SslGlobals` refines `SslInitOnce` (see above). This
  is the property of the violation run `ssl_init_partial_failure`.
* `ReleasedAtEnd`: when every object is destroyed, nothing the handles owned
  is left. This is the property of the violation run `curl_clone_handle_leak`.

Bounds are in `MC_CurlMulti.cfg`:

* Three CurlHandle slots. That is enough for a handle, its copy and a third
  handle, or a copy of a copy.
* Two multis. That is enough to add a handle to the wrong multi.
* `MaxRefs = 2` and `MaxList = 3` in the violation runs. Two script
  references let a handle be returned again by `info_read` while the script
  still holds it. Three list entries let one handle be listed twice next to
  another, which is what the PHP 8.1 gate (`PHP82 = FALSE`) would do. The
  lifecycle run uses `MaxRefs = 1` and `MaxList = 2` to make room for the
  stream. `info_read` still hands a reference back to a script that has
  dropped its own, and two entries still let a handle be listed twice.
  Every mutant of the run is still caught under these bounds.
* `Streams = {s1}` and `MaxWriters = 1` in the lifecycle run. One stream is
  enough: it can be set on one handle, shared by a copy or a pushed handle,
  and closed. The other runs have no streams.
* `CallbackCalls` selects what a callback may do: everything but closing
  the running multi and `fclose` for the lifecycle run, nothing for the push
  and debug runs (to keep them small), `unset` plus `close_running` for the
  close violation run, and `fclose` alone for `curl_fclose_in_callback`.
* `CallbackKinds` is write, progress and ssh host key in the lifecycle run.
  Between them, these three have every abort rule the seven callbacks use.
  The violation runs use write alone.
* `PushAnswers` selects the push outcomes a configuration allows:
  `{"accept"}` for the lifecycle run, and one each for the two push
  violation runs.
* `HeaderOutValues` is `{FALSE}` in the lifecycle run, so the option is set
  and reset, but no copy inherits a debug pointer. Every property of that
  run is about lifetimes, and `dbg` would multiply its states without being
  read. It is `{TRUE}` in `curl_copy_debugdata`.

Symmetry over handles and multis is sound: no property names a slot. The
lifecycle run reaches about 2.2M distinct states in about 2.3 minutes on two
workers.

For `SslContext`, the passphrase lengths are 0, 1 and 4, with a 4-byte
buffer (`PemBufSize`): none, one that fits, and one that overflows. Each
violation run makes exactly one call rejectable, so its counterexample names
one line of code.

For `SqliteScanner`, the violation run uses queries of up to five characters
from `'`, `?` and a space. Five characters is the shortest closed query with a
placeholder between two literals.

Runs are capped at twelve. Configurations that show a second defect already
covered by a run of the same property are described below instead of run.

For `SslGlobals`: two sessions, so that one can be opened before and one
after a re-initialization. Indices run from 1 to 6, enough for three calls of
`swoole_ssl_init` that each allocate two.

Some configurations are described here but are not runs:

* `PassLens = {3}` (`num - 1`) makes `CreateReportsEveryFailure` fail. The
  callback withholds a passphrase that fits (ssl.cc:183).
* `Rejects = {"alpn_protos"}` in `MC_SslContext` makes
  `CreateReportsEveryFailure` fail. `SSL_CTX_set_alpn_protos` returns 1 on
  failure, and the code tests `< 0` (ssl.cc:376).
* With `curl_fclose_in_callback`'s configuration and `Outcomes` cut to
  `{"ok"}`, `WriteTargetsOpen` still fails, in ten steps. The callback of one
  transfer returns normally after closing the stream of another transfer in
  the same multi, and the check after the callback covers only its own
  handle.
* `PHP82 = FALSE` makes `EasyListMirrorsEngine` fail: before PHP 8.2 a
  failed add still appends to `easyh`.

Fairness: `FreeHandle`, `ShutdownHandle` and `ShutdownMulti` are weakly fair.
PHP runs destructors synchronously, and at request end it destroys every
object. No liveness property is checked. Every candidate (a pinned handle
is eventually released, a listed handle eventually leaves the list) holds by
the shape of the request-end cascade: no code path under `src/` can stop it
short of a crash.

## Plan

The core above comes first because the hardest lifetime questions in the code
live there. Later work, in order:

1. **Server push** (done): `MultiSetopt` and `MultiExecPush`/`ServerPush`.
2. **Transfer callbacks** (done inside `curl_multi_exec`):
   `CallbackEnter`, `CallInCallback`, `CallbackReturn`, `ExecResume`, with a
   violation at multi.cc:389. Callbacks inside `curl_exec` remain.
3. **Multi mode and select**: the user-writable `in_coroutine` flag as
   state, the destructor's non-coroutine branch, and `select`'s
   uninitialised write at multi.cc:219 (violation run).
4. **SslContext** (done): `create` as an ordered pipeline of option steps,
   with violations at ssl.cc:320, 376 and 183. A rejected CA file or path is
   ignored when `verify_peer` is off (ssl.cc:357). There, the code sets
   `SSL_VERIFY_NONE`, so the CA store is never consulted. That is by design,
   not a failure `create()` should report, so `CapathCall` is not in
   `Rejects` and no hazard is listed.
5. **SslGlobals** (done), with the abstract `SslInitOnce` and the
   violation at ssl.cc:69.
6. **DtlsCookie** (done).
7. **SqliteScanner** (done): the DFA and its reference, with the
   violation at sqlite_sql_parser.c:230.
8. **Write streams** (done): `CURLOPT_FILE`, `fclose` and
   `swoole_curl_verify_handlers` at each of its call sites, with
   `WriteTargetsOpen`, and the violation at interface.cc:426. The other
  three streams are left (see below).

## Not modelled

* `php_swoole_cxx.cc` and the headers have no state of their own.
* `curl_multi_select`'s write through `mh` before it is assigned
  (multi.cc:219) is undefined behaviour on a field (`mh->err`) the model does
  not hold. No modelled state depends on it.
* Callbacks inside `curl_exec`: `swoole_curl_easy_perform` is outside `src/`.
  `curl_close` does nothing except refuse in a callback. `curl_reset`'s
  refusal is modelled, but no property reads the options it protects beyond
  `CURLOPT_DEBUGDATA`.
* A write, header, progress or xferinfo function that throws lets the
  transfer go on, with the exception pending (interface.cc:424). Spec
  section 6 says the core aborts the call chain. The model has this
  behaviour (the `throw` outcome), but no run states the spec's rule, for
  lack of a run slot. One consequence is checked: the throw also skips
  `swoole_curl_verify_handlers`, and `WriteTargetsOpen` fails once callbacks
  may `fclose` (run `curl_fclose_in_callback`).
* `CURLOPT_STDERR`, `CURLOPT_INFILE` and `CURLOPT_WRITEHEADER` streams pass
  through the same `swoole_curl_verify_handlers` at the same call sites, with
  the same check in the same places. Modelling them would repeat the
  write stream's states three times. The write stream alone shows where the
  checks are missing.
* `swoole_ssl_destroy` followed by a new `swoole_ssl_init` is not a path the
  code takes. Destroy runs at process end.
* The ALPN selection callback is a pure choice from a fixed protocol list.
* `curl_setopt`'s option table is mostly value plumbing into libcurl. Only
  the options that change lifetimes (callbacks, postfields, share handles)
  are planned.
* The postfields mime structures (`build_mime_structure_from_hash`,
  interface.cc:1120-1250, and its `read_cb`/`seek_cb`/`free_cb`) are not
  modelled. The file streams' `cb_arg` is shared between a handle and the copy
  that `curl_easy_duphandle` makes, and the copy's `free_cb` closes the stream
  the source uses. `free_cb` resets the stream to NULL, and `read_cb` reopens
  it, so no ordering of the two handles reaches a closed stream. The lists in
  `to_free->post` are freed before `curl_easy_cleanup` (interface.cc:2413).
  This is safe because `curl_mime_free` first unbinds the mime from its easy
  handle. Both facts rest on libcurl code outside `src/`.
