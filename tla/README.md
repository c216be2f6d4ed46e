# TLA+ models of gstd's IPC servers

This directory holds TLA+ models of the GStreamer Daemon's two transports: the HTTP
server (`src/libgstd/gstd_http.c`) and the TCP socket server (`gstd_socket.c`, which is
`src/unnamed/part_002`). Both drive the session's shared pipelines list. It also models
the two places where a command's arguments are taken apart: the HTTP request's name and
description, and an action's description (`gstd_action.c`, which is
`src/unnamed/part_001`). Each module
keeps the code's control flow. It abstracts the data to what the properties need.
`PROJECT.json` maps every definition to the lines it models and lists the runs,
mutants, findings and hazards.

## 1. The system and its parts

| Part | Source | State it keeps | Operations | Concurrency |
|---|---|---|---|---|
| HTTP server | gstd_http.c | the SoupServer, the pool, one mutex; per request a paused SoupServerMessage and a `GstdHttpRequest` descriptor with a ref on the query table | `server_callback`: the fast paths `/health` and `/pipelines/status`, else the hand-off. `do_request` in a pool thread. `gstd_http_init`, `gstd_http_start` (which stops first), `gstd_http_stop` and `gstd_http_finalize` (which stops again), called by the daemon or a test, which may restart the server. | The main loop runs the callbacks and libsoup's I/O. Pool threads run `do_request`. |
| Worker pool | GLib `GThreadPool` used by gstd_http.c:870, 822, 967 | the task queue and the threads | push (it starts a thread when none is idle and fewer than `max_threads` exist), pop, idle exit, free with wait | many threads |
| TCP server | part_002 | per connection: a 1 MiB buffer and a read/parse/write loop | `gstd_socket_callback`, `gstd_socket_start`, `gstd_socket_stop` | one thread per connection |
| Pipelines list | not under src/ (spec 3, 4.3, 5) | the named children of `/pipelines` | create, delete and iterate, each under the container lock | shared by every thread of both servers |
| Action | part_001 | none: it splits its arguments and emits a signal | `gstd_action_create_default` | runs in the caller's thread |
| Parser, session, refcounts, Engine | not under src/ | the parsed command; the singleton; the play-hold count; GStreamer | — | — |

A request or command flows like this. A transport receives it. The parser turns it into
a verb on a node of the tree. The node's return code is wrapped in a JSON envelope and
written back. HTTP maps the code to a status (`get_status_code`). TCP ends the envelope
with a NUL byte. Both transports meet only in the pipelines list.

**Behaviours that are hard to test:**
- A message is paused on the main thread and unpaused by a pool thread. libsoup may then
  send it and free it at once.
- The pool has a capacity. A push that fails has a cleanup, and stop must drain the pool.
- Stop is called again by a restart and by finalize. Only the NULLed pointers keep it
  from releasing the pool or the server twice.
- The status endpoint reads the list under its lock but reads the count after the unlock.
- Concurrent creates of one name race.
- A TCP command can fill the buffer or be larger than it.
- A client can hang up between any two steps of the loop.

## 2. Modules

- `PipelineList.tla` models the container: `pipelines`, `CreateCode`/`Create`,
  `DeleteCode`/`Delete` and `Count`. It is modelled from the spec, because
  gstd_list.c is not among the sources. Each operation is one atomic step, because the
  code runs it under the container's object lock. Both servers use it through
  `INSTANCE`.
- `HttpServer.tla` models the HTTP server together with the GThreadPool it uses.
  - **Variables.**
    - Per message: `req` (the method, path and name), `msg` (libsoup's state:
      unsent, paused, unpaused, done, or dropped with its connection), `status`,
      `result` (the GstdReturnCode) and `report` (the status body).
    - Per descriptor: `desc` and `qref`.
    - The pool: `queue`, and `wk`, which holds each pool thread's pc and descriptor.
    - The GstdHttp object: `ipc` holds `self->pool`, `self->server`, and how many
      pools were freed and server references dropped. `starts` counts the
      `gstd_http_start` calls.
    - Also `main` (the main thread's pc) and `pipelines`.
  - **Actions of the main thread.**
    - `Callback` is `server_callback`. It has one disjunct per path: `Health`,
      `StatusList` and `HandOff`.
    - `StatusFinish` is the part of `handle_pipelines_status` that runs after the unlock.
    - `Complete` is libsoup sending an unpaused message.
    - `Quit` ends the main loop. `Stop` is `gstd_http_stop`, whose
      `g_thread_pool_free (pool, FALSE, TRUE)` blocks until the queue is empty and every
      thread is idle. Only then is the server unreferenced. `StopHandles` is what stop
      does to the object, and `DropUnfinished` is libsoup closing the released
      server's connections.
  - **The object's lifecycle.** `Init` is `gstd_http_init`: no pool and no server.
    - `Start` is a `gstd_http_start` that listens. It calls `gstd_http_stop` first,
      then makes the server and the pool.
    - `StartFails` is the noconnection path (an invalid address, or a port in use).
      It frees the new pool and unreferences the new server. The daemon's main loop
      then runs without the HTTP IPC.
    - After a stop the owner may start again, as `test_http_server_restart` does, up
      to `MaxStarts` calls.
    - `Finalize` is `gstd_http_finalize`: `gstd_http_stop` again when the IPC is
      enabled (the daemon; not in the tests), then a pool that is still set is freed.
  - **Actions of the pool threads.**
    - `Pop` takes the head of the queue.
    - `Execute` covers `do_request` from the field copy through `set_status`.
    - `Finish` is the unpause under the mutex, the query unref and the free.
    - `Retire` is an idle thread leaving.
  - **The spawn-failure fault.** `HandOffSpawnFailed` is the callback's push-failure
    branch. GLib's push returns FALSE only when it cannot start a thread, and it has
    queued the task anyway. This branch is not in `Next`.
    `SpawnFailureSpec` adds it, for the run that asks what it does.
- `TcpServer.tla` models the loop of `gstd_socket_callback` for each connection.
  - **Variables.** `srv` is the thread's pc and the bytes it read. `inb` is the bytes
    in the socket. `out` holds the responses toward the client. `cl` and `got` are the
    client. The client writes one command, waits for one answer, and may hang up at
    any time.
  - **Actions.**
    - `Read` reads up to the buffer's size and leaves the rest of a longer write as a
      tail. It breaks on a read of 0 or an error.
    - `Parse` parses the command and applies it to the list.
    - `Write` writes the answer. Its write may fail once the client has hung up.
    - `Close` closes the connection.
  - **Abstraction.** A command is reduced to its length and to what it says. The tail of
    an over-long write says anything.
- `HttpService.tla` is the abstract HTTP service. It has no threads, pool or pausing.
  - Each message is new, then accepted, then served, then replied. A served message
    that is still unanswered when the server stops is dropped.
  - `Serve` is one atomic step. The command takes effect on the list, and the status
    comes from the spec's table (4.7).
  - The fast paths are served as they arrive.
  - A reply happens only while the server runs.
  - `Stop` happens only when no accepted request is left.
  - The server is stopped until `Start`, and may be started again after a stop.
  - Weak fairness serves every accepted request, replies to every served one, and
    stops a quitting server.

  HttpServer refines it through `HS == INSTANCE HttpService WITH phase <- ..., srv <- ...`:
  - **Message phase.** An unsent message is new. A message libsoup has sent is replied,
    and a dropped one is dropped. A message with its status set is served. Any other
    is accepted. So `HandOff` is
    Accept, and `Execute`, `Health` and `StatusFinish` are Serve. `Complete` is Reply.
    `Pop`, `Finish` and `StatusList` are stutters.
  - **Server state.** The server is stopped while `self->server` is NULL: before a
    start, after a failed start, and once `gstd_http_stop` has returned. Otherwise
    the loop, including the status walk, is running, and after Quit it is stopping.
    So a `Start` that listens is the abstract Start, while `StartFails` and
    `Finalize` are stutters.

  A POST or DELETE without a name only has to be refused without touching the list.
  Its exact code is the question of `http_missing_name`.
- `RequestFields.tla` models how `do_request` gets a request's name and description.
  `ParseBody` is `parse_json_body`: it checks the empty body and the Content-Type
  prefix, then the parse and an object root, then the string members. `FillFromQuery`
  is the query fallback. A body is reduced to its length, its Content-Type, its parse
  result, and the JSON kind of each member.
- `Action.tla` models `gstd_action_create_default` as one sequential process.
  - **Steps.** `CheckDescription` is the NULL, `"(null)"` and `""` refusal, then
    `g_strsplit`. `CheckCount` is the count check, then the allocation of the GValue
    array. `ConvertArg` is one turn of the conversion loop, or `goto out` for an
    unsupported type. Then come `Emit` and `Out`.
  - **State.** The process keeps its live allocations, the GValues initialised so far,
    and the GLib preconditions that failed.
  - **Operators.** `g_strsplit` is a RECURSIVE operator (`SplitFrom`, `GStrSplit`).
    `g_ascii_strtoll` is `StrToNum`.
- `MC_HttpServer.tla`, `MC_TcpServer.tla` and `MC_Args.tla` give the model values and
  the input shapes.

**Planned for later sittings:**
- **Gstd.** A composition of HttpServer and TcpServer over one PipelineList. It would
  check that both transports share one list.
- **Abstract list.** An abstract spec of the list, which gives each name's create and
  delete answers in linear order. The composition would refine it with
  `INSTANCE ... WITH`.
- **Session and play-hold refcount.** Modelled from the spec and part_004's tests.
- **HTTP client disconnects** while a request is paused.

## 3. Runs

| Run | Cfg | Expect | What it shows |
|---|---|---|---|
| http_server | MC_HttpServer.cfg | pass | This run checks three invariants, one liveness property and the refinement `HttpServiceRefined` (`HS!Spec`, fairness included). `RequestOwnership`: each pooled request has exactly one owner, the queue or one thread; its query ref is live exactly while its descriptor is; and the message stays paused while it is owned. `AnsweredWithOutcome`: every sent response carries the spec's status for the code that was run. `EveryRequestAnswered`: every request that reaches the server is answered, or dropped with the server after the loop quits; none hangs. |
| http_lifecycle | …_lifecycle.cfg | pass | The owner's calls in any order the code allows: start, failed start, quit, stop, restart and finalize, with requests in flight. `HandlesReleasedOnce`: each pool and each server reference is released at most once, and all of them by the time the object is stopped or finalized, although start and finalize call stop again. `ServerReleasedAfterDrain` (an action property): no step drops a server reference while a request is queued or running. The refinement `HttpServiceRefined` holds across restarts. It also checks that a PUT on the container is refused with BAD_COMMAND and changes nothing. |
| http_status_count | …_status_count.cfg | violation | The status body's count differs from the names it lists. |
| http_missing_name | …_missing_name.cfg | violation | A POST without a name is answered 400, not 204. |
| http_pool_capacity | …_capacity.cfg | violation | With a bounded `max_threads` of 2 and three requests, the pool holds all three: `g_thread_pool_push` only queues past `max_threads`, so no push is refused with 503. The property also covers -1, which it measures against a bounded default, but the run does not rely on -1. |
| http_spawn_failure | …_spawn_failure.cfg | violation | The push-failure cleanup frees a queued descriptor. |
| tcp_server | MC_TcpServer.cfg | pass | `EveryCommandAnswered` and `ConnectionReleased`, even with over-long commands and hang-ups at any step. |
| tcp_buffer_terminator | …_buffer_terminator.cfg | violation | A full read writes the NUL past the buffer. |
| tcp_oversized_command | …_oversized_command.cfg | violation | A long command is answered twice, and the client's next command gets the stale answer. |
| action_args | MC_Args.cfg | pass | Every schema of up to two parameters (STRING, INT, unsupported) against every description of up to 4 characters, NULL and `"(null)"`. `ActionEmittedWithItsArguments`: the signal is emitted exactly on EOK, with each token converted in order; BAD_COMMAND is returned exactly for an unsupported type. |
| action_returns_clean | MC_Args_unclean.cfg | violation | `ReturnsClean`: a zero-parameter action called with `"(null)"` is refused without freeing `arg_list`. |
| http_request_fields | MC_RequestFields.cfg | pass | `FieldsFromBodyThenQuery`: for all 1,920 body and query shapes, `do_request` gets the fields that the spec's body-parsing rule gives. |

Every property of a passing run has a mutant in `PROJECT.json`. Each mutant is a
plausible bug in the code it replaces, and TLC finds the property violated under that
mutant. Examples: a pool free that does not wait; an unpause before the status is set;
a missing query unref; `self->server` not set to NULL after the unref; the sibling-name check dropped; a connection thread returning without closing;
a name conflict answered 404, which breaks the refinement; one split too many; an
unsupported type skipped instead of refused; a body parsed whatever its Content-Type.

### Bounds

- **HTTP.** There are 3 messages, each of which may be any of 6 request shapes:
  - POST with a name or without one,
  - DELETE,
  - GET `/pipelines`,
  - GET `/pipelines/status`,
  - GET `/health`.

  There is 1 pipeline name, a pool of 2 threads, and an Engine that may fail a build.
  With 3 messages over 2 threads, one request waits in the queue while both threads are
  busy. This is the case for capacity, for the drain at stop, and for the status walk
  racing a create. Two POSTs of one name give the create race. OPTIONS is left out:
  it takes the same branch of `Outcome` as GET. The server is started once
  (`MaxStarts` 1). Start, failed start and finalize still occur. The run reaches 248k
  distinct states in about two minutes.
- **HTTP lifecycle.** The same shapes plus a PUT of a name (`MCLifecycleRequests`),
  with 2 messages, 2 threads and 2 starts. A
  request can be in flight at a stop, and another can reach the restarted server. A
  failed start can come first or second. A second start with 3 messages takes more
  than five minutes, and a restart adds nothing that needs a queued third request.
  The run reaches 20k states. PUT is only sent here: it leaves the list unchanged,
  so the refinement is all it needs, and it is kept out of the main run, which
  would otherwise take more than five minutes.
- **Action.** Descriptions go up to 4 characters over `1` and the space, so a text
  can hold two delimiters, including leading, trailing and doubled ones. That is enough
  to see g_strsplit merge the rest into the last token, and yield empty tokens. With
  up to 2 parameters, every relation of token count to `n_params` occurs. There are
  429 inputs and 2,223 states.
- **Request fields.** Every combination occurs: empty or not, 4 Content-Types (two of
  them JSON-prefixed), 3 parse results, and 4 member kinds under each key. Queries are
  absent, or map each key to v1, v2 or nothing. That gives 18,000 states.
- **TCP.** There are 2 connections with up to 2 writes each. A command is 1 or 3 bytes
  against a 2-byte buffer, so a command either fits, or fills the buffer and leaves a
  tail. The tail's text is any command or garbage. The run reaches 267k states in about
  a minute.

### Fairness

Weak fairness is assumed for the cases below. The Action and RequestFields runs are sequential and check only safety, so they need no fairness.
- **Pool threads and connection threads** (`Pop`, `Execute`, `Finish`; `Read`,
  `Parse`, `Write`, `Close`). The OS schedules them.
- **The main loop's dispatch of pending work** (`Callback`, `Complete`,
  `StatusFinish`, `Stop`). GLib's loop runs every ready source.
- **A TCP client reading its answer** (`Receive`). The client is blocked in that read.

No fairness is assumed for:
- clients sending, and clients hanging up;
- the daemon quitting, and the owner's start and finalize;
- idle threads retiring.

Symmetry is not used: the runs check liveness, and TLC's symmetry reduction is unsound
for liveness.

## 4. Findings

1. **Status count read after the unlock** (gstd_http.c:739). The count may not match the
   names listed.
2. **Push failure frees a queued descriptor** (gstd_http.c:822-841). When a thread spawn
   fails, GLib still queues the task. The failure branch then frees it, which leads to a
   use-after-free and a double answer.
3. **No 503 at capacity** (spec 4.8, 5, scenario 6). The pool queue has no bound, so
   a push is never refused, whatever `max_threads` is.
4. **-1 is not clamped** (gstd_http.c:871). `max_threads` reaches `g_thread_pool_new`
   as it is, and the option's help text says -1 means unlimited. The CHANGELOG says the
   default is now 16, and `GSTD_HTTP_DEFAULT_MAX_THREADS` is defined outside src/.
   The capacity run therefore uses a bounded 2, and -1 is only read from the code.
5. **Missing name gives 400, not 204.** `g_return_val_if_fail (name, ...)` comes before
   the BAD_VALUE branch (gstd_http.c:338, 372, 402).
6. **TCP writes the NUL one byte past the buffer on a full read** (part_002:152).
7. **An over-long TCP command is executed in two parts and answered twice** (part_002:137).
   The spec says it is truncated.
8. **The action's early return leaks the token vector** (part_001:233-234). The
   CHANGELOG says this was fixed. TLC's trace is a zero-parameter action called with
   the text `"(null)"`. The same property also catches `g_strv_length (NULL)` for a
   zero-parameter action with a NULL description. It also catches `g_value_unset` on
   never-initialised GValues after an unsupported type.

Observed without a run: with `MaxThreads` 0, `EveryRequestAnswered` fails at once.
`--http-max-threads 0` is accepted and gives a pool that never starts a thread. Every
pooled request stays paused, and `gstd_http_stop` then waits for ever. The spec says
nothing about 0. The run that showed this gave its place to `http_lifecycle`.

Outside what TLC checks: gstd_http.c lines 1-121 are a leftover of a merge. They define
`parse_json_body` and `server_callback` a second time, before the includes. As given,
the file does not compile.

## 5. Not modelled, and why

- **Parser, object tree, Engine and session.** Their code is not under src/. They are
  reduced to create and delete on the list, plus a nondeterministic build outcome.
  Create and delete are single atomic steps written from the spec, so concurrent
  creates of one name by two pool threads (gstd_http.c:473) are not checked. Whatever
  the list code does with them, the model cannot show it.
- **PUT on other paths.** `do_put` sends `update <path> <name>`, and its effect on a
  leaf depends on update handlers that are not in the sources. PUT is modelled only
  on `/pipelines`. That path is a container, which has no update (spec 3), so the
  answer is BAD_COMMAND. Without a name, `do_put` stops at its
  `g_return_val_if_fail` with NULL_ARGUMENT.
- **Methods outside GET, POST, PUT, DELETE and OPTIONS.** `do_request` keeps its
  initial BAD_COMMAND for them. The spec says nothing about them, so the abstract
  service would have nothing to hold them to.
- **The JSON body and query lookup inside HttpServer.** There it is abstracted to the
  request's name. It is checked on its own in RequestFields.
- **The JSON text itself.** It is reduced to the parse result and the kind of each
  member.
- **CORS headers, logging and envelope formatting.** No property depends on them.
- **The TCP listener's start and stop.** They depend on `create_socket_service`
  (gstd_tcp.c), which is not under src/. `gstd_socket_start` hands it a local copy of
  `self->service` and never stores the result itself. Whether stop can ever find the
  service cannot be read from the sources.
- **A start while the HTTP server runs.** No caller does it: the daemon and the tests
  stop first.
- **The state walk's zero timeout** (gstd_http.c:721). Pipeline states and the
  Engine's asynchronous transitions are outside the sources, so the state the walk
  reports is not modelled.
- **HTTP client disconnects.** The descriptor keeps the message pointer without a
  reference (gstd_http.c:451). What libsoup does with a paused message whose
  connection closes is outside the sources.
- **Dropping an unanswered message with the server.** This is modelled from libsoup's
  documented disposal, which closes the client connections. It is not in the sources.
- **The per-connection thread limit of the threaded socket service.** It is set by the
  same missing code.
- **The rest of gstd_http.c.** Lines 1-121 are the stale second copy of
  `parse_json_body` and `server_callback`, described under
  Findings. Lines 122-244 are includes, declarations and `class_init`. Lines 918-954
  are the option table. Lines 979-1013 are a Dockerfile appended to the file. None of
  these changes state at run time, so the HTTP model covers every operation of the file.
