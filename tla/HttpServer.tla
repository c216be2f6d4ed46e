----------------------------- MODULE HttpServer -----------------------------
(***************************************************************************)
(* The HTTP IPC of gstd: src/libgstd/gstd_http.c.                          *)
(*                                                                         *)
(* Three kinds of thread share a request:                                  *)
(*  - the main thread runs the GMainLoop: libsoup delivers each request to *)
(*    server_callback there, and writes a response there once the message *)
(*    is not paused; the two fast paths run inline on it;                 *)
(*  - the pool threads of the GThreadPool made by gstd_http_start run     *)
(*    do_request on the descriptors server_callback pushed;               *)
(*  - gstd_http_stop runs on the main thread after the loop has quit;     *)
(*    the owner of the IPC object (the daemon, or a test) may start it     *)
(*    again, and finally unreferences it (gstd_http_finalize).             *)
(* The GThreadPool is modelled by what GLib does: a FIFO queue, threads   *)
(* started on push while fewer than max_threads exist and none is idle,   *)
(* idle threads of a non-exclusive pool leaving it, g_thread_pool_free    *)
(* with wait=TRUE blocking until the queue is empty and every thread idle.*)
(***************************************************************************)
EXTENDS Integers, Sequences, SequencesExt

CONSTANTS
    Msgs,            \* the HTTP requests libsoup may deliver (model values)
    Names,           \* pipeline names clients use
    NoName,          \* neither the JSON body nor the query has "name"
    NoMsg,           \* a pool thread that holds no descriptor
    Requests,        \* request shapes: [method, path, name]
    MaxThreads,      \* self->max_threads handed to g_thread_pool_new
    EngineOutcomes,  \* what the Engine may answer to building a pipeline
    SpecCapacity,    \* the bounded pool size the spec clamps -1 to (4.8)
    MaxStarts        \* how many times the owner calls gstd_http_start

ASSUME /\ NoName \notin Names
       /\ NoMsg \notin Msgs
       /\ MaxThreads \in Int /\ MaxThreads >= -1
       /\ EngineOutcomes \subseteq BOOLEAN /\ EngineOutcomes # {}
       /\ SpecCapacity \in Nat \ {0}
       /\ MaxStarts \in Nat \ {0}

(* -1 means an unlimited pool; no more threads than requests are needed.  *)
Workers == 1..(IF MaxThreads = -1 THEN Cardinality(Msgs) ELSE MaxThreads)

HealthPath == "/health"
StatusPath == "/pipelines/status"
FastPaths  == {HealthPath, StatusPath}

VARIABLES
    req,        \* req[m]: the method, path and name request m carries
    msg,        \* msg[m]: libsoup's state of the SoupServerMessage m
    status,     \* status[m]: the HTTP status set on m (0 while unset)
    report,     \* report[m]: the body of a /pipelines/status answer
    result,     \* result[m]: the GstdReturnCode do_request got for m
    desc,       \* desc[m]: the GstdHttpRequest allocated for m
    qref,       \* qref[m]: references to m's query table gstd holds
    queue,      \* the GThreadPool's task queue
    wk,         \* wk[w]: pool thread w and the descriptor it runs
    ipc,        \* the GstdHttp object: [pool, server, freed], freed counting
                \* the pools freed and the server references dropped
    starts,     \* the gstd_http_start calls made so far
    main,       \* the main thread: [pc, m, names]
    pipelines   \* the session's pipelines list

vars == <<req, msg, status, report, result, desc, qref, queue, wk, ipc,
          starts, main, pipelines>>

PL == INSTANCE PipelineList

MsgStates  == {"unsent", "paused", "unpaused", "done", "dropped"}
DescStates == {"none", "queued", "taken", "freed"}
WorkerPcs  == {"absent", "idle", "execute", "finish"}
Busy       == {"execute", "finish"}
Codes      == {"NONE", "EOK", "NULL_ARGUMENT", "BAD_COMMAND", "NO_RESOURCE",
               "EXISTING_RESOURCE", "BAD_VALUE"}
Statuses   == {0, 200, 204, 400, 404, 409, 503}
NoReport   == [names |-> {}, count |-> -1]

-----------------------------------------------------------------------------
(* GThreadPool, as g_thread_pool_push and the pool threads use it.        *)

Threads == {w \in Workers : wk[w].pc # "absent"}
Idle    == {w \in Workers : wk[w].pc = "idle"}

(* g_thread_pool_push starts a thread when the async queue's length (the  *)
(* tasks minus the threads waiting on it) is not negative and the pool    *)
(* has fewer than max_threads threads (-1: no limit).                     *)
NeedsThread ==
    /\ Len(queue) - Cardinality(Idle) >= 0
    /\ MaxThreads = -1 \/ Cardinality(Threads) < MaxThreads

Spare == CHOOSE w \in Workers : wk[w].pc = "absent"

(* The thread a successful push leaves behind, with the task queued.       *)
StartThread ==
    wk' = IF NeedsThread THEN [wk EXCEPT ![Spare] = [pc |-> "idle", m |-> NoMsg]]
          ELSE wk

(* Mutant: an unmapped code falls through to 500.                         *)
StatusCodeServerError(ret) ==
    CASE ret = "EOK"                                -> 200
      [] ret \in {"BAD_COMMAND", "NO_RESOURCE"}     -> 404
      [] ret = "EXISTING_RESOURCE"                  -> 409
      [] ret = "BAD_VALUE"                          -> 204
      [] OTHER                                      -> 500

(* Mutant: a name conflict is lumped with the not-found codes.            *)
StatusCodeConflictAsNotFound(ret) ==
    CASE ret = "EOK"                                            -> 200
      [] ret \in {"BAD_COMMAND", "NO_RESOURCE", "EXISTING_RESOURCE"} -> 404
      [] ret = "BAD_VALUE"                                      -> 204
      [] OTHER                                                  -> 400

(* get_status_code: the HTTP status for a GstdReturnCode.                 *)
StatusCode(ret) ==
    CASE ret = "EOK"                                -> 200
      [] ret \in {"BAD_COMMAND", "NO_RESOURCE"}     -> 404
      [] ret = "EXISTING_RESOURCE"                  -> 409
      [] ret = "BAD_VALUE"                          -> 204
      [] OTHER                                      -> 400

(* The code do_request's dispatch yields: do_get reads the path, OPTIONS  *)
(* answers EOK, do_post, do_put and do_delete fail their                  *)
(* g_return_val_if_fail on a missing name before anything else; do_put's  *)
(* "update /pipelines N" is refused by the container, which has no update *)
(* (spec 3), and do_post and do_delete parse a create or delete command   *)
(* that reaches the pipelines list.                                       *)
Outcome(r, built) ==
    CASE r.method \in {"GET", "OPTIONS"}  -> "EOK"
      [] r.name = NoName                  -> "NULL_ARGUMENT"
      [] r.method = "PUT"                 -> "BAD_COMMAND"
      [] r.method = "POST"                -> PL!CreateCode(r.name, built)
      [] r.method = "DELETE"              -> PL!DeleteCode(r.name)

Dispatch(r, built) ==
    \/ r.method = "POST" /\ r.name # NoName /\ PL!Create(r.name, built)
    \/ r.method = "DELETE" /\ r.name # NoName /\ PL!Delete(r.name)
    \/ ~(r.method \in {"POST", "DELETE"} /\ r.name # NoName)
       /\ UNCHANGED pipelines

-----------------------------------------------------------------------------
(* The main thread.                                                       *)

Init ==
    /\ req \in [Msgs -> Requests]
    /\ msg = [m \in Msgs |-> "unsent"]
    /\ status = [m \in Msgs |-> 0]
    /\ report = [m \in Msgs |-> NoReport]
    /\ result = [m \in Msgs |-> "NONE"]
    /\ desc = [m \in Msgs |-> "none"]
    /\ qref = [m \in Msgs |-> 0]
    /\ queue = <<>>
    /\ wk = [w \in Workers |-> [pc |-> "absent", m |-> NoMsg]]
    /\ ipc = [pool |-> "none", server |-> "none", freed |-> [pool |-> 0, server |-> 0]]
    /\ starts = 0
    /\ main = [pc |-> "init", m |-> NoMsg, names |-> {}]
    /\ pipelines = {}

(* handle_health_request: a static body and 200, no pipeline touched; the *)
(* message is not paused, so libsoup sends it when the callback returns.  *)
Health(m) ==
    /\ status' = [status EXCEPT ![m] = 200]
    /\ msg' = [msg EXCEPT ![m] = "unpaused"]
    /\ UNCHANGED <<report, desc, qref, queue, wk, main, pipelines>>

(* handle_pipelines_status, first part: under the list's object lock it   *)
(* walks the list and prints each pipeline's name, then unlocks.          *)
StatusList(m) ==
    /\ main' = [pc |-> "status_count", m |-> m, names |-> pipelines]
    /\ UNCHANGED <<msg, status, report, desc, qref, queue, wk, pipelines>>

(* server_callback's hand-off: allocate the descriptor, take a reference  *)
(* on the query table, pause the message under self->mutex, push the      *)
(* descriptor to the pool; the push succeeds.                             *)
HandOff(m) ==
    /\ ipc.pool = "up"
    /\ desc' = [desc EXCEPT ![m] = "queued"]
    /\ qref' = [qref EXCEPT ![m] = 1]
    /\ msg' = [msg EXCEPT ![m] = "paused"]
    /\ queue' = Append(queue, m)
    /\ StartThread
    /\ UNCHANGED <<status, report, main, pipelines>>

(* server_callback's hand-off when g_thread_pool_push returns FALSE       *)
(* because g_thread_pool_start_thread failed: GLib has queued the task    *)
(* anyway, and the failure branch unrefs the query, frees the descriptor, *)
(* sets 503 and unpauses the message. Only a failed thread spawn makes    *)
(* the push fail here, so it is a fault, not a step of Next.              *)
HandOffSpawnFailed(m) ==
    /\ main.pc = "loop"
    /\ msg[m] = "unsent"
    /\ req[m].path \notin FastPaths
    /\ ipc.pool = "up"
    /\ NeedsThread
    /\ desc' = [desc EXCEPT ![m] = "freed"]
    /\ qref' = [qref EXCEPT ![m] = 0]
    /\ status' = [status EXCEPT ![m] = 503]
    /\ msg' = [msg EXCEPT ![m] = "unpaused"]
    /\ queue' = Append(queue, m)
    /\ UNCHANGED <<req, report, result, wk, ipc, starts, main, pipelines>>

(* server_callback, run by the main loop once libsoup has read a client's *)
(* request: the two fast paths by path, every other request handed to the *)
(* pool.                                                                  *)
Callback(m) ==
    /\ main.pc = "loop"
    /\ ipc.server = "listening"
    /\ msg[m] = "unsent"
    /\ \/ req[m].path = HealthPath /\ Health(m)
       \/ req[m].path = StatusPath /\ StatusList(m)
       \/ req[m].path \notin FastPaths /\ HandOff(m)
    /\ UNCHANGED <<req, result, ipc, starts>>

(* handle_pipelines_status, second part: after the unlock it reads the    *)
(* list's count, sets the body and 200, and returns to the main loop.     *)
StatusFinish ==
    /\ main.pc = "status_count"
    /\ LET m == main.m IN
       /\ report' = [report EXCEPT ![m] = [names |-> main.names,
                                            count |-> PL!Count]]
       /\ status' = [status EXCEPT ![m] = 200]
       /\ msg' = [msg EXCEPT ![m] = "unpaused"]
    /\ main' = [pc |-> "loop", m |-> NoMsg, names |-> {}]
    /\ UNCHANGED <<req, result, desc, qref, queue, wk, ipc, starts, pipelines>>

(* libsoup's I/O on the main loop writes the response of a message that   *)
(* is not paused, and finishes (frees) the message.                       *)
Complete(m) ==
    /\ main.pc = "loop"
    /\ msg[m] = "unpaused"
    /\ msg' = [msg EXCEPT ![m] = "done"]
    /\ UNCHANGED <<req, status, report, result, desc, qref, queue, wk, ipc, starts,
                   main, pipelines>>

(* The daemon leaves its main loop and stops the IPC.                     *)
Quit ==
    /\ main.pc = "loop"
    /\ main' = [main EXCEPT !.pc = "stopping"]
    /\ UNCHANGED <<req, msg, status, report, result, desc, qref, queue, wk,
                   ipc, starts, pipelines>>

(* Mutant: self->server is not set to NULL after the unref.                *)
StopKeepsServer(h) ==
    [pool   |-> "none",
     server |-> h.server,
     freed  |-> [pool   |-> h.freed.pool + (IF h.pool = "up" THEN 1 ELSE 0),
                 server |-> h.freed.server + (IF h.server = "listening" THEN 1 ELSE 0)]]

(* What gstd_http_stop does to the object: a pool that is set is freed    *)
(* and set to NULL, a server that is set is unreferenced, and             *)
(* self->server is NULL afterwards.                                       *)
StopHandles(h) ==
    [pool   |-> "none",
     server |-> "none",
     freed  |-> [pool   |-> h.freed.pool + (IF h.pool = "up" THEN 1 ELSE 0),
                 server |-> h.freed.server + (IF h.server = "listening" THEN 1 ELSE 0)]]

(* Dropping the last reference on a server makes libsoup close its client *)
(* connections: a message it has not finished is dropped unanswered.     *)
DropUnfinished(h) ==
    [m \in Msgs |-> IF h.server = "listening" /\ msg[m] \in {"paused", "unpaused"}
                    THEN "dropped" ELSE msg[m]]

(* gstd_http_start, when it succeeds: it first calls gstd_http_stop, then *)
(* makes the server and a non-exclusive pool (which starts no thread),    *)
(* listens, and adds server_callback as the handler.                      *)
Start ==
    /\ main.pc \in {"init", "stopped"}
    /\ starts < MaxStarts
    /\ ipc' = [StopHandles(ipc) EXCEPT !.pool = "up", !.server = "listening"]
    /\ msg' = DropUnfinished(ipc)
    /\ starts' = starts + 1
    /\ main' = [main EXCEPT !.pc = "loop"]
    /\ UNCHANGED <<req, status, report, result, desc, qref, queue, wk, pipelines>>

(* gstd_http_start when the address does not parse or soup_server_listen  *)
(* fails (the port is taken): the noconnection path frees the new pool    *)
(* without waiting, unreferences the new server, NULLs both and returns   *)
(* NO_CONNECTION; the daemon's main loop runs on without the HTTP IPC.    *)
StartFails ==
    /\ main.pc \in {"init", "stopped"}
    /\ starts < MaxStarts
    /\ ipc' = StopHandles([StopHandles(ipc) EXCEPT !.pool = "up", !.server = "listening"])
    /\ msg' = DropUnfinished(ipc)
    /\ starts' = starts + 1
    /\ main' = [main EXCEPT !.pc = "loop"]
    /\ UNCHANGED <<req, status, report, result, desc, qref, queue, wk, pipelines>>

(* Mutant: g_thread_pool_free (pool, FALSE, FALSE) does not wait.        *)
StopNoWait ==
    /\ main.pc = "stopping"
    /\ wk' = [w \in Workers |-> [pc |-> "absent", m |-> NoMsg]]
    /\ ipc' = StopHandles(ipc)
    /\ msg' = DropUnfinished(ipc)
    /\ main' = [main EXCEPT !.pc = "stopped"]
    /\ UNCHANGED <<req, status, report, result, desc, qref, queue, starts,
                   pipelines>>

(* gstd_http_stop: g_thread_pool_free (pool, FALSE, TRUE) marks the pool  *)
(* stopped and blocks until the queue is empty and every thread waits on  *)
(* it, then ends the threads; only then is the server unreferenced.       *)
Stop ==
    /\ main.pc = "stopping"
    /\ queue = <<>>
    /\ \A w \in Workers : wk[w].pc \in {"absent", "idle"}
    /\ wk' = [w \in Workers |-> [pc |-> "absent", m |-> NoMsg]]
    /\ ipc' = StopHandles(ipc)
    /\ msg' = DropUnfinished(ipc)
    /\ main' = [main EXCEPT !.pc = "stopped"]
    /\ UNCHANGED <<req, status, report, result, desc, qref, queue, starts,
                   pipelines>>

(* gstd_http_finalize, when the owner drops the object: gstd_http_stop    *)
(* again if the IPC is enabled (the daemon), not in the unit tests, then  *)
(* a pool that is still set is freed, waiting.                            *)
Finalize ==
    /\ main.pc \in {"init", "stopped"}
    /\ \E enabled \in BOOLEAN :
          LET h == IF enabled THEN StopHandles(ipc) ELSE ipc
          IN /\ ipc' = [h EXCEPT !.pool = "none",
                                 !.freed.pool = @ + (IF h.pool = "up" THEN 1 ELSE 0)]
             /\ msg' = IF enabled THEN DropUnfinished(ipc) ELSE msg
    /\ main' = [main EXCEPT !.pc = "finalized"]
    /\ UNCHANGED <<req, status, report, result, desc, qref, queue, wk, starts,
                   pipelines>>

(* The object is gone and the process exits.                              *)
Terminated ==
    /\ main.pc = "finalized"
    /\ UNCHANGED vars

-----------------------------------------------------------------------------
(* The pool threads.                                                      *)

(* A waiting pool thread takes the oldest task from the queue.            *)
Pop(w) ==
    /\ wk[w].pc = "idle"
    /\ queue # <<>>
    /\ LET m == Head(queue) IN
       /\ wk' = [wk EXCEPT ![w] = [pc |-> "execute", m |-> m]]
       /\ desc' = [desc EXCEPT ![m] = "taken"]
    /\ queue' = Tail(queue)
    /\ UNCHANGED <<req, msg, status, report, result, qref, ipc, starts, main,
                   pipelines>>

(* A thread of a non-exclusive pool that found no task leaves the pool.   *)
Retire(w) ==
    /\ wk[w].pc = "idle"
    /\ queue = <<>>
    /\ ipc.pool = "up"
    /\ wk' = [wk EXCEPT ![w] = [pc |-> "absent", m |-> NoMsg]]
    /\ UNCHANGED <<req, msg, status, report, result, desc, qref, queue, ipc, starts,
                   main, pipelines>>

(* Mutant: the message is unpaused before its status is set.             *)
ExecuteUnpauseFirst(w) ==
    /\ wk[w].pc = "execute"
    /\ LET m == wk[w].m IN
       /\ \E built \in EngineOutcomes :
             /\ result' = [result EXCEPT ![m] = Outcome(req[m], built)]
             /\ Dispatch(req[m], built)
       /\ msg' = [msg EXCEPT ![m] = "unpaused"]
    /\ wk' = [wk EXCEPT ![w].pc = "finish"]
    /\ UNCHANGED <<req, status, report, desc, qref, queue, ipc, starts, main>>

(* do_request up to the unpause: copy the descriptor's fields under the   *)
(* mutex, take name and description from the JSON body or the query, run  *)
(* the command for the method, build the envelope, and set the response   *)
(* and its status on the still paused message.                            *)
Execute(w) ==
    /\ wk[w].pc = "execute"
    /\ LET m == wk[w].m IN
       \E built \in EngineOutcomes :
          LET ret == Outcome(req[m], built) IN
          /\ result' = [result EXCEPT ![m] = ret]
          /\ status' = [status EXCEPT ![m] = StatusCode(ret)]
          /\ Dispatch(req[m], built)
    /\ wk' = [wk EXCEPT ![w].pc = "finish"]
    /\ UNCHANGED <<req, msg, report, desc, qref, queue, ipc, starts, main>>

(* Mutants: the query table is never unreferenced; the message is never   *)
(* unpaused.                                                              *)
FinishKeepsQuery(w) ==
    /\ wk[w].pc = "finish"
    /\ LET m == wk[w].m IN
       /\ msg' = [msg EXCEPT ![m] = "unpaused"]
       /\ desc' = [desc EXCEPT ![m] = "freed"]
    /\ wk' = [wk EXCEPT ![w] = [pc |-> "idle", m |-> NoMsg]]
    /\ UNCHANGED <<req, status, report, result, qref, queue, ipc, starts, main,
                   pipelines>>

FinishNoUnpause(w) ==
    /\ wk[w].pc = "finish"
    /\ LET m == wk[w].m IN
       /\ qref' = [qref EXCEPT ![m] = 0]
       /\ desc' = [desc EXCEPT ![m] = "freed"]
    /\ wk' = [wk EXCEPT ![w] = [pc |-> "idle", m |-> NoMsg]]
    /\ UNCHANGED <<req, msg, status, report, result, queue, ipc, starts, main,
                   pipelines>>

(* The rest of do_request: soup_server_message_unpause under the mutex,   *)
(* after which libsoup may send and free the message, then                *)
(* g_hash_table_unref on the query and g_free on the descriptor; the      *)
(* thread goes back to the pool.                                          *)
Finish(w) ==
    /\ wk[w].pc = "finish"
    /\ LET m == wk[w].m IN
       /\ msg' = [msg EXCEPT ![m] = "unpaused"]
       /\ qref' = [qref EXCEPT ![m] = 0]
       /\ desc' = [desc EXCEPT ![m] = "freed"]
    /\ wk' = [wk EXCEPT ![w] = [pc |-> "idle", m |-> NoMsg]]
    /\ UNCHANGED <<req, status, report, result, queue, ipc, starts, main, pipelines>>

-----------------------------------------------------------------------------

Next ==
    \/ \E m \in Msgs : Callback(m) \/ Complete(m)
    \/ StatusFinish
    \/ Start
    \/ StartFails
    \/ Quit
    \/ Stop
    \/ Finalize
    \/ Terminated
    \/ \E w \in Workers :
          Pop(w) \/ Retire(w) \/ Execute(w) \/ Finish(w)

(* Threads the OS schedules and the main loop's dispatch cannot stop for  *)
(* ever; clients, the owner's start, quit and finalize, and idle threads  *)
(* leaving are not obliged to happen.                                     *)
Fairness ==
    /\ \A m \in Msgs : WF_vars(Callback(m)) /\ WF_vars(Complete(m))
    /\ WF_vars(StatusFinish)
    /\ WF_vars(Stop)
    /\ \A w \in Workers :
          WF_vars(Pop(w)) /\ WF_vars(Execute(w)) /\ WF_vars(Finish(w))

Spec == Init /\ [][Next]_vars /\ Fairness

(* The server on a host where spawning a pool thread can fail.            *)
NextWithSpawnFailure == Next \/ \E m \in Msgs : HandOffSpawnFailed(m)

SpawnFailureSpec == Init /\ [][NextWithSpawnFailure]_vars /\ Fairness

-----------------------------------------------------------------------------
(* Properties.                                                            *)

TypeOK ==
    /\ req \in [Msgs -> Requests]
    /\ msg \in [Msgs -> MsgStates]
    /\ status \in [Msgs -> Statuses]
    /\ report \in [Msgs -> [names : SUBSET Names, count : -1..Cardinality(Names)]]
    /\ result \in [Msgs -> Codes]
    /\ desc \in [Msgs -> DescStates]
    /\ qref \in [Msgs -> {0, 1}]
    /\ queue \in Seq(Msgs)
    /\ wk \in [Workers -> [pc : WorkerPcs, m : Msgs \cup {NoMsg}]]
    /\ ipc \in [pool : {"none", "up"}, server : {"none", "listening"},
               freed : [pool : 0..MaxStarts, server : 0..MaxStarts]]
    /\ starts \in 0..MaxStarts
    /\ main.pc \in {"init", "loop", "status_count", "stopping", "stopped", "finalized"}
    /\ PL!TypeOK

Holders(m) == {w \in Workers : wk[w].pc \in Busy /\ wk[w].m = m}

(* Every request handed to the pool has exactly one owner at a time: the  *)
(* queue (once) or one pool thread, never both; the reference on its     *)
(* query table is held exactly while its descriptor is alive; and while   *)
(* the queue or a thread that has not yet unpaused it holds the request,  *)
(* the message is paused, so libsoup cannot send and free it under the    *)
(* thread that still writes into it (server_callback / do_request).        *)
RequestOwnership ==
    \A m \in Msgs :
       LET inQueue == CopiesIn(m, ToBag(queue))
           live    == desc[m] \in {"queued", "taken"}
       IN /\ inQueue + Cardinality(Holders(m)) = IF live THEN 1 ELSE 0
          /\ desc[m] = "queued" => inQueue = 1
          /\ qref[m] = IF live THEN 1 ELSE 0
          /\ inQueue + Cardinality(Holders(m)) = 1 => msg[m] = "paused"

(* The HTTP status the specification (section 4.7) gives a return code.   *)
SpecStatus(ret) ==
    CASE ret = "EOK"                            -> 200
      [] ret \in {"BAD_COMMAND", "NO_RESOURCE"} -> 404
      [] ret = "EXISTING_RESOURCE"              -> 409
      [] ret = "BAD_VALUE"                      -> 204
      [] OTHER                                  -> 400

(* Every response libsoup has sent carries the status of what was done    *)
(* for it: 200 for the fast paths, and for a pooled request the status of *)
(* the command do_request ran, written before the message was unpaused   *)
(* (do_request, get_status_code).                                         *)
AnsweredWithOutcome ==
    \A m \in Msgs :
       msg[m] = "done" =>
          status[m] = IF req[m].path \in FastPaths THEN 200
                      ELSE SpecStatus(result[m])

(* No step that drops a reference on a server (gstd_http_stop, the       *)
(* noconnection path, a restart's or finalize's repeated stop) happens    *)
(* while a request is still queued or being run by a pool thread: the     *)
(* pool is drained first (spec 4.7, graceful shutdown (a) and (b)).       *)
ServerReleasedAfterDrain ==
    [][ipc'.freed.server > ipc.freed.server =>
          \A m \in Msgs : desc[m] \notin {"queued", "taken"}]_vars

(* Over any sequence of starts, failed starts, stops and the finalize,    *)
(* each pool gstd_http_start made is freed and each server it made is     *)
(* unreferenced at most once, and all of them once the object is stopped  *)
(* or finalized: stop is idempotent (spec 4.7 (c)) although start and     *)
(* finalize call it again (gstd_http_start, gstd_http_stop,               *)
(* gstd_http_finalize).                                                    *)
HandlesReleasedOnce ==
    /\ \A r \in {"pool", "server"} : ipc.freed[r] <= starts
    /\ main.pc \in {"stopped", "finalized"} =>
          ipc.freed = [pool |-> starts, server |-> starts]

(* Every request that reaches the server is answered, or, when the daemon *)
(* leaves its main loop first, dropped with its connection when           *)
(* gstd_http_stop releases the server; none is left hanging               *)
(* (server_callback, do_request's unpause, gstd_http_stop).               *)
EveryRequestAnswered ==
    \A m \in Msgs : (msg[m] # "unsent") ~> (msg[m] \in {"done", "dropped"})

(* The /pipelines/status body is one snapshot of the list: its count is   *)
(* the number of pipelines it lists (handle_pipelines_status reads the    *)
(* count after unlocking the list).                                       *)
StatusCountMatchesList ==
    \A m \in Msgs :
       msg[m] = "done" /\ req[m].path = StatusPath =>
          report[m].count = Cardinality(report[m].names)

(* A POST or DELETE without a name is answered as BAD_VALUE, HTTP 204     *)
(* (spec 4.7 and scenario 3), by do_post's and do_delete's name check.    *)
MissingNameIsBadValue ==
    \A m \in Msgs :
       /\ msg[m] = "done"
       /\ req[m].method \in {"POST", "DELETE"}
       /\ req[m].name = NoName
       => status[m] = 204

(* The pool never holds more requests, queued or running, than its        *)
(* capacity, max_threads or the bounded default -1 is clamped to; a push *)
(* beyond it is refused with 503 (spec 4.8 and 5, server_callback's push).*)
PoolWithinCapacity ==
    LET capacity == IF MaxThreads = -1 THEN SpecCapacity ELSE MaxThreads
    IN Cardinality({m \in Msgs : desc[m] \in {"queued", "taken"}}) <= capacity

-----------------------------------------------------------------------------
(* Refinement: the server implements the abstract service HttpService.    *)
(* A message is new until libsoup delivers it, accepted while the pool    *)
(* holds it, served once its status is set, replied once libsoup has      *)
(* sent it, and dropped with the server; the server runs from a start     *)
(* that listens until the loop quits, and is stopped while no server is   *)
(* set (before a start, after a failed one, once gstd_http_stop returned).*)

Phase(m) ==
    CASE msg[m] = "unsent"  -> "new"
      [] msg[m] = "done"    -> "replied"
      [] msg[m] = "dropped" -> "dropped"
      [] status[m] # 0     -> "served"
      [] OTHER             -> "accepted"

SrvState ==
    CASE ipc.server = "none"                   -> "stopped"
      [] main.pc \in {"loop", "status_count"} -> "running"
      [] main.pc = "stopping"                -> "stopping"
      [] OTHER                               -> "stopped"

HS == INSTANCE HttpService WITH phase <- [m \in Msgs |-> Phase(m)], srv <- SrvState

(* The threads, the pool, the pausing and the split of the status         *)
(* endpoint around its unlock implement the abstract service: each        *)
(* request's command takes effect and gets the spec's status in one step,  *)
(* it is answered only after that, it is answered while the loop runs,    *)
(* and gstd_http_stop returns only when no accepted request is left; and  *)
(* under the scheduling's fairness every accepted request is served and  *)
(* answered (server_callback, do_request, gstd_http_stop).                *)
HttpServiceRefined == HS!Spec

=============================================================================
