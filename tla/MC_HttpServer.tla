--------------------------- MODULE MC_HttpServer ---------------------------
(* The HTTP server with three requests, one pipeline name, a pool of two   *)
(* threads and an Engine that may refuse a pipeline description.           *)
EXTENDS HttpServer, TLC

CONSTANTS m1, m2, m3, p1

MCRequests ==
    { [method |-> "POST",    path |-> "/pipelines",        name |-> p1],
      [method |-> "POST",    path |-> "/pipelines",        name |-> NoName],
      [method |-> "DELETE",  path |-> "/pipelines",        name |-> p1],
      [method |-> "GET",     path |-> "/pipelines",        name |-> NoName],
      [method |-> "GET",     path |-> "/pipelines/status", name |-> NoName],
      [method |-> "GET",     path |-> "/health",           name |-> NoName] }

(* The lifecycle run also sends PUT, which the container refuses.          *)
MCLifecycleRequests ==
    MCRequests \cup {[method |-> "PUT", path |-> "/pipelines", name |-> p1]}

=============================================================================
