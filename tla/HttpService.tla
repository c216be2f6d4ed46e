----------------------------- MODULE HttpService -----------------------------
(***************************************************************************)
(* What the HTTP IPC promises, without threads, pool or pausing: each     *)
(* request is accepted, then served in one atomic step in which its      *)
(* command takes effect on the pipelines list and its status is fixed    *)
(* from the spec's table (section 4.7), then replied to. The fast paths   *)
(* are served as they arrive. After the daemon quits nothing new is      *)
(* accepted or replied to, and the server is stopped only once no        *)
(* accepted request is left unserved; a served request still unanswered  *)
(* then is dropped with its connection. The server is stopped until it   *)
(* is started, and may be started again after a stop.                     *)
(*                                                                         *)
(* A POST or DELETE without a name is only required to be refused        *)
(* without touching the list; which code it gets is the question of its  *)
(* own run (MissingNameIsBadValue).                                       *)
(***************************************************************************)
EXTENDS Integers

CONSTANTS Msgs, Names, NoName, Requests, EngineOutcomes

VARIABLES
    req,        \* the request each message carries
    phase,      \* "new", "accepted", "served", "replied" or "dropped"
    status,     \* the HTTP status of m once served
    result,     \* the return code m's command produced
    srv,        \* "running", "stopping" or "stopped"
    pipelines   \* the session's pipelines list

absvars == <<req, phase, status, result, srv, pipelines>>

PL == INSTANCE PipelineList

FastPaths == {"/health", "/pipelines/status"}

(* The spec's status for a return code (4.7).                              *)
TableStatus(ret) ==
    CASE ret = "EOK"                            -> 200
      [] ret \in {"BAD_COMMAND", "NO_RESOURCE"} -> 404
      [] ret = "EXISTING_RESOURCE"              -> 409
      [] ret = "BAD_VALUE"                      -> 204
      [] OTHER                                  -> 400

(* The codes a request may end with, and the list it leaves: read-only    *)
(* methods succeed, a nameless create, update or delete is refused, an   *)
(* update of the container is an unsupported verb (spec 3), and a named   *)
(* create or delete is the container's.                                   *)
Effect(r, ret, built) ==
    CASE r.method \in {"GET", "OPTIONS"}      -> ret = "EOK" /\ UNCHANGED pipelines
      [] r.name = NoName                      -> ret \in {"NULL_ARGUMENT", "BAD_VALUE"}
                                                 /\ UNCHANGED pipelines
      [] r.method = "PUT"                     -> ret = "BAD_COMMAND" /\ UNCHANGED pipelines
      [] r.method = "POST"                    -> ret = PL!CreateCode(r.name, built)
                                                 /\ PL!Create(r.name, built)
      [] r.method = "DELETE"                  -> ret = PL!DeleteCode(r.name)
                                                 /\ PL!Delete(r.name)

Init ==
    /\ req \in [Msgs -> Requests]
    /\ phase = [m \in Msgs |-> "new"]
    /\ status = [m \in Msgs |-> 0]
    /\ result = [m \in Msgs |-> "NONE"]
    /\ srv = "stopped"
    /\ pipelines = {}

Accept(m) ==
    /\ srv = "running"
    /\ phase[m] = "new"
    /\ req[m].path \notin FastPaths
    /\ phase' = [phase EXCEPT ![m] = "accepted"]
    /\ UNCHANGED <<req, status, result, srv, pipelines>>

Serve(m) ==
    /\ srv # "stopped"
    /\ \/ phase[m] = "accepted"
       \/ phase[m] = "new" /\ req[m].path \in FastPaths /\ srv = "running"
    /\ phase' = [phase EXCEPT ![m] = "served"]
    /\ \/ /\ req[m].path \in FastPaths
          /\ status' = [status EXCEPT ![m] = 200]
          /\ UNCHANGED <<result, pipelines>>
       \/ /\ req[m].path \notin FastPaths
          /\ \E built \in EngineOutcomes, ret \in {"EOK", "NULL_ARGUMENT", "BAD_COMMAND",
                     "NO_RESOURCE", "EXISTING_RESOURCE", "BAD_VALUE"} :
                /\ Effect(req[m], ret, built)
                /\ result' = [result EXCEPT ![m] = ret]
                /\ status' = [status EXCEPT ![m] = TableStatus(ret)]
    /\ UNCHANGED <<req, srv>>

Reply(m) ==
    /\ srv = "running"
    /\ phase[m] = "served"
    /\ phase' = [phase EXCEPT ![m] = "replied"]
    /\ UNCHANGED <<req, status, result, srv, pipelines>>

Quit ==
    /\ srv = "running"
    /\ srv' = "stopping"
    /\ UNCHANGED <<req, phase, status, result, pipelines>>

Stop ==
    /\ srv = "stopping"
    /\ \A m \in Msgs : phase[m] # "accepted"
    /\ srv' = "stopped"
    /\ phase' = [m \in Msgs |-> IF phase[m] = "served" THEN "dropped" ELSE phase[m]]
    /\ UNCHANGED <<req, status, result, pipelines>>

Start ==
    /\ srv = "stopped"
    /\ srv' = "running"
    /\ UNCHANGED <<req, phase, status, result, pipelines>>

Next ==
    \/ \E m \in Msgs : Accept(m) \/ Serve(m) \/ Reply(m)
    \/ Quit
    \/ Stop
    \/ Start

(* An accepted request is served, a served one replied to while the       *)
(* daemon runs, and a quitting server stops.                              *)
Spec ==
    /\ Init /\ [][Next]_absvars
    /\ \A m \in Msgs : WF_absvars(Serve(m)) /\ WF_absvars(Reply(m))
    /\ WF_absvars(Stop)

=============================================================================
