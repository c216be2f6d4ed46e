---------------------------- MODULE PipelineList ----------------------------
(***************************************************************************)
(* The session's /pipelines container: a GstdList of GstdPipeline nodes.  *)
(* Its code (gstd_list.c, gstd_pipeline.c) is not among the sources, so   *)
(* this module follows the specification (sections 3, 4.3 and 5): create *)
(* and delete run under the container's object lock, so each is one      *)
(* atomic step here; a create refuses a name already present, and        *)
(* otherwise asks the Engine to build the pipeline, which may fail.       *)
(*                                                                         *)
(* The module only holds the container's state and the operations on it; *)
(* the servers that call them (HttpServer, later TcpServer) instantiate   *)
(* it with their own variable.                                            *)
(***************************************************************************)
EXTENDS FiniteSets

CONSTANT Names          \* pipeline names clients use

VARIABLE pipelines      \* names of the pipelines in the list

TypeOK == pipelines \subseteq Names

(* gstd_object_create on the list: EXISTING_RESOURCE for a sibling with   *)
(* the same name, BAD_COMMAND when the Engine cannot build the            *)
(* description, EOK when the new node is appended.                        *)
CreateCode(n, built) ==
    IF n \in pipelines THEN "EXISTING_RESOURCE"
    ELSE IF built THEN "EOK" ELSE "BAD_COMMAND"

Create(n, built) ==
    pipelines' = IF CreateCode(n, built) = "EOK"
                 THEN pipelines \cup {n}
                 ELSE pipelines

(* gstd_object_delete on the list: NO_RESOURCE for an unknown name.       *)
DeleteCode(n) == IF n \in pipelines THEN "EOK" ELSE "NO_RESOURCE"

Delete(n) == pipelines' = pipelines \ {n}

(* The list's count field, kept equal to the length of its GList.         *)
Count == Cardinality(pipelines)

=============================================================================
