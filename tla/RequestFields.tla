---------------------------- MODULE RequestFields ----------------------------
(***************************************************************************)
(* How do_request (gstd_http.c) finds a request's name and description:  *)
(* parse_json_body reads them from a JSON body, and the query table fills *)
(* any field the body left unset. It is a function of the request alone,  *)
(* so its state is the request and the two fields, and its steps are the *)
(* parse_json_body call and the query fallback that follows it.          *)
(*                                                                         *)
(* A body is its length (0 or not), its Content-Type (as libsoup returns  *)
(* it, without parameters: absent, or a media type that does or does not *)
(* begin with "application/json"), what json_parser_load_from_data makes *)
(* of it ("invalid", a non-object root, or an object), and the JSON value *)
(* of its "name" and "description" members: absent, null, a number, or a *)
(* string from Values. A query is NoQuery or a table with a value or      *)
(* NoValue under each key.                                                *)
(***************************************************************************)
EXTENDS Integers

CONSTANTS
    Values,    \* strings a client may send as name or description
    NoValue,   \* NULL: the field is unset
    NoQuery    \* the request has no query table

Members    == Values \cup {"absent", "null", "number"}
CTypes     == {"none", "application/json", "application/json-seq", "text/plain"}
Roots      == {"invalid", "array", "object"}
Bodies     == [len : {0, 1}, ctype : CTypes, root : Roots,
               name : Members, description : Members]
Queries    == {NoQuery} \cup [name : Values \cup {NoValue},
                              description : Values \cup {NoValue}]
Unset      == [name |-> NoValue, description |-> NoValue]

(* g_str_has_prefix (content_type, "application/json").                  *)
HasJsonPrefix(ct) == ct \in {"application/json", "application/json-seq"}

(* Mutant: the member is copied whatever its JSON type.                    *)
StringMemberAnyType(v) == IF v = "absent" THEN NoValue ELSE v

(* json_object_get_string_member on a member that has_member found: the   *)
(* string, or NULL for a null or a non-string value.                      *)
StringMember(v) == IF v \in Values THEN v ELSE NoValue

(* Mutant: the Content-Type is not looked at.                             *)
ParseJsonBodyAnyType(b) ==
    IF b.len = 0 \/ b.root # "object" THEN Unset
    ELSE [name |-> StringMember(b.name), description |-> StringMember(b.description)]

(* parse_json_body: both outputs NULL unless the body is not empty, its   *)
(* type begins with application/json, it parses, and its root is an      *)
(* object; then each member present as a string is copied.                *)
ParseJsonBody(b) ==
    IF \/ b.len = 0
       \/ b.ctype = "none" \/ ~HasJsonPrefix(b.ctype)
       \/ b.root # "object"
    THEN Unset
    ELSE [name |-> StringMember(b.name), description |-> StringMember(b.description)]

-----------------------------------------------------------------------------

VARIABLES
    body,      \* the request body and its headers
    query,     \* the query table
    fields,    \* name and description_pipe as do_request holds them
    pc         \* "parse", "fill" or "done"

vars == <<body, query, fields, pc>>

Init ==
    /\ body \in Bodies
    /\ query \in Queries
    /\ fields = Unset
    /\ pc = "parse"

(* parse_json_body (msg, &name, &description_pipe).                       *)
ParseBody ==
    /\ pc = "parse"
    /\ fields' = ParseJsonBody(body)
    /\ pc' = "fill"
    /\ UNCHANGED <<body, query>>

(* A NULL field is looked up in the query, when there is one; g_strdup of *)
(* a missing key is NULL again.                                           *)
FillFromQuery ==
    /\ pc = "fill"
    /\ fields' = [f \in {"name", "description"} |->
                     IF fields[f] = NoValue /\ query # NoQuery THEN query[f]
                     ELSE fields[f]]
    /\ pc' = "done"
    /\ UNCHANGED <<body, query>>

(* do_request goes on with the method's handler.                          *)
Done ==
    /\ pc = "done"
    /\ UNCHANGED vars

Next == ParseBody \/ FillFromQuery \/ Done

Spec == Init /\ [][Next]_vars

-----------------------------------------------------------------------------
(* Properties.                                                            *)

TypeOK ==
    /\ body \in Bodies
    /\ query \in Queries
    /\ fields \in [{"name", "description"} -> Values \cup {NoValue}]
    /\ pc \in {"parse", "fill", "done"}

(* The body-parsing rule of the specification (4.7): a field comes from   *)
(* the body's top-level object when the Content-Type begins with          *)
(* application/json and the member is a string; the query's value for     *)
(* the same key fills a field the body left unset.                        *)
SpecField(b, q, f) ==
    LET fromBody == /\ b.len # 0 /\ HasJsonPrefix(b.ctype)
                    /\ b.root = "object" /\ b[f] \in Values
    IN CASE fromBody      -> b[f]
         [] q # NoQuery   -> q[f]
         [] OTHER         -> NoValue

(* For every body and query, do_request ends up with the name and the     *)
(* description the specification's body-parsing rule gives: a string      *)
(* member of a JSON object body wins, and the query fills only what the   *)
(* body left unset (parse_json_body and do_request's query fallback).     *)
FieldsFromBodyThenQuery ==
    pc = "done" =>
       \A f \in {"name", "description"} : fields[f] = SpecField(body, query, f)

=============================================================================
