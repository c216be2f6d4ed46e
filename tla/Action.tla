-------------------------------- MODULE Action --------------------------------
(***************************************************************************)
(* gstd_action_create_default (src/unnamed/part_001): emitting an action   *)
(* signal of an element with the arguments given in the description.     *)
(* The signal's schema (n_params and the parameter types) comes from      *)
(* g_signal_query; the description is split on single spaces with         *)
(* g_strsplit (description, " ", n_params), the count is checked, each    *)
(* token is converted to its parameter's type into a GValue array, the    *)
(* signal is emitted, and the out: label unsets the array and frees both  *)
(* allocations.                                                           *)
(*                                                                         *)
(* The function runs in its caller's thread and touches no shared state,  *)
(* so it is one sequential process; each step is one block of the code.   *)
(* What it allocates, initialises and emits is kept as state, so the      *)
(* properties can ask what every exit leaves behind.                      *)
(*                                                                         *)
(* A string is a sequence of characters. The text "(null)", which a      *)
(* NULL description printed with %s becomes, contains no space and is     *)
(* the one-element sequence NullText.                                     *)
(***************************************************************************)
EXTENDS Integers, Sequences, SequencesExt

CONSTANTS
    MaxParams,     \* bound on the signal's n_params
    ParamTypes,    \* GTypes a signal parameter may have
    Descs,         \* descriptions a caller may pass (strings, or NULL)
    NULL,          \* the NULL description
    NullText       \* the string "(null)"

ASSUME MaxParams \in Nat

(* The GTypes the conversion loop handles; any other is BAD_COMMAND.      *)
Supported == {"STRING", "INT", "UINT", "UINT64", "BOOLEAN", "FLOAT", "DOUBLE"}

Schemas == UNION {[1..k -> ParamTypes] : k \in 0..MaxParams}

VARIABLES
    types,      \* query.param_types, n_params = Len(types)
    d,          \* the description argument
    pc,         \* where the function is
    argList,    \* arg_list: NULL or the tokens of the description
    args,       \* the values set in args[1..]
    inited,     \* indices of args that g_value_init has initialised
    allocated,  \* live allocations: "arg_list", "args"
    i,          \* the loop counter
    ret,        \* the GstdReturnCode returned
    emitted,    \* g_signal_emitv ran
    warned      \* GLib preconditions that failed (g_return_if_fail)

vars == <<types, d, pc, argList, args, inited, allocated, i, ret, emitted, warned>>

-----------------------------------------------------------------------------
(* g_strsplit and the conversions, by what GLib does.                     *)

Space == " "

(* The position of the first delimiter in s, 0 if there is none (strstr). *)
FirstSpace(s) == SelectInSeq(s, LAMBDA c : c = Space)

(* The loop of g_strsplit: while --max_tokens and a delimiter remains, the *)
(* text before it is a token and the scan goes on after it; the rest is   *)
(* the last token. k is the number of splits still allowed.               *)
RECURSIVE SplitFrom(_, _)
SplitFrom(s, k) ==
    LET p == FirstSpace(s) IN
    IF p = 0 \/ k = 0 THEN <<s>>
    ELSE <<SubSeq(s, 1, p - 1)>> \o SplitFrom(SubSeq(s, p + 1, Len(s)), k - 1)

(* g_strsplit (s, " ", max): max below 1 splits completely, and the empty *)
(* string gives the empty vector.                                         *)
GStrSplit(s, max) ==
    IF s = <<>> THEN <<>>
    ELSE SplitFrom(s, IF max < 1 THEN Len(s) ELSE max - 1)

(* g_ascii_strtoll (s, NULL, 10): leading spaces are skipped, then the    *)
(* decimal digits are read; text without digits is 0.                    *)
RECURSIVE DigitsValue(_, _)
DigitsValue(s, acc) ==
    IF s # <<>> /\ Head(s) \in {"0", "1"}
    THEN DigitsValue(Tail(s), 10 * acc + (IF Head(s) = "1" THEN 1 ELSE 0))
    ELSE acc

RECURSIVE StrToNum(_)
StrToNum(s) ==
    IF s # <<>> /\ Head(s) = Space THEN StrToNum(Tail(s)) ELSE DigitsValue(s, 0)

(* The value g_value_set_* receives for a token of parameter type t.      *)
Convert(t, tok) ==
    CASE t = "STRING"  -> tok
      [] t = "BOOLEAN" -> tok = <<"t", "r", "u", "e">>
      [] OTHER         -> StrToNum(tok)

-----------------------------------------------------------------------------

Init ==
    /\ types \in Schemas
    /\ d \in Descs
    /\ pc = "check"
    /\ argList = NULL
    /\ args = <<>>
    /\ inited = {}
    /\ allocated = {}
    /\ i = 0
    /\ ret = "EOK"
    /\ emitted = FALSE
    /\ warned = {}

(* With parameters, a NULL, "(null)" or empty description is refused;    *)
(* otherwise a description is split into at most n_params tokens.         *)
CheckDescription ==
    /\ pc = "check"
    /\ \/ /\ Len(types) > 0 /\ d \in {NULL, NullText, <<>>}
          /\ ret' = "NULL_ARGUMENT"
          /\ pc' = "return"
          /\ UNCHANGED <<argList, allocated>>
       \/ /\ ~(Len(types) > 0 /\ d \in {NULL, NullText, <<>>})
          /\ argList' = IF d = NULL THEN NULL ELSE GStrSplit(d, Len(types))
          /\ allocated' = IF d = NULL THEN allocated ELSE allocated \cup {"arg_list"}
          /\ pc' = "count"
          /\ UNCHANGED ret
    /\ UNCHANGED <<types, d, args, inited, i, emitted, warned>>

(* g_strv_length (arg_list) != n_params returns NULL_ARGUMENT at once;     *)
(* g_strv_length (NULL) fails its precondition and answers 0. Otherwise  *)
(* the GValue array is allocated and args[0] holds the target.            *)
CheckCount ==
    /\ pc = "count"
    /\ LET len == IF argList = NULL THEN 0 ELSE Len(argList) IN
       /\ warned' = IF argList = NULL THEN warned \cup {"strv_length_null"} ELSE warned
       /\ \/ /\ len # Len(types)
             /\ ret' = "NULL_ARGUMENT"
             /\ pc' = "return"
             /\ UNCHANGED <<allocated, inited>>
          \/ /\ len = Len(types)
             /\ allocated' = allocated \cup {"args"}
             /\ inited' = {0}
             /\ pc' = "convert"
             /\ UNCHANGED ret
    /\ UNCHANGED <<types, d, argList, args, i, emitted>>

(* Mutant: an unsupported parameter type is skipped, not refused.         *)
ConvertSkipsUnsupported ==
    /\ pc = "convert"
    /\ i < Len(types)
    /\ inited' = inited \cup {i + 1}
    /\ args' = Append(args, IF types[i + 1] \in Supported
                            THEN Convert(types[i + 1], argList[i + 1]) ELSE 0)
    /\ i' = i + 1
    /\ UNCHANGED <<types, d, pc, argList, allocated, ret, emitted, warned>>

(* One turn of the loop: g_value_init (&args[i + 1], param_types[i]), then *)
(* the token converted for a supported type, or BAD_COMMAND and goto out.  *)
ConvertArg ==
    /\ pc = "convert"
    /\ i < Len(types)
    /\ inited' = inited \cup {i + 1}
    /\ \/ /\ types[i + 1] \in Supported
          /\ args' = Append(args, Convert(types[i + 1], argList[i + 1]))
          /\ i' = i + 1
          /\ UNCHANGED <<pc, ret>>
       \/ /\ types[i + 1] \notin Supported
          /\ ret' = "BAD_COMMAND"
          /\ pc' = "out"
          /\ UNCHANGED <<args, i>>
    /\ UNCHANGED <<types, d, argList, allocated, emitted, warned>>

(* g_signal_emitv with the whole array, with or without a return value.   *)
Emit ==
    /\ pc = "convert"
    /\ i = Len(types)
    /\ emitted' = TRUE
    /\ pc' = "out"
    /\ UNCHANGED <<types, d, argList, args, inited, allocated, i, ret, warned>>

(* out: g_value_unset on args[0..n_params], whether initialised or not,   *)
(* then g_free (args) and g_strfreev (arg_list).                          *)
Out ==
    /\ pc = "out"
    /\ warned' = IF (0..Len(types)) \ inited # {}
                 THEN warned \cup {"unset_uninitialised"} ELSE warned
    /\ inited' = {}
    /\ allocated' = {}
    /\ pc' = "return"
    /\ UNCHANGED <<types, d, argList, args, i, ret, emitted>>

(* The function has returned.                                             *)
Returned ==
    /\ pc = "return"
    /\ UNCHANGED vars

Next ==
    \/ CheckDescription
    \/ CheckCount
    \/ ConvertArg
    \/ Emit
    \/ Out
    \/ Returned

Spec == Init /\ [][Next]_vars

-----------------------------------------------------------------------------
(* Properties.                                                            *)

(* The values a parameter of type t can be given; none for a type the    *)
(* conversion loop does not handle.                                       *)
ValuesOf(t) ==
    CASE t = "STRING"    -> Seq(STRING)
      [] t = "BOOLEAN"   -> BOOLEAN
      [] t \in Supported -> Int
      [] OTHER           -> {}

TypeOK ==
    /\ types \in Schemas
    /\ DOMAIN args \subseteq DOMAIN types
    /\ \A k \in DOMAIN args : args[k] \in ValuesOf(types[k])
    /\ d \in Descs
    /\ pc \in {"check", "count", "convert", "out", "return"}
    /\ argList = NULL \/ argList \in Seq(Seq(STRING))
    /\ inited \subseteq 0..MaxParams
    /\ allocated \subseteq {"arg_list", "args"}
    /\ i \in 0..MaxParams
    /\ ret \in {"EOK", "NULL_ARGUMENT", "BAD_COMMAND"}
    /\ emitted \in BOOLEAN
    /\ warned \subseteq {"strv_length_null", "unset_uninitialised"}

(* When the function returns, the signal was emitted exactly when it       *)
(* answers EOK, then with one value per parameter, each the description's *)
(* token of that position converted to the parameter's type; it answers   *)
(* BAD_COMMAND exactly when the tokens matched the schema's count but a    *)
(* parameter has a type the conversion loop does not handle               *)
(* (gstd_action_create_default's count check, loop, goto out and emit).  *)
ActionEmittedWithItsArguments ==
    pc = "return" =>
       LET n    == Len(types)
           toks == IF d = NULL THEN <<>> ELSE GStrSplit(d, n)
           refused == n > 0 /\ d \in {NULL, NullText, <<>>}
       IN /\ emitted <=> ret = "EOK"
          /\ emitted => args = [k \in 1..n |-> Convert(types[k], toks[k])]
          /\ ret = "BAD_COMMAND" <=>
                /\ ~refused /\ Len(toks) = n
                /\ \E k \in 1..n : types[k] \notin Supported

(* Every return of the function leaves nothing behind: the token vector  *)
(* and the GValue array are freed (the CHANGELOG: "g_strsplit result not  *)
(* freed", fixed by g_strfreev on the early return paths), and no GLib    *)
(* precondition failed on the way: g_strv_length is never given NULL and  *)
(* g_value_unset only unsets initialised values (the count check and the  *)
(* out: loop of gstd_action_create_default).                              *)
ReturnsClean ==
    pc = "return" => allocated = {} /\ warned = {}

=============================================================================
