------------------------------- MODULE MC_Args -------------------------------
EXTENDS Action

(* Every description of up to four characters over a digit and the space, *)
(* so a text has up to two delimiters, leading, trailing and doubled      *)
(* spaces included; NULL; and "(null)".                                   *)
MCDescs == {NULL, NullText} \cup BoundedSeq({"1", " "}, 4)

MCNullText == <<"(null)">>

=============================================================================
