---------------------------- MODULE MC_TcpServer ----------------------------
(* Two connections whose clients write up to two commands each, of one   *)
(* byte or of three against a two-byte buffer, so that a write fits, or  *)
(* fills the buffer and leaves a tail for the next read.                 *)
EXTENDS TcpServer

CONSTANTS c1, c2, p1

MCCmds ==
    { [verb |-> "create", name |-> p1],
      [verb |-> "delete", name |-> p1] }
=============================================================================
