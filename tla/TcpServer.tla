------------------------------ MODULE TcpServer ------------------------------
(***************************************************************************)
(* The TCP IPC of gstd: gstd_socket_callback in gstd_socket.c, run by the *)
(* threaded socket service on a thread of its own for every accepted      *)
(* connection. The loop reads at most the buffer's size, NUL-terminates  *)
(* the bytes read, parses them as one command against the session, writes *)
(* the JSON envelope and its NUL in one write, and reads again; a read of *)
(* zero bytes or an error, or a failed write, ends it, and the connection *)
(* is closed.                                                              *)
(*                                                                         *)
(* Clients are the environment: each writes one command and waits for    *)
(* its answer before writing the next (as gst-client does), or hangs up.  *)
(* A command's bytes are abstracted to its length and to what they say;   *)
(* a write of a client is in the socket as a whole before the server's    *)
(* read (a loopback write smaller than the socket buffer), so a read      *)
(* returns the pending bytes up to the buffer's size.                     *)
(***************************************************************************)
EXTENDS Integers, Sequences

CONSTANTS
    Conns,           \* accepted connections (model values)
    Names,           \* pipeline names clients use
    Cmds,            \* what a command's text can say: [verb, name]
    CmdLens,         \* byte lengths a client's command can have
    BufSize,         \* size of the read buffer (1 MiB in the code)
    MaxWrites,       \* bound on the commands one client writes
    EngineOutcomes   \* what the Engine may answer to building a pipeline

ASSUME /\ BufSize \in Nat \ {0}
       /\ CmdLens \subseteq Nat \ {0}
       /\ MaxWrites \in Nat
       /\ EngineOutcomes \subseteq BOOLEAN /\ EngineOutcomes # {}

VARIABLES
    cl,          \* cl[c]: the client of c: [pc, n], n its writes so far
    inb,         \* inb[c]: bytes of c in the socket: [id, cmd, len, tail]
    srv,         \* srv[c]: the connection's thread and the bytes it read
    out,         \* out[c]: responses in the socket toward c's client (ids)
    got,         \* got[c]: the write id the client's last response answered
    pipelines    \* the session's pipelines list

vars == <<cl, inb, srv, out, got, pipelines>>

PL == INSTANCE PipelineList

Garbage  == [verb |-> "garbage", name |-> "none"]
NoChunk  == [id |-> 0, cmd |-> Garbage, len |-> 0, tail |-> FALSE]
SrvPcs   == {"read", "parse", "write", "close", "closed"}

(* gstd_parser_parse_cmd on a create or delete of a pipeline, or on text  *)
(* it cannot parse. A create asks the Engine to build the description.   *)
ParseCode(cmd, built) ==
    CASE cmd.verb = "create" -> PL!CreateCode(cmd.name, built)
      [] cmd.verb = "delete" -> PL!DeleteCode(cmd.name)
      [] OTHER               -> "BAD_COMMAND"

ParseEffect(cmd, built) ==
    \/ cmd.verb = "create" /\ PL!Create(cmd.name, built)
    \/ cmd.verb = "delete" /\ PL!Delete(cmd.name)
    \/ cmd.verb = "garbage" /\ UNCHANGED pipelines

Init ==
    /\ cl = [c \in Conns |-> [pc |-> "idle", n |-> 0]]
    /\ inb = [c \in Conns |-> NoChunk]
    /\ srv = [c \in Conns |-> [pc |-> "read", id |-> 0, cmd |-> Garbage,
                               tail |-> FALSE, len |-> 0]]
    /\ out = [c \in Conns |-> <<>>]
    /\ got = [c \in Conns |-> 0]
    /\ pipelines = {}

-----------------------------------------------------------------------------
(* The clients.                                                           *)

(* A client writes its next command in one write.                        *)
Send(c) ==
    /\ cl[c].pc = "idle"
    /\ cl[c].n < MaxWrites
    /\ \E cmd \in Cmds, len \in CmdLens :
          inb' = [inb EXCEPT ![c] = [id |-> cl[c].n + 1, cmd |-> cmd,
                                     len |-> len, tail |-> FALSE]]
    /\ cl' = [cl EXCEPT ![c] = [pc |-> "waiting", n |-> @.n + 1]]
    /\ UNCHANGED <<srv, out, got, pipelines>>

(* A waiting client reads one NUL-terminated response.                   *)
Receive(c) ==
    /\ cl[c].pc = "waiting"
    /\ out[c] # <<>>
    /\ got' = [got EXCEPT ![c] = Head(out[c])]
    /\ out' = [out EXCEPT ![c] = Tail(@)]
    /\ cl' = [cl EXCEPT ![c].pc = "idle"]
    /\ UNCHANGED <<inb, srv, pipelines>>

(* A client hangs up, whatever it was doing.                              *)
HangUp(c) ==
    /\ cl[c].pc # "gone"
    /\ cl' = [cl EXCEPT ![c].pc = "gone"]
    /\ UNCHANGED <<inb, srv, out, got, pipelines>>

-----------------------------------------------------------------------------
(* The connection threads: gstd_socket_callback.                          *)

(* The bytes a read of at most k bytes takes from c's socket: the whole  *)
(* pending write, or its first k bytes with the rest left as a tail.     *)
Take(c, k) ==
    LET n == IF inb[c].len < k THEN inb[c].len ELSE k IN
    /\ srv' = [srv EXCEPT ![c] = [@ EXCEPT !.pc = "parse", !.id = inb[c].id,
                                     !.cmd = inb[c].cmd, !.tail = inb[c].tail,
                                     !.len = n]]
    /\ inb' = [inb EXCEPT ![c] = IF n = inb[c].len THEN NoChunk
                                 ELSE [@ EXCEPT !.len = @ - n, !.tail = TRUE]]

(* Mutant: one byte more than the buffer holds is read.                   *)
ReadOverlong(c) ==
    /\ srv[c].pc = "read"
    /\ \/ inb[c].len > 0 /\ Take(c, BufSize + 1)
       \/ /\ inb[c].len = 0
          /\ cl[c].pc = "gone"
          /\ srv' = [srv EXCEPT ![c].pc = "close"]
          /\ UNCHANGED inb
    /\ UNCHANGED <<cl, out, got, pipelines>>

(* g_input_stream_read (istream, message, size): the pending bytes up to  *)
(* size; the rest of a longer write stays in the socket for the next read.*)
(* message[read] = '\0' follows. With nothing pending, a hung-up client   *)
(* makes the read return 0 (or fail), and the loop breaks.                *)
Read(c) ==
    /\ srv[c].pc = "read"
    /\ \/ inb[c].len > 0 /\ Take(c, BufSize)
       \/ /\ inb[c].len = 0
          /\ cl[c].pc = "gone"
          /\ srv' = [srv EXCEPT ![c].pc = "close"]
          /\ UNCHANGED inb
    /\ UNCHANGED <<cl, out, got, pipelines>>

(* What the parsed bytes say: the command written, cut to the buffer if  *)
(* it was longer; the tail of a longer write is text of its own, the end *)
(* of a description or whatever the client put there.                    *)
Said(c) == IF srv[c].tail THEN Cmds \cup {Garbage} ELSE {srv[c].cmd}

(* Mutant: an answer is only written for a command that succeeded.        *)
ParseSkipsFailures(c) ==
    /\ srv[c].pc = "parse"
    /\ \E built \in EngineOutcomes, cmd \in Said(c) :
          LET ret == ParseCode(cmd, built) IN
          /\ srv' = [srv EXCEPT ![c].pc = IF ret = "EOK" THEN "write" ELSE "read"]
          /\ ParseEffect(cmd, built)
    /\ UNCHANGED <<cl, inb, out, got>>

(* gstd_parser_parse_cmd (session, message, &output), then the envelope  *)
(* is printed around its code and output.                                 *)
Parse(c) ==
    /\ srv[c].pc = "parse"
    /\ \E built \in EngineOutcomes, cmd \in Said(c) :
          /\ srv' = [srv EXCEPT ![c].pc = "write"]
          /\ ParseEffect(cmd, built)
    /\ UNCHANGED <<cl, inb, out, got>>

(* g_output_stream_write of the envelope and its NUL. To a client that   *)
(* hung up it may still succeed (the bytes are buffered) or fail, and a   *)
(* failure breaks the loop.                                               *)
Write(c) ==
    /\ srv[c].pc = "write"
    /\ \/ /\ out' = [out EXCEPT ![c] = Append(@, srv[c].id)]
          /\ srv' = [srv EXCEPT ![c].pc = "read"]
       \/ /\ cl[c].pc = "gone"
          /\ srv' = [srv EXCEPT ![c].pc = "close"]
          /\ UNCHANGED out
    /\ UNCHANGED <<cl, inb, got, pipelines>>

(* Mutant: the callback returns without g_io_stream_close.               *)
CloseMissing(c) ==
    /\ srv[c].pc = "close"
    /\ UNCHANGED vars

(* g_io_stream_close on every exit of the loop; the callback returns.    *)
Close(c) ==
    /\ srv[c].pc = "close"
    /\ srv' = [srv EXCEPT ![c].pc = "closed"]
    /\ UNCHANGED <<cl, inb, out, got, pipelines>>

(* Every client has hung up and every connection is closed.              *)
Finished ==
    /\ \A c \in Conns : srv[c].pc = "closed"
    /\ UNCHANGED vars

-----------------------------------------------------------------------------

Next ==
    \/ \E c \in Conns :
          \/ Send(c) \/ Receive(c) \/ HangUp(c)
          \/ Read(c) \/ Parse(c) \/ Write(c) \/ Close(c)
    \/ Finished

(* The connection threads are scheduled; a client blocked reading its     *)
(* response reads it once it is there. Writing a command and hanging up   *)
(* are the clients' choice.                                               *)
Fairness ==
    \A c \in Conns :
       /\ WF_vars(Read(c)) /\ WF_vars(Parse(c)) /\ WF_vars(Write(c))
       /\ WF_vars(Close(c)) /\ WF_vars(Receive(c))

Spec == Init /\ [][Next]_vars /\ Fairness

-----------------------------------------------------------------------------
(* Properties.                                                            *)

TypeOK ==
    /\ cl \in [Conns -> [pc : {"idle", "waiting", "gone"}, n : 0..MaxWrites]]
    /\ inb \in [Conns -> [id : 0..MaxWrites, cmd : Cmds \cup {Garbage},
                          len : Nat, tail : BOOLEAN]]
    /\ srv \in [Conns -> [pc : SrvPcs, id : 0..MaxWrites, cmd : Cmds \cup {Garbage},
                          tail : BOOLEAN, len : 0..BufSize]]
    /\ out \in [Conns -> Seq(0..MaxWrites)]
    /\ got \in [Conns -> 0..MaxWrites]
    /\ PL!TypeOK

(* message[read] = '\0' stays inside the g_malloc (size) buffer: the     *)
(* byte count read is below size (gstd_socket_callback's read loop).      *)
TerminatorInBounds ==
    \A c \in Conns : srv[c].pc = "parse" => srv[c].len < BufSize

(* The response a client reads answers the command it wrote last: one     *)
(* command per read and one response per command (spec 4.6 and 6).       *)
ResponseMatchesWrite ==
    \A c \in Conns : cl[c].pc = "idle" /\ got[c] # 0 => got[c] = cl[c].n

(* A client that writes a command is answered, unless it hangs up (the    *)
(* loop writes one envelope for every command it parses).                 *)
EveryCommandAnswered ==
    \A c \in Conns : cl[c].pc = "waiting" ~> cl[c].pc # "waiting"

(* Every connection whose client hung up is closed: each exit of the loop *)
(* reaches g_io_stream_close, so no descriptor is kept (spec 4.6).        *)
ConnectionReleased ==
    \A c \in Conns : cl[c].pc = "gone" ~> srv[c].pc = "closed"

=============================================================================
