----------------------------- MODULE CmdChannel -----------------------------
(***************************************************************************)
(* The conversation between a daemon and its command line client           *)
(* (cmdhandler.c, clientpipe.c, ods-enforcer.c, ods-signer.c): messages    *)
(* with an opcode and a length of two octets, over a stream that delivers  *)
(* them in pieces of any size, and a buffer of ODS_SE_MAXLINE octets at    *)
(* each end.                                                               *)
(*                                                                         *)
(* An octet is a pair: what it is and its value.  The two octets of a      *)
(* length both carry the whole length.  Neither a command nor what it      *)
(* prints need fit into the buffer at the other end: a command given as    *)
(* arguments may have any length.  Left out is the wrap of the two octets  *)
(* at commands of 64 KB.                                                   *)
(***************************************************************************)
EXTENDS Integers, Sequences, SequencesExt, FiniteSetsExt

CONSTANTS
  ChMaxLine,   \* ODS_SE_MAXLINE
  ChCommands,  \* lengths of commands
  ChPrints,    \* lengths of what a command prints
  ChOutputs,   \* bound: messages printed by a command
  ChTurns      \* bound: commands of an interactive client

CLIENT_OPC_STDOUT == 0
CLIENT_OPC_STDERR == 1
CLIENT_OPC_STDIN == 2
CLIENT_OPC_EXIT == 4

VARIABLES
  chprompt,  \* the client is interactive
  chclient,  \* "ask", "wait" or "left"
  chsent,    \* lengths of the commands sent
  chcode,    \* the exit code the client has, or -1
  chup,      \* octets on their way to the daemon
  chdown,    \* octets on their way to the client
  chcbuf,    \* the buffer of the client
  chsbuf,    \* the buffer of the daemon
  chaccept,  \* the command handler: "accept", "join" or "stopped"
  chexit,    \* need_to_exit
  chthread,  \* the thread of the client: "none", "read", "run", "lost",
             \* "end" or "aborted"
  chran,     \* commands performed
  chout,     \* what the current command printed
  chshown,   \* what the client displayed since its command
  chresult   \* the result of the last command, or -1

channelvars == <<chprompt, chclient, chsent, chcode, chup, chdown, chcbuf, chsbuf,
                 chaccept, chexit, chthread, chran, chout, chshown, chresult>>

handlervars == <<chaccept, chexit>>

Octets(tag, n) == [i \in 1..n |-> <<tag, i>>]

header(opc, len) == << <<"opc", opc>>, <<"len", len>>, <<"len", len>> >>

client_msg(opc, data) == header(opc, Len(data)) \o data

client_exit(code) == client_msg(CLIENT_OPC_EXIT, << <<"code", code>> >>)

\* client_printf: what is longer than the line buffer is cut.
client_printf(opc, data) ==
  client_msg(opc, SubSeq(data, 1, IF Len(data) > ChMaxLine THEN ChMaxLine ELSE Len(data)))

Opc(buf) == buf[1][2]
DataLen(buf) == buf[2][2]
Complete(buf) == Len(buf) >= 3 /\ DataLen(buf) + 3 <= Len(buf)
TooBig(buf) == Len(buf) >= 3 /\ DataLen(buf) + 3 > ChMaxLine
\* Mutant: up to the end of the buffer.
PayloadAll(buf) == SubSeq(buf, 4, Len(buf))
Payload(buf) == SubSeq(buf, 4, DataLen(buf) + 3)
Rest(buf) == SubSeq(buf, DataLen(buf) + 4, Len(buf))

\* A message that does not fit: what has come of it is dropped, and the header
\* now announces what is still to come.
Truncated(buf) == header(Opc(buf), DataLen(buf) - (Len(buf) - 3))
Awaiting(buf) == IF TooBig(buf) THEN Truncated(buf) ELSE buf

\* The daemon's extract_msg, up to the command it finds.
RECURSIVE server_extract(_)
server_extract(buf) ==
  IF ~Complete(buf) THEN [buf |-> Awaiting(buf), found |-> FALSE, cmd |-> <<>>]
  ELSE IF Opc(buf) = CLIENT_OPC_STDIN
         THEN [buf |-> Rest(buf), found |-> TRUE, cmd |-> Payload(buf)]
         ELSE server_extract(Rest(buf))

\* The octet at offset 3 once the rest of the buffer has been moved to its
\* front.
OctetAfterMove(buf) ==
  IF Len(Rest(buf)) >= 4 THEN Rest(buf)[4] ELSE buf[4]

\* The client's extract_msg: everything is displayed up to the exit code.
RECURSIVE client_extract(_, _)
client_extract(buf, shown) ==
  IF ~Complete(buf)
    THEN [buf |-> Awaiting(buf), shown |-> shown, exit |-> FALSE, code |-> -1]
  ELSE IF Opc(buf) = CLIENT_OPC_EXIT
    THEN [buf |-> Rest(buf), shown |-> shown, exit |-> TRUE,
          code |-> OctetAfterMove(buf)[2]]
  ELSE client_extract(Rest(buf), Append(shown, Payload(buf)))

\* How much a read takes: any part of what is there that fits.
ReadSizes(queue, room) == 1..Min({Len(queue), room})

(***************************************************************************)
(* The client: interface_start                                             *)
(***************************************************************************)
\* A line of the prompt fits into userbuf with its zero.
SendCommand(len) ==
  /\ chclient = "ask"
  /\ chprompt => len < ChMaxLine
  /\ Len(chsent) < (IF chprompt THEN ChTurns ELSE 1)
  /\ chup' = chup \o client_msg(CLIENT_OPC_STDIN, Octets(<<"cmd", Len(chsent) + 1>>, len))
  /\ chsent' = Append(chsent, len)
  /\ chclient' = "wait"
  /\ chshown' = <<>>
  /\ UNCHANGED <<handlervars, chprompt, chcode, chdown, chcbuf, chsbuf, chthread, chran, chout, chresult>>

\* End of input, or the words exit and quit.
Quit ==
  /\ chclient = "ask"
  /\ chprompt
  /\ chclient' = "left"
  /\ UNCHANGED <<handlervars, chprompt, chsent, chcode, chup, chdown, chcbuf, chsbuf, chthread,
                 chran, chout, chshown, chresult>>

ClientRead ==
  /\ chclient = "wait"
  /\ \E n \in ReadSizes(chdown, ChMaxLine - Len(chcbuf)) :
       /\ chdown' = SubSeq(chdown, n + 1, Len(chdown))
       /\ \E got \in {client_extract(chcbuf \o SubSeq(chdown, 1, n), chshown)} :
            /\ chcbuf' = got.buf
            /\ chshown' = got.shown
            /\ chcode' = got.code
            /\ chclient' = IF ~got.exit THEN "wait"
                           ELSE IF chprompt THEN "ask" ELSE "left"
  /\ UNCHANGED <<handlervars, chprompt, chsent, chup, chsbuf, chthread, chran, chout, chresult>>

\* The daemon has gone, and what it sent has been read: "Remote closed
\* connection", 206.
RemoteClosed ==
  /\ chclient = "wait"
  /\ chaccept = "stopped" /\ chdown = <<>>
  /\ chclient' = "left"
  /\ chcode' = 206
  /\ UNCHANGED <<handlervars, chprompt, chsent, chup, chdown, chcbuf, chsbuf,
                 chthread, chran, chout, chshown, chresult>>

(***************************************************************************)
(* The daemon: cmdhandler_start and cmdhandler_handle_client_conversation  *)
(***************************************************************************)
\* A connection is accepted.  Without a context of its own (a connection to
\* the database) the thread answers 1 at once and ends; the socket stays open.
AcceptClient(context) ==
  /\ chaccept = "accept" /\ ~chexit
  /\ chthread = "none"
  /\ IF context THEN chthread' = "read" /\ UNCHANGED <<chdown, chout, chresult>>
     ELSE /\ chthread' = "lost"
          /\ chout' = <<Octets(<<"out", 1>>, 1)>>
          /\ chdown' = chdown \o client_printf(CLIENT_OPC_STDERR, chout'[1]) \o client_exit(1)
          /\ chresult' = 1
  /\ UNCHANGED <<handlervars, chprompt, chclient, chsent, chcode, chup, chcbuf, chsbuf,
                 chran, chshown>>

\* cmdhandler_stop, from the main thread of the daemon.
StopHandler ==
  /\ ~chexit /\ chaccept # "stopped"
  /\ chexit' = TRUE
  /\ UNCHANGED <<chaccept, chprompt, chclient, chsent, chcode, chup, chdown, chcbuf, chsbuf,
                 chthread, chran, chout, chshown, chresult>>

\* Woken by the connection of self_pipe_trick, or after the last one it
\* accepted, the loop ends.
LeaveLoop ==
  /\ chaccept = "accept" /\ chexit
  /\ chaccept' = "join"
  /\ UNCHANGED <<chexit, chprompt, chclient, chsent, chcode, chup, chdown, chcbuf, chsbuf,
                 chthread, chran, chout, chshown, chresult>>

\* janitor_thread_joinall: every thread of a client must have ended.
Joined == chthread \notin {"read", "run"}

JoinAll ==
  /\ chaccept = "join"
  /\ Joined
  /\ chaccept' = "stopped"
  /\ UNCHANGED <<chexit, chprompt, chclient, chsent, chcode, chup, chdown, chcbuf, chsbuf,
                 chthread, chran, chout, chshown, chresult>>

(***************************************************************************)
(* The thread of a client: cmdhandler_handle_client_conversation           *)
(***************************************************************************)
\* read asks for up to three octets more than extract_msg allows in the buffer
\* (assert(*pos <= buflen), cmdhandler.c:182): with them the daemon aborts.
ServerRead ==
  /\ chthread = "read"
  /\ \E n \in ReadSizes(chup, ChMaxLine - Len(chsbuf) + 3) :
       \E buf \in {chsbuf \o SubSeq(chup, 1, n)} :
         /\ chup' = SubSeq(chup, n + 1, Len(chup))
         /\ IF Len(buf) > ChMaxLine
              THEN /\ chsbuf' = buf
                   /\ chthread' = "aborted" /\ chaccept' = "stopped"
                   /\ UNCHANGED <<chran, chout>>
              ELSE \E got \in {server_extract(buf)} :
                     /\ chsbuf' = got.buf
                     /\ UNCHANGED chaccept
                     /\ IF got.found
                          THEN /\ chran' = Append(chran, got.cmd)
                               /\ chthread' = "run"
                               /\ chout' = <<>>
                          ELSE UNCHANGED <<chran, chthread, chout>>
  /\ UNCHANGED <<chexit, chprompt, chclient, chsent, chcode, chdown, chcbuf, chshown, chresult>>

\* The command prints a text; nothing is run for an empty line.
PrintText(opc, len) ==
  /\ chthread = "run"
  /\ Last(chran) # <<>>
  /\ Len(chout) < ChOutputs
  /\ \E text \in {Octets(<<"out", Len(chout) + 1>>, len)} :
       /\ chout' = Append(chout, text)
       /\ chdown' = chdown \o client_printf(opc, text)
  /\ UNCHANGED <<handlervars, chprompt, chclient, chsent, chcode, chup, chcbuf, chsbuf, chthread,
                 chran, chshown, chresult>>

EndCommand(code) ==
  /\ chthread = "run"
  /\ Last(chran) = <<>> => code = 0
  /\ chresult' = code
  /\ chdown' = chdown \o client_exit(code)
  /\ chthread' = "read"
  /\ UNCHANGED <<handlervars, chprompt, chclient, chsent, chcode, chup, chcbuf, chsbuf, chran,
                 chout, chshown>>

\* The client has closed the connection: the thread ends.
ServerEnds ==
  /\ chthread = "read"
  /\ chclient = "left" /\ chup = <<>>
  /\ chthread' = "end"
  /\ UNCHANGED <<handlervars, chprompt, chclient, chsent, chcode, chup, chdown, chcbuf, chsbuf,
                 chran, chout, chshown, chresult>>

ChannelInit ==
  /\ chprompt \in BOOLEAN
  /\ chclient = "ask" /\ chsent = <<>> /\ chcode = -1
  /\ chup = <<>> /\ chdown = <<>> /\ chcbuf = <<>> /\ chsbuf = <<>>
  /\ chaccept = "accept" /\ chexit = FALSE
  /\ chthread = "none" /\ chran = <<>> /\ chout = <<>> /\ chshown = <<>>
  /\ chresult = -1

ChannelNext ==
  \/ \E len \in ChCommands : SendCommand(len)
  \/ Quit
  \/ ClientRead
  \/ RemoteClosed
  \/ \E context \in BOOLEAN : AcceptClient(context)
  \/ StopHandler
  \/ LeaveLoop
  \/ JoinAll
  \/ ServerRead
  \/ \E len \in ChPrints : \/ PrintText(CLIENT_OPC_STDOUT, len)
                           \/ PrintText(CLIENT_OPC_STDERR, len)
  \/ \E code \in {0, 1} : EndCommand(code)
  \/ ServerEnds

ChannelSpec == ChannelInit /\ [][ChannelNext]_channelvars

(***************************************************************************)
(* Properties                                                              *)
(***************************************************************************)
\* A message that fits into the buffer at the other end with its header.
Fits(text) == Len(text) + 3 <= ChMaxLine

\* However the stream is cut into reads, the client takes the exit code of the
\* command it sent, and by then has displayed everything the command printed,
\* in order: whole where it fits into the client's buffer, and otherwise the
\* end of it ("truncating", extract_msg in ods-enforcer.c and ods-signer.c).
AnswerComplete ==
  chclient # "wait" /\ chcode \notin {-1, 206} =>
    /\ chcode = chresult
    /\ Len(chshown) = Len(chout)
    /\ \A i \in 1..Len(chout) :
         IF Fits(chout[i]) THEN chshown[i] = chout[i]
         ELSE IsSuffix(chshown[i], SubSeq(chout[i], 1, Min({Len(chout[i]), ChMaxLine})))

\* Threads that read no more: the last one died at the assertion of extract_msg.
Unheard == {"none", "lost", "aborted"}

\* Every command that was sent is performed once and in order, and none is
\* performed while the client still reads the answer to another: whole when it
\* fits into the daemon's buffer, and otherwise some end of it, where the
\* comment of extract_msg promises a truncation (cmdhandler.c:159).  Only a
\* client whose connection got no context, or that the daemon left when it
\* stopped or died, goes on without.  The daemon does not stop with a command
\* half done.
CommandsOnce ==
  /\ Len(chran) \in {Len(chsent) - 1, Len(chsent)} \/ chthread \in Unheard
  /\ \A i \in 1..Len(chran) :
       LET sent == Octets(<<"cmd", i>>, chsent[i])
       IN IF Fits(sent) THEN chran[i] = sent ELSE chran[i] # <<>> /\ IsSuffix(chran[i], sent)
  /\ chclient # "wait" => Len(chran) = Len(chsent) \/ chthread \in Unheard
  /\ chaccept = "stopped" => chthread # "run"

\* Neither buffer overflows: the client always has room for another octet, as a
\* read without room would look like the end of the connection, and the
\* assertion at the top of the daemon's extract_msg fails for no command that
\* fits into the buffer with its header.
BuffersHold ==
  /\ Len(chsbuf) > ChMaxLine <=> chthread = "aborted"
  /\ chthread = "aborted" => Last(chsent) + 3 > ChMaxLine
  /\ Len(chcbuf) < ChMaxLine

\* A command and its answer cross the socket whole: performed once, answered
\* with its own exit code and all it printed, within the buffers.
ChannelSound == AnswerComplete /\ CommandsOnce /\ BuffersHold

=============================================================================
