------------------------------ MODULE XfrSlots ------------------------------
(***************************************************************************)
(* How the zones share the sockets of the transfer thread                  *)
(* (signer/src/wire/xfrd.c, tcpset.c and daemon/xfrhandler.c): a fixed     *)
(* number of TCP connections and of UDP sockets, a waiting list for each,  *)
(* and one timer per zone.  A zone that waits has no timer; whoever        *)
(* releases a socket hands it on.                                          *)
(*                                                                         *)
(* The thread runs one handler at a time, so a handler is one step: an     *)
(* operator on the state of the thread, with the name of the function it   *)
(* models.  What the operating system answers to the calls a handler makes *)
(* for a zone (socket, connect, sendto) is the function sys, chosen anew   *)
(* in every step.  What an answer contains is in XfrInput.                 *)
(***************************************************************************)
EXTENDS Integers, Sequences, FiniteSets, SequencesExt

CONSTANTS XfrZones,    \* the zones with a DNS input adapter
          TcpMax,      \* TCPSET_MAX
          UdpMax,      \* XFRD_MAX_UDP
          MaxRounds,   \* XFRD_MAX_ROUNDS
          Masters,     \* the length of every zone's list of masters
          SysOutcomes  \* scenarios: sets of outcomes of the calls

ASSUME XfrSlotsAssumption ==
  /\ IsFiniteSet(XfrZones)
  /\ TcpMax \in Nat \ {0} /\ UdpMax \in Nat \ {0}
  /\ MaxRounds \in Nat \ {0} /\ Masters \in Nat \ {0}
  /\ SysOutcomes \subseteq SUBSET {"ok", "fail", "nobind"}

VARIABLES
  outcomes,  \* the scenario
  xs         \* the state of the thread: z, the xfrd_type of every zone; tc,
             \* tcp_count; uu, udp_use_num; tq and uq, the waiting lists; ok,
             \* whether all assertions of the code held so far

slotvars == <<outcomes, xs>>

\* xfrd_create: conn is tcp_conn # -1, fd the socket in the handler, reading
\* tcp->is_reading, tw and uw tcp_waiting and udp_waiting, timer whether the
\* handler has a timeout; master 0 is no master.
xfrd_create ==
  [conn |-> FALSE, fd |-> "none", reading |-> FALSE, tw |-> FALSE,
   uw |-> FALSE, timer |-> TRUE, round |-> -1, master |-> 0]

SlotsInit ==
  /\ outcomes \in SysOutcomes
  /\ xs = [z |-> [i \in XfrZones |-> xfrd_create], tc |-> 0, uu |-> 0,
           tq |-> <<>>, uq |-> <<>>, ok |-> TRUE]

Sys == [XfrZones -> outcomes]

Asserted(s, cond) == [s EXCEPT !.ok = @ /\ cond]

---------------------------------------------------------------------------
(* UDP. *)

\* Whether xfrd_udp_send_request_ixfr gets a socket.
Sends(s, i, sys) == ~s.z[i].conn /\ sys[i] = "ok"

xfrd_udp_send_request_ixfr(s, i, sys) ==
  [s EXCEPT !.z[i].fd = IF Sends(s, i, sys) THEN "udp" ELSE "none",
            !.z[i].timer = @ \/ ~s.z[i].conn]

\* The waiting zones are tried in turn until one of them can send.
xfrd_udp_release(t, i, sys) ==
  LET s == [Asserted(t, ~t.z[i].uw) EXCEPT !.z[i].fd = "none"]
      serves == {k \in 1 .. Len(s.uq) : Sends(s, s.uq[k], sys)}
      n == IF serves = {} THEN Len(s.uq)
           ELSE CHOOSE k \in serves : \A l \in serves : k <= l
      Tried(u, w) ==
        xfrd_udp_send_request_ixfr([u EXCEPT !.z[w].uw = FALSE], w, sys)
  IN IF s.uu = UdpMax /\ s.uq # <<>>
     THEN [FoldLeft(Tried, s, SubSeq(s.uq, 1, n))
             EXCEPT !.uq = SubSeq(s.uq, n + 1, Len(s.uq)),
                    !.uu = IF serves = {} THEN @ - 1 ELSE @]
     ELSE [s EXCEPT !.uu = IF @ > 0 THEN @ - 1 ELSE @]

---------------------------------------------------------------------------
(* TCP. *)

\* xfrd_tcp_release without open_waiting.
CloseConn(t, i) ==
  [Asserted(t, t.z[i].conn /\ ~t.z[i].tw)
     EXCEPT !.z[i].conn = FALSE, !.z[i].fd = "none",
            !.z[i].reading = FALSE, !.tc = @ - 1]

\* xfrd_tcp_open, and xfrd_tcp_xfr when it succeeds.  Without an interface to
\* bind to it returns -1, which its callers take for success.
xfrd_tcp_open(s, i, sys) ==
  CASE sys[i] = "ok" ->
         [s EXCEPT !.z[i].fd = "tcp", !.z[i].reading = FALSE,
                   !.z[i].timer = TRUE]
    [] sys[i] = "fail" ->
         CloseConn([s EXCEPT !.z[i].timer = TRUE], i)
    [] sys[i] = "nobind" -> s

\* The zone takes a free connection, and stops its UDP use, if any.
TakeConn(t, i, sys) ==
  LET s == [t EXCEPT !.tc = @ + 1, !.z[i].conn = TRUE, !.z[i].tw = FALSE]
  IN xfrd_tcp_open(IF s.z[i].fd # "none" THEN xfrd_udp_release(s, i, sys)
                   ELSE s, i, sys)

\* Whoever came last is in front.
xfrd_tcp_obtain(t, i, sys) ==
  LET s == Asserted(t, ~t.z[i].conn /\ ~t.z[i].tw)
  IN IF s.tc < TcpMax
     THEN TakeConn(s, i, sys)
     ELSE [s EXCEPT !.z[i].tw = TRUE, !.z[i].timer = FALSE,
                    !.tq = <<i>> \o @]

\* The connections that are free go to the waiting zones.
xfrd_tcp_release(t, i, sys) ==
  LET HandOn(s, w) ==
        IF s.tc < TcpMax
        THEN TakeConn([s EXCEPT !.tq = Tail(@)], w, sys)
        ELSE s
  IN FoldLeft(HandOn, CloseConn(t, i), t.tq)

xfrd_udp_obtain(t, i, sys) ==
  LET a == Asserted(t, ~t.z[i].uw)
      s == IF a.z[i].conn THEN xfrd_tcp_release(a, i, sys) ELSE a
  IN IF s.uu < UdpMax
     THEN [xfrd_udp_send_request_ixfr(s, i, sys)
             EXCEPT !.uu = IF Sends(s, i, sys) THEN @ + 1 ELSE @]
     ELSE [s EXCEPT !.z[i].uw = TRUE, !.z[i].timer = FALSE,
                    !.uq = Append(@, i)]

---------------------------------------------------------------------------
(* Requests and answers. *)

\* xfrd_make_request; next_master is never set by the program.  Whether the
\* request goes over UDP depends on the serials, on a retransfer and on what
\* the master implements.
xfrd_make_request(t, i, sys, udp) ==
  LET z == t.z[i]
      next == z.round # -1 /\ z.master \in 1 .. Masters - 1
      round == IF next THEN z.round ELSE z.round + 1
      s == [t EXCEPT !.z[i].master = IF next THEN @ + 1 ELSE 1,
                     !.z[i].round = IF round < MaxRounds THEN round ELSE -1,
                     !.z[i].timer = TRUE]
  IN IF round >= MaxRounds THEN s
     ELSE IF udp THEN xfrd_udp_obtain(s, i, sys)
     ELSE xfrd_tcp_obtain(s, i, sys)

\* What xfrd_handle_packet returns: more packets are to come; the transfer is
\* done or there is nothing new (XFRD_PKT_XFR, XFRD_PKT_NEWLEASE); the answer
\* is bad, IXFR is not implemented or a newer serial was notified
\* (XFRD_PKT_BAD, XFRD_PKT_NOTIMPL); it is truncated.
Answers == {"more", "done", "bad", "tc"}

\* Only TCP answers have several packets, only UDP answers are truncated.
Possible(z, answer) ==
  /\ answer = "tc" => ~z.conn
  /\ answer = "more" => z.conn

xfrd_handle_packet(s, i, answer) ==
  IF answer = "done"
  THEN [s EXCEPT !.z[i].round = -1, !.z[i].timer = TRUE]
  ELSE s

\* xfrd_tcp_read, of a message or of a lost connection ("closed"), or with
\* nothing complete to read yet ("again").
xfrd_tcp_read(t, i, sys, answer, udp) ==
  LET s == xfrd_handle_packet(t, i, answer)
      r == xfrd_tcp_release(s, i, sys)
  IN CASE answer \in {"again", "more"} -> s
       [] answer = "closed" ->
            xfrd_tcp_release([t EXCEPT !.z[i].timer = TRUE], i, sys)
       [] answer = "done" -> Asserted(r, r.z[i].round = -1)
       [] OTHER -> xfrd_make_request(r, i, sys, udp)

\* xfrd_tcp_write: the connection failed, nothing can be written yet, or the
\* request is out and the answer is read.
xfrd_tcp_write(s, i, sys, written, answer, udp) ==
  CASE written = "again" -> s
    [] written = "error" ->
         xfrd_tcp_release([s EXCEPT !.z[i].timer = TRUE], i, sys)
    [] written = "done" ->
         xfrd_tcp_read([s EXCEPT !.z[i].reading = TRUE], i, sys, answer,
                       udp)

\* xfrd_udp_read; "closed" is a failed recvfrom.
xfrd_udp_read(t, i, sys, answer, udp) ==
  LET s == xfrd_handle_packet(t, i, answer)
      r == xfrd_udp_release(s, i, sys)
  IN CASE answer = "closed" -> r
       [] answer = "tc" ->
            xfrd_tcp_obtain([r EXCEPT !.z[i].timer = TRUE], i, sys)
       [] answer = "done" -> Asserted(r, s.z[i].round = -1)
       [] OTHER -> xfrd_make_request(r, i, sys, udp)

---------------------------------------------------------------------------
(* xfrd_handle_zone, the handler of the zone, by the kind of event. *)

TcpWritable ==
  \E i \in XfrZones, sys \in Sys, written \in {"again", "error", "done"},
     answer \in Answers \cup {"again", "closed"}, udp \in BOOLEAN :
    /\ xs.z[i].fd = "tcp" /\ ~xs.z[i].reading
    /\ Possible(xs.z[i], answer)
    /\ xs' = xfrd_tcp_write([xs EXCEPT !.z[i].timer = TRUE], i, sys,
                            written, answer, udp)
    /\ UNCHANGED outcomes

TcpReadable ==
  \E i \in XfrZones, sys \in Sys, answer \in Answers \cup {"again", "closed"},
     udp \in BOOLEAN :
    /\ xs.z[i].fd = "tcp" /\ xs.z[i].reading
    /\ Possible(xs.z[i], answer)
    /\ xs' = xfrd_tcp_read([xs EXCEPT !.z[i].timer = TRUE], i, sys, answer,
                           udp)
    /\ UNCHANGED outcomes

UdpReadable ==
  \E i \in XfrZones, sys \in Sys, answer \in Answers \cup {"closed"},
     udp \in BOOLEAN :
    /\ xs.z[i].fd = "udp"
    /\ Possible(xs.z[i], answer)
    /\ xs' = xfrd_udp_read([xs EXCEPT !.z[i].timer = TRUE], i, sys, answer,
                           udp)
    /\ UNCHANGED outcomes

\* The timer of the zone runs out.  A zone that waits goes on waiting.
xfrd_timeout(t, i, sys, udp) ==
  LET c == IF t.z[i].conn THEN xfrd_tcp_release(t, i, sys) ELSE t
      s == IF c.z[i].fd # "none"
           THEN xfrd_udp_release(Asserted(c, ~c.z[i].conn), i, sys) ELSE c
  IN IF s.z[i].tw \/ s.z[i].uw
     THEN [s EXCEPT !.z[i].timer = FALSE]
     ELSE xfrd_make_request(s, i, sys, udp)

Timeout ==
  \E i \in XfrZones, sys \in Sys, udp \in BOOLEAN :
    /\ xs.z[i].timer
    /\ xs' = xfrd_timeout(xs, i, sys, udp)
    /\ UNCHANGED outcomes

---------------------------------------------------------------------------
(* The other threads. *)

\* A NOTIFY that is accepted, or the retransfer command.
xfrd_set_timer_now ==
  \E i \in XfrZones :
    /\ xs' = [xs EXCEPT !.z[i].timer = TRUE]
    /\ UNCHANGED outcomes

SlotsNext ==
  \/ TcpWritable \/ TcpReadable \/ UdpReadable \/ Timeout
  \/ xfrd_set_timer_now

SlotsSpec == SlotsInit /\ [][SlotsNext]_slotvars

---------------------------------------------------------------------------
(* Properties. *)

\* The type invariant of the module: the values that the fields of xfrd_type
\* and xfrhandler_type take.
SlotsTypeOK ==
  /\ outcomes \in SysOutcomes
  /\ xs.z \in [XfrZones ->
       [conn : BOOLEAN, fd : {"none", "udp", "tcp"}, reading : BOOLEAN,
        tw : BOOLEAN, uw : BOOLEAN, timer : BOOLEAN,
        round : -1 .. MaxRounds - 1, master : 0 .. Masters]]
  /\ xs.tc \in Int /\ xs.uu \in Int /\ xs.ok \in BOOLEAN
  /\ xs.tq \in Seq(XfrZones) /\ xs.uq \in Seq(XfrZones)

\* No connection or socket is lost or handed out twice: tcp_count and
\* udp_use_num count the zones that hold one, whichever call failed and
\* whoever was waiting (xfrd_tcp_release, xfrd_udp_release).
SlotsCounted ==
  /\ xs.tc = Cardinality({i \in XfrZones : xs.z[i].conn}) /\ xs.tc <= TcpMax
  /\ xs.uu = Cardinality({i \in XfrZones : xs.z[i].fd = "udp"})
  /\ xs.uu <= UdpMax

\* Nobody waits for what is free: zones are on a waiting list only while
\* every connection, or socket, is in use, so that there is somebody to hand
\* one on.
WaitOnlyWhenFull ==
  /\ xs.tq # <<>> => xs.tc = TcpMax
  /\ xs.uq # <<>> => xs.uu = UdpMax

\* No zone is forgotten: every zone has a timer, or waits on exactly the list
\* its flag says, once, from which it is taken when a socket is released.  A
\* zone without either would not be transferred again until someone sends a
\* NOTIFY (xfrd_unset_timer in xfrd_tcp_obtain and xfrd_udp_obtain).  When
\* xfrd_tcp_open finds no interface to bind to this fails for a zone that was
\* waiting: xfrd_tcp_release counts on the slot being released.
NotForgotten ==
  \A i \in XfrZones :
    LET Times(q) == Len(SelectSeq(q, LAMBDA w : w = i))
    IN /\ "nobind" \notin outcomes =>
            xs.z[i].timer \/ xs.z[i].tw \/ xs.z[i].uw
       /\ Times(xs.tq) = IF xs.z[i].tw THEN 1 ELSE 0
       /\ Times(xs.uq) = IF xs.z[i].uw THEN 1 ELSE 0

\* The assertions of xfrd.c hold: no connection is obtained by a zone that has
\* one or waits, nor released by one that has none, UDP is not used together
\* with TCP, and a transfer ends the round.
AssertionsHold == xs.ok

\* The connections and sockets that zones share are counted, handed on and
\* waited for so that no zone is left without a transfer.
SlotsSound ==
  SlotsTypeOK /\ SlotsCounted /\ WaitOnlyWhenFull /\ NotForgotten /\ AssertionsHold

=============================================================================
