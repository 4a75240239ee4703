------------------------------ MODULE XfrInput ------------------------------
(***************************************************************************)
(* How a zone that is received by zone transfer reaches the signer:        *)
(* signer/src/wire/xfrd.c receives the transfer and writes it to the file  *)
(* <zone>.xfrd, signer/src/adapter/addns.c reads that file into the input  *)
(* view, and the two keep track of each other through three serials with   *)
(* the times at which they were acquired.                                  *)
(*                                                                         *)
(* Three threads take part.  The transfer thread dumps every packet of an  *)
(* answer under the rw_lock and commits the answer under the zone_lock; a  *)
(* worker reads under the zone_lock, after it has renamed the file; the    *)
(* listener enters the serial of a NOTIFY.  One zone is modelled: the      *)
(* sockets that the zones share are in XfrSlots.                           *)
(*                                                                         *)
(* A line of the file is ";;BEGINPACKET" ("begin"), ";;ENDPACKET" ("end")  *)
(* or the resource records of one packet ("data"), of which only the kind  *)
(* of transfer, its serials and its place in the answer are kept.          *)
(*                                                                         *)
(* The protocol of the two loses data in ways that its serials do not      *)
(* show.  The variable mishap records which of them have happened, so that *)
(* the properties can say what holds until then:                           *)
(*   "dropped"  the view was reset after packets were read into it in the  *)
(*              same reading (tools.c:157): serial_xfr is past them, their *)
(*              records are nowhere, until a whole zone is read;           *)
(*   "emptied"  a retransfer has emptied a file with committed transfers   *)
(*              (xfrd.c:530), and was not committed yet;                   *)
(*   "damaged"  a line could not be written, so that a committed answer is *)
(*              not whole in the file, or a reading that met such an       *)
(*              answer has thrown away the rest of the file.               *)
(***************************************************************************)
EXTENDS Naturals, Sequences, SequencesExt

CONSTANTS Serials,      \* serial numbers are 0 .. Serials-1 and wrap around
          FirstSerials, \* where the master's serial may start
          MaxParts,     \* bound: packets of one answer
          MaxUnread,    \* bound: answers begun in the two files
          MaxTime,      \* bound: the clock
          XfrOptions    \* scenarios: [retransfer, abort, fails, changes]:
                        \* whether there are retransfers and answers that
                        \* are cut off, and the bounds on writes that fail
                        \* and on changes of the zone by the master

ASSUME XfrInputAssumption ==
  /\ Serials \in Nat /\ Serials % 2 = 0
  /\ FirstSerials \subseteq 0 .. Serials - 1
  /\ MaxParts \in Nat \ {0} /\ MaxUnread \in Nat /\ MaxTime \in Nat
  /\ XfrOptions \subseteq
       [retransfer : BOOLEAN, abort : BOOLEAN, fails : Nat,
        changes : Nat]
  /\ \A o \in XfrOptions : Serials > 2 * o.changes + 1

VARIABLES
  xoption,   \* the scenario
  history,   \* the serials the master has had, oldest first
  xnow,      \* time_now(), never 0: 0 is "not acquired"
  serial,    \* xfrd->serial_*, and the two retransfer flags
  msg,       \* xfrd->msg_*: the answer that is being received, and whether
             \* some of it is not in the file
  xfile,     \* the lines of <zone>.xfrd, empty when it does not exist
  xtmp,      \* the lines of <zone>.xfrd.tmp that the reader has not read
  xreader,   \* a worker in addns_read_file: "idle", "reading" or, once it
             \* has read a packet into the view, "applied"
  forceread, \* TASK_FORCEREAD is scheduled
  held,      \* the serial of the input last committed to the views
  mishap,    \* what went wrong: a subset of Mishaps
  faults     \* how many writes and openings of files have failed

xvars == <<xoption, history, xnow, serial, msg, xfile, xtmp, xreader,
           forceread, held, mishap, faults>>

Mishaps == {"dropped", "emptied", "damaged"}

None == Serials   \* no serial

Gt(a, b) ==
  LET d == (a + Serials - b) % Serials IN d > 0 /\ d < Serials \div 2

Idle == [state |-> "none", axfr |-> FALSE, new |-> 0, old |-> 0, seq |-> 0,
         of |-> 0, failed |-> FALSE]

\* xfrd_create
XfrInit ==
  /\ xoption \in XfrOptions
  /\ \E s \in FirstSerials : history = <<s>>
  /\ xnow = 1
  /\ serial = [xfr |-> 0, xfrAt |-> 0, disk |-> 0, diskAt |-> 0,
               notify |-> 0, notifyAt |-> 0,
               retransfer |-> FALSE, msgRetransfer |-> FALSE]
  /\ msg = Idle
  /\ xfile = <<>> /\ xtmp = <<>>
  /\ xreader = "idle" /\ forceread = FALSE
  /\ held = None /\ mishap = {} /\ faults = 0

---------------------------------------------------------------------------
(* The surroundings. *)

\* The master, which is not part of the program, changes the zone.
XChange ==
  /\ Len(history) <= xoption.changes
  /\ history' = Append(history, (Last(history) + 1) % Serials)
  /\ UNCHANGED <<xoption, xnow, serial, msg, xfile, xtmp, xreader, forceread,
                 held, mishap, faults>>

XTick ==
  /\ xnow < MaxTime
  /\ xnow' = xnow + 1
  /\ UNCHANGED <<xoption, history, serial, msg, xfile, xtmp, xreader,
                 forceread, held, mishap, faults>>

\* The retransfer command.
cmd_retransfer ==
  /\ xoption.retransfer
  /\ ~serial.retransfer /\ ~serial.msgRetransfer
  /\ serial' = [serial EXCEPT !.retransfer = TRUE]
  /\ UNCHANGED <<xoption, history, xnow, msg, xfile, xtmp, xreader,
                 forceread, held, mishap, faults>>

\* query_process_notify, of a NOTIFY with a serial; one without only sets the
\* timer of the zone.
query_process_notify ==
  \E s \in Range(history) :
    /\ Gt(s, serial.disk)
    /\ serial.notifyAt = 0
    /\ serial' = [serial EXCEPT !.notify = s, !.notifyAt = xnow]
    /\ UNCHANGED <<xoption, history, xnow, msg, xfile, xtmp, xreader,
                   forceread, held, mishap, faults>>

---------------------------------------------------------------------------
(* The transfer thread. *)

\* xfrd_make_request, and what xfrd_tcp_xfr and xfrd_udp_send_request_ixfr
\* put in the question: an AXFR, or the IXFR since the serial on disk.  A
\* master that does not implement IXFR is asked for an AXFR, and so is, in a
\* retransfer, one that answers over UDP with too little.
AskMaster ==
  /\ msg.state = "none"
  /\ \E noixfr \in BOOLEAN :
       /\ serial' = [serial EXCEPT !.retransfer = FALSE,
                        !.msgRetransfer = @ \/ serial.retransfer]
       /\ msg' = [Idle EXCEPT !.state = "asked",
                     !.axfr = serial.retransfer \/ serial.xfrAt = 0 \/ noixfr]
  /\ UNCHANGED <<xoption, history, xnow, xfile, xtmp, xreader, forceread,
                 held, mishap, faults>>

\* The first record of an answer is the SOA of its serial.
IsCurrent(s) ==
  ~serial.msgRetransfer /\ serial.diskAt # 0 /\ serial.disk = s

IsOld(s) ==
  ~serial.msgRetransfer /\ serial.diskAt # 0 /\ ~Gt(s, serial.disk)

\* xfrd_parse_packet, when the answer has the serial that is on disk: a new
\* lease, or the next master is asked while there is a notify to satisfy.
\* Both end the request.  time_now() may be a second later than the time the
\* transfer thread goes by.
xfrd_newlease ==
  /\ msg.state = "asked"
  /\ \E s \in Range(history) : IsCurrent(s)
  /\ \E late \in {0, 1} :
       /\ xnow + late <= MaxTime
       /\ xnow' = xnow + late
       /\ serial' = [serial EXCEPT !.diskAt = xnow,
                        !.xfrAt = IF serial.xfr = serial.disk
                                  THEN xnow + late ELSE @]
  /\ msg' = Idle
  /\ UNCHANGED <<xoption, history, xfile, xtmp, xreader, forceread, held, mishap, faults>>

\* xfrd_parse_rrs: an IXFR has to start from the serial on disk, which is the
\* one that was asked for; in a retransfer the code relies on the master.
StartAccepted(old) ==
  serial.diskAt # 0 /\ (serial.msgRetransfer \/ old = serial.disk)

\* xfrd_dump_packet opens the file anew for the first packet of a full
\* retransfer.
Truncates(axfr, n) == serial.msgRetransfer /\ n = 1 /\ axfr

\* xfrd_dump_packet.  A packet that is not written (it cannot be converted,
\* there is no path, or the file cannot be opened) is passed over.
Dumped(new, old, axfr, n, of, ok) ==
  LET file == IF Truncates(axfr, n) THEN <<>> ELSE xfile
      begin == IF n = 1 THEN <<[line |-> "begin"]>> ELSE <<>>
  IN IF ~ok THEN xfile
     ELSE file \o begin \o
          <<[line |-> "data", axfr |-> axfr, new |-> new, old |-> old,
             n |-> n, last |-> n = of]>>

\* A write, or the opening of a file, that may fail does so at the cost of the
\* bound.
Written(ok) ==
  /\ ok \/ faults < xoption.fails
  /\ faults' = IF ok THEN faults ELSE faults + 1

HasEnd(f) == \E i \in DOMAIN f : f[i].line = "end"

Unread ==
  Len(SelectSeq(xtmp \o xfile, LAMBDA l : l.line = "begin"))

\* xfrd_handle_packet of the first packet of an answer with a serial to take:
\* the whole zone, or what changed since some serial the master has had.
xfrd_first_packet ==
  /\ msg.state = "asked"
  /\ Unread < MaxUnread
  /\ \E s \in Range(history), axfr \in BOOLEAN, of \in 1 .. MaxParts,
        ok \in BOOLEAN :
       \E old \in IF axfr THEN {s} ELSE Range(history) \ {s} :
         /\ Written(ok)
         /\ msg.axfr => axfr
         /\ ~axfr => Gt(s, old)
         /\ ~IsCurrent(s) /\ ~IsOld(s)
         /\ ~axfr => StartAccepted(old)
         /\ ~axfr /\ serial.msgRetransfer => old = serial.disk
         /\ serial' = [serial EXCEPT !.notify =
              IF serial.notifyAt # 0 /\ Gt(s, serial.notify) THEN s ELSE @]
         /\ xfile' = Dumped(s, old, axfr, 1, of, ok)
         /\ mishap' = IF ok /\ Truncates(axfr, 1) /\ HasEnd(xfile)
                      THEN mishap \cup {"emptied"} ELSE mishap
         /\ msg' = [state |-> IF of = 1 THEN "dumped" ELSE "more",
                    axfr |-> axfr, new |-> s, old |-> old, seq |-> 1,
                    of |-> of, failed |-> ~ok]
  /\ UNCHANGED <<xoption, history, xnow, xtmp, xreader, forceread, held>>

\* xfrd_handle_packet of a further packet, which counts whether it could be
\* written or not.
xfrd_next_packet ==
  /\ msg.state = "more"
  /\ \E ok \in BOOLEAN :
       /\ Written(ok)
       /\ xfile' = Dumped(msg.new, msg.old, msg.axfr, msg.seq + 1, msg.of, ok)
       /\ msg' = [msg EXCEPT !.seq = @ + 1, !.failed = @ \/ ~ok,
                             !.state = IF msg.seq + 1 = msg.of
                                       THEN "dumped" ELSE @]
  /\ UNCHANGED <<xoption, history, xnow, serial, xtmp, xreader, forceread,
                 held, mishap>>

\* The connection is lost or times out, or the answer is bad: the rollback of
\* xfrd_handle_packet leaves the file as it is, and the next request starts
\* over.  An answer with an old serial ends so too.
xfrd_rollback ==
  /\ msg.state = "asked" \/ (msg.state = "more" /\ xoption.abort)
  /\ msg' = Idle
  /\ UNCHANGED <<xoption, history, xnow, serial, xfile, xtmp, xreader,
                 forceread, held, mishap, faults>>

\* What xfrd_handle_packet does with the notify after the commit.
NotifyLeft(disk) ==
  IF Gt(serial.notify, disk) THEN serial.notifyAt ELSE 0

\* xfrd_commit_packet, which waits for the zone_lock.
xfrd_commit_packet ==
  /\ msg.state = "dumped"
  /\ xreader = "idle"
  /\ LET at == IF xnow = serial.diskAt THEN xnow + 1 ELSE xnow
     IN /\ serial' = [serial EXCEPT !.disk = msg.new, !.diskAt = at,
                                    !.msgRetransfer = FALSE,
                                    !.notifyAt = NotifyLeft(msg.new)]
        /\ forceread' = (\/ forceread
                         \/ serial.msgRetransfer
                         \/ /\ Gt(msg.new, serial.xfr)
                            /\ at > serial.xfrAt)
  /\ xfile' = Append(xfile, [line |-> "end"])
  /\ mishap' = IF msg.failed THEN mishap \cup {"damaged"}
               ELSE IF Truncates(msg.axfr, 1)
               THEN mishap \ {"emptied"} ELSE mishap
  /\ msg' = Idle
  /\ UNCHANGED <<xoption, history, xnow, xtmp, xreader, held, faults>>

\* xfrd_commit_packet when the file cannot be opened: the answer stays without
\* its end, and the serial on disk and the retransfer as they are.
xfrd_commit_fails ==
  /\ Written(FALSE)
  /\ msg.state = "dumped"
  /\ xreader = "idle"
  /\ serial' = [serial EXCEPT !.notifyAt = NotifyLeft(serial.disk)]
  /\ msg' = Idle
  /\ UNCHANGED <<xoption, history, xnow, xfile, xtmp, xreader, forceread,
                 held, mishap>>

---------------------------------------------------------------------------
(* The worker that performs TASK_FORCEREAD, with the zone_lock held from    *)
(* addns_read to the end of addns_read_file.                                *)

\* The sign command schedules the task too.
cmd_sign ==
  /\ ~forceread
  /\ forceread' = TRUE
  /\ UNCHANGED <<xoption, history, xnow, serial, msg, xfile, xtmp, xreader,
                 held, mishap, faults>>

\* The answer that is being received loses what was in the copy.
CopyLost == [msg EXCEPT !.failed = msg.state \in {"more", "dumped"}]

\* addns_read up to the first packet.  Without a file the rename fails; a copy
\* that cannot be opened is left behind, and the next one replaces it.
addns_read ==
  /\ forceread /\ xreader = "idle"
  /\ forceread' = FALSE
  /\ \/ /\ serial.diskAt = 0 \/ serial.diskAt <= serial.xfrAt \/ xfile = <<>>
        /\ UNCHANGED <<msg, xfile, xtmp, xreader, mishap, faults>>
     \/ /\ serial.diskAt > serial.xfrAt /\ xfile # <<>>
        /\ xfile' = <<>>
        /\ \E opens \in BOOLEAN :
             /\ Written(opens)
             /\ xtmp' = IF opens THEN xfile ELSE <<>>
             /\ xreader' = IF opens THEN "reading" ELSE "idle"
             /\ msg' = IF opens THEN msg ELSE CopyLost
             /\ mishap' = IF opens THEN mishap ELSE mishap \cup {"damaged"}
  /\ UNCHANGED <<xoption, history, xnow, serial, held>>

Reading == xreader # "idle"

\* The data lines of the packet at the head of a file that begins one.
PacketLength(f) ==
  CHOOSE n \in 0 .. Len(f) - 1 :
    /\ \A i \in 2 .. n + 1 : f[i].line = "data"
    /\ n + 2 <= Len(f) => f[n + 2].line # "data"

\* The records are read up to ";;ENDPACKET".  Another ";;BEGINPACKET" or the
\* end of the file comes first in an answer that was not finished.
Complete(f) ==
  LET n == PacketLength(f) IN n + 2 <= Len(f) /\ f[n + 2].line = "end"

\* addns_read_pkt compares the serials of an IXFR as numbers, and stops at
\* once, before the end of the packet, when the old one is not the smaller.
StopsShort(f) ==
  /\ PacketLength(f) > 0 /\ ~f[2].axfr
  /\ ~(f[2].old < f[2].new)

\* addns_read_pkt counts the SOA records, which are in the first packet of an
\* answer and in the last.
SoasSeen(f) ==
  LET n == PacketLength(f) IN n > 0 /\ f[2].n = 1 /\ f[n + 1].last

HeadOf(f) ==
  CASE f[1].line # "begin" -> "bogus"
    [] f[1].line = "begin" /\ (~Complete(f) \/ StopsShort(f)) -> "incomplete"
    [] OTHER -> IF SoasSeen(f) THEN "ok" ELSE "bad"

\* addns_read_pkt of a packet it accepts, and the serials that
\* addns_read_file sets.
addns_read_pkt ==
  /\ Reading /\ xtmp # <<>> /\ HeadOf(xtmp) = "ok"
  /\ serial' = [serial EXCEPT !.xfr = xtmp[2].new, !.xfrAt = serial.diskAt]
  /\ xtmp' = SubSeq(xtmp, PacketLength(xtmp) + 3, Len(xtmp))
  /\ xreader' = "applied"
  /\ mishap' = IF xtmp[2].axfr THEN mishap \ {"dropped"} ELSE mishap
  /\ UNCHANGED <<xoption, history, xnow, msg, xfile, forceread, held,
                 faults>>

\* The end of the file: tools_input commits the view, and do_forcereadzone
\* unschedules the task in case it was scheduled again.
addns_read_eof ==
  /\ Reading /\ xtmp = <<>>
  /\ held' = serial.xfr
  /\ xreader' = "idle"
  /\ forceread' = FALSE
  /\ UNCHANGED <<xoption, history, xnow, serial, msg, xfile, xtmp, mishap,
                 faults>>

\* Any other status: tools_input resets the view, with what the same reading
\* has put there.  serial_xfr stays as it is.
ViewReset == IF xreader = "applied" THEN {"dropped"} ELSE {}

\* Mutant: the unfinished packet goes behind the file.
Restored_behind(left, file) == file \o left

\* The end of addns_read_pkt for an unfinished packet: what is left of the
\* copy goes back in front of the file.
Restored(left, file) == left \o file

addns_read_incomplete ==
  /\ Reading /\ xtmp # <<>> /\ HeadOf(xtmp) = "incomplete"
  /\ \E ok \in BOOLEAN :
       /\ Written(ok)
       /\ xfile' = IF ok THEN Restored(xtmp, xfile) ELSE xfile
       /\ msg' = IF ok THEN msg ELSE CopyLost
       /\ mishap' = mishap \cup ViewReset
                    \cup IF ok THEN {} ELSE {"damaged"}
  /\ xtmp' = <<>>
  /\ xreader' = "idle"
  /\ UNCHANGED <<xoption, history, xnow, serial, forceread, held>>

\* addns_read_pkt of a packet it cannot accept: the copy is given up, with all
\* that comes after it.
addns_read_error ==
  /\ Reading /\ xtmp # <<>> /\ HeadOf(xtmp) \in {"bogus", "bad"}
  /\ mishap' = mishap \cup ViewReset \cup {"damaged"}
  /\ msg' = CopyLost
  /\ xtmp' = <<>>
  /\ xreader' = "idle"
  /\ UNCHANGED <<xoption, history, xnow, serial, xfile, forceread, held,
                 faults>>

---------------------------------------------------------------------------
XfrInputNext ==
  \/ XChange \/ XTick \/ cmd_retransfer \/ query_process_notify
  \/ AskMaster \/ xfrd_newlease \/ xfrd_first_packet
  \/ xfrd_next_packet \/ xfrd_rollback \/ xfrd_commit_packet
  \/ xfrd_commit_fails
  \/ cmd_sign \/ addns_read \/ addns_read_pkt \/ addns_read_eof
  \/ addns_read_incomplete \/ addns_read_error

XfrInputSpec == XfrInit /\ [][XfrInputNext]_xvars

---------------------------------------------------------------------------
(* Properties. *)

\* The type invariant of the module: the values that xfrd->serial_*,
\* xfrd->msg_* and the lines of the files take.
XfrInputTypeOK ==
  LET S == 0 .. Serials - 1
      Lines == [line : {"begin", "end"}] \cup
               [line : {"data"}, axfr : BOOLEAN, new : S, old : S,
                n : 1 .. MaxParts, last : BOOLEAN]
  IN /\ xoption \in XfrOptions
     /\ history \in Seq(S) /\ xnow \in 1 .. MaxTime
     /\ serial \in [xfr : S, xfrAt : 0 .. MaxTime + 1,
                    disk : S, diskAt : 0 .. MaxTime + 1,
                    notify : S, notifyAt : 0 .. MaxTime,
                    retransfer : BOOLEAN, msgRetransfer : BOOLEAN]
     /\ msg \in [state : {"none", "asked", "more", "dumped"},
                 axfr : BOOLEAN, new : S, old : S, seq : 0 .. MaxParts,
                 of : 0 .. MaxParts, failed : BOOLEAN]
     /\ xfile \in Seq(Lines) /\ xtmp \in Seq(Lines)
     /\ xreader \in {"idle", "reading", "applied"} /\ forceread \in BOOLEAN
     /\ held \in S \cup {None} /\ mishap \subseteq Mishaps
     /\ faults \in 0 .. xoption.fails

\* The packets of a file that are complete, by their first data lines.
Packets(f) ==
  LET Ends == SelectSeq([i \in 1 .. Len(f) |-> i],
                        LAMBDA i : f[i].line = "end")
      First(e) == CHOOSE i \in 1 .. e : /\ f[i].line = "begin"
                                        /\ \A j \in i + 1 .. e :
                                             f[j].line # "begin"
  IN [k \in 1 .. Len(Ends) |-> f[First(Ends[k]) + 1]]

\* What addns.c has still to read leads, packet by packet, from the serial it
\* has read (serial_xfr) to the serial that xfrd.c has on disk: no transfer
\* that was committed is lost or put out of order by the rename, by an answer
\* that arrives while a worker reads, by a transfer that is cut off, or by the
\* copy of an unfinished packet that is put back in front of the file
\* (addns.c, "we have to restore the incomplete zone transfer").  It does not
\* where a retransfer has emptied the file of such transfers, until one is
\* committed, or where the file is damaged because a write has failed.
FileChain ==
  mishap \cap {"emptied", "damaged"} = {} =>
    LET todo == Packets(xtmp \o xfile)
        from(k) == IF k = 1 THEN serial.xfr ELSE todo[k - 1].new
    IN /\ \A k \in 1 .. Len(todo) : todo[k].axfr \/ todo[k].old = from(k)
       /\ from(Len(todo) + 1) = serial.disk

\* Between two readings the views have what serial_xfr says was read, with
\* nothing missing in between, except after a reading that came to a packet
\* which was not finished or not acceptable behind others that were: the reset
\* of the view drops those, while serial_xfr stays past them.
ViewChain ==
  ~Reading /\ "dropped" \notin mishap =>
    held = serial.xfr \/ (held = None /\ serial.xfr = 0)

\* The files between the transfer daemon and the reading task keep every
\* committed transfer, in order, and what was read from them is in the views,
\* up to the mishaps.
TransfersSound == XfrInputTypeOK /\ FileChain /\ ViewChain

=============================================================================
