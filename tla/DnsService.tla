----------------------------- MODULE DnsService -----------------------------
(***************************************************************************)
(* The DNS service of the signer (signer/src/wire/query.c, axfr.c, tsig.c, *)
(* acl.c, edns.c, sock.c): one client that asks over UDP, or over a TCP    *)
(* connection whose answer may take many packets, while the signer         *)
(* publishes new versions of the zone.                                     *)
(*                                                                         *)
(* Lengths are counted in units in which a header, a question and an OPT   *)
(* record take one.  Not modelled: NOTIFY, which XfrInput has, failures of *)
(* the file of a transfer while it is read, an IXFR before the zone has    *)
(* changed for the first time (getxfr asserts that it has) or of a zone    *)
(* that does not come by transfer (ixfr reads through zone->xfrd, which is *)
(* NULL), records that do not fit in an empty packet (no packet ever gets  *)
(* past them), and queries of other types than SOA, AXFR and IXFR.         *)
(***************************************************************************)
EXTENDS Integers, Sequences, SequencesExt, FiniteSets

CONSTANTS DVersions,   \* the versions of the zone are 1 .. DVersions
          DNames,      \* the sequence of names of the zone
          DContent,    \* DContent[v][d]: the records of name d in version v
          DSize,       \* the length of every record
          DRequests,   \* the requests of the client
          DAcl,        \* provide_xfr
          DMax,        \* the limits: tcp, axfr, udp and edns
          SignEvery    \* AXFR_TSIG_SIGN_EVERY_NTH

VARIABLES
  dver,    \* the version published
  dphase,  \* "udp", or the handler of the connection: "closed", "read" or
           \* "write"; "aborted" when an assertion has failed
  dpart,   \* part of the present message has been transmitted
  dq,      \* query_type
  dreq,    \* the request that is answered
  dout     \* the packets of the answer

dnsvars == <<dver, dphase, dpart, dq, dreq, dout>>

BadSoa == -1
Header == 1
Question == 1
OptLen == 1
TsigLen == 2

---------------------------------------------------------------------------
(* The file a transfer is made from.                                       *)

Soa(v) == [serial |-> v, id |-> "SOA"]

Rr(d) == [serial |-> 0, id |-> d]

IsSoa(rr) == rr.id = "SOA"

Length(rr) == IF IsSoa(rr) THEN 1 ELSE DSize[rr.id]

\* writerecordcontent, for the names that satisfy a condition
Records(v, changed) ==
  FlattenSeq([i \in 1 .. Len(DNames) |->
    IF DNames[i] \in changed
    THEN [j \in 1 .. Len(DContent[v][DNames[i]]) |->
            Rr(DContent[v][DNames[i]][j])]
    ELSE <<>>])

AxfrFile(v) == <<Soa(v)>> \o Records(v, Range(DNames)) \o <<Soa(v)>>

\* The version from which name d has been as it is in v.
Since(d, v) ==
  CHOOSE u \in 1 .. v :
    /\ \A x \in u .. v : DContent[x][d] = DContent[v][d]
    /\ u = 1 \/ DContent[u-1][d] # DContent[v][d]

\* The last version in which d has records.
LastSeen(d, v) ==
  LET seen == {u \in 1 .. v : DContent[u][d] # <<>>}
  IN IF seen = {} THEN 0 ELSE CHOOSE u \in seen : \A x \in seen : x <= u

\* names_iteratorchangedeletes: the index has one record for every name, the
\* latest, whether it is still in the zone or not, in the order of the names.
\* The search is by serial, so it may end anywhere, and everything from there
\* on that began by version s is taken.
ChangeDeletes(s, v, k) ==
  FlattenSeq([i \in 1 .. Len(DNames) |->
    LET d == DNames[i]
        u == LastSeen(d, v)
    IN IF i >= k /\ u # 0 /\ Since(d, u) <= s THEN Records(u, {d}) ELSE <<>>])

\* names_iteratorchangeinserts: in the order in which they began, the records
\* of the zone that did so after version s, and from the k-th name on at it.
ChangeInserts(s, v, k) ==
  FlattenSeq([u \in 1 .. v |->
    Records(v, {DNames[i] : i \in {i \in 1 .. Len(DNames) :
                  /\ Since(DNames[i], v) = u
                  /\ u > s \/ (u = s /\ i >= k)}})])

\* What getxfr may write for an IXFR.  The changes are counted from a time,
\* serial_xfr_acquired, taken for a serial: w is the first version from there
\* on, and s the last one up to there, w itself or the one before.
IxfrFiles ==
  [v \in 1 .. DVersions |->
     {<<Soa(v), Soa(w)>> \o ChangeDeletes(s, v, k) \o <<Soa(v)>>
        \o ChangeInserts(s, v, IF s = w THEN j ELSE Len(DNames) + 1)
        \o <<Soa(v)>> :
      <<w, s, k, j>> \in {x \in (1 .. v - 1) \X (0 .. v - 1) \X
                               (1 .. Len(DNames) + 1) \X (1 .. Len(DNames) + 1) :
                            x[2] \in {x[1], x[1] - 1}}}]

---------------------------------------------------------------------------
(* Who may ask.  Addresses are sequences of words, most significant first. *)

WordBits == 2

\* acl_parse_range_subnet: n bits of ones
SubnetMask(n, words) ==
  LET ones == [k \in 0 .. WordBits |-> 2^WordBits - 2^(WordBits - k)]
  IN [i \in 1 .. words |->
        LET left == n - (i - 1) * WordBits
        IN IF left >= WordBits THEN ones[WordBits]
           ELSE IF left > 0 THEN ones[left] ELSE 0]

And(a, b) ==
  LET bit(n, k) == (n \div 2^k) % 2
  IN bit(a, 0) * bit(b, 0) + 2 * bit(a, 1) * bit(b, 1)

acl_addr_matches_mask(a, b, mask) ==
  \A i \in 1 .. Len(a) : And(a[i], mask[i]) = And(b[i], mask[i])

\* A bound is checked up to the first word in which x is not on it.
acl_addr_matches_range(min, x, max) ==
  \A i \in 1 .. Len(x) :
    /\ (\A j \in 1 .. i - 1 : x[j] = min[j]) => min[i] <= x[i]
    /\ (\A j \in 1 .. i - 1 : x[j] = max[j]) => x[i] <= max[i]

acl_addr_matches(acl, addr) ==
  CASE acl.range = "any" -> TRUE
    [] acl.range = "single" -> acl.addr = addr
    [] acl.range = "mask" -> acl_addr_matches_mask(acl.addr, addr, acl.mask)
    [] acl.range = "subnet" ->
         acl_addr_matches_mask(acl.addr, addr,
                               SubnetMask(acl.mask, Len(addr)))
    [] acl.range = "minmax" ->
         acl_addr_matches_range(acl.addr, addr, acl.mask)

\* A request with a TSIG matches only an entry with that key, and one without
\* only an entry without.
acl_tsig_matches(acl, q) ==
  IF acl.key = "none" THEN q.tsig = "none"
  ELSE q.tsig = "ok" /\ ~q.terr /\ q.key = acl.key

acl_find(acls, addr, q) ==
  \E i \in 1 .. Len(acls) :
    acl_addr_matches(acls[i], addr) /\ acl_tsig_matches(acls[i], q)

---------------------------------------------------------------------------
(* TSIG.  A context is what was hashed since tsig_rr_prepare: first the    *)
(* packet whose MAC is the prior one, 0 for the request, then packets.     *)

tsig_rr_prepare(q) == [q EXCEPT !.ctx = <<q.mac>>, !.since = 0]

tsig_rr_update(q, n) == [q EXCEPT !.ctx = Append(@, n), !.since = @ + 1]

tsig_rr_sign(q, n) == [q EXCEPT !.mac = n]

tsig_rr_reserved_space(q) == IF q.tsig = "none" THEN 0 ELSE TsigLen

edns_rr_reserved_space(q) == IF q.edns = "none" THEN 0 ELSE OptLen

\* query_add_optional, for the n-th packet of an answer
TsigError(q) == q.tsig = "error" \/ q.terr

query_add_optional(q, n) ==
  LET p == IF q.prepare THEN tsig_rr_prepare(q) ELSE q
      u == tsig_rr_update(p, n)
  IN IF q.tsig = "none" \/ TsigError(q) THEN q
     ELSE IF q.sign THEN tsig_rr_sign(u, n) ELSE u

Packet(q, n) ==
  LET signed == q.tsig = "ok" /\ ~q.terr /\ q.sign
      t == q.tsig # "none" /\ (TsigError(q) \/ signed)
  IN [rrs |-> q.rrs, rcode |-> q.rcode, signed |-> signed,
      covers |-> query_add_optional(q, n).ctx, maxlen |-> q.maxlen,
      size |-> q.pos + edns_rr_reserved_space(q)
                 + IF t THEN TsigLen ELSE 0]

---------------------------------------------------------------------------
(* Answers.                                                                *)

query_reset(tcp) ==
  [tcp |-> tcp, maxlen |-> IF tcp THEN DMax.tcp ELSE DMax.udp,
   reserved |-> 0, edns |-> "none", tsig |-> "none", terr |-> FALSE,
   key |-> "none", prepare |-> TRUE, sign |-> TRUE, done |-> FALSE,
   open |-> FALSE, file |-> <<>>, fpos |-> 0, serial |-> 0, pos |-> 0,
   rrs |-> <<>>, rcode |-> "NOERROR", state |-> "processed",
   ctx |-> <<>>, mac |-> 0, since |-> 0]

query_error(q, rcode) ==
  [q EXCEPT !.rcode = rcode, !.rrs = <<>>, !.state = "processed"]

query_servfail(q) == query_error([q EXCEPT !.pos = Header], "SERVFAIL")

query_formerr(q) == query_error(q, "FORMERR")

query_prepare(q) ==
  [q EXCEPT !.reserved = edns_rr_reserved_space(q)
                           + tsig_rr_reserved_space(q)]

query_overflow(q) == q.pos > q.maxlen - q.reserved

AddedRr(q, rr) == [q EXCEPT !.pos = @ + Length(rr), !.rrs = Append(@, rr)]

query_add_rr(q, rr) == ~query_overflow(AddedRr(q, rr))

\* The way axfr and ixfr give up.
Closed(q) == [q EXCEPT !.open = FALSE, !.rcode = "SERVFAIL",
                       !.state = "processed"]

\* The beginning of axfr and of ixfr: a packet after a signed one begins a new
\* context, and is not signed unless that is asked for again.
NextContext(q) == [q EXCEPT !.maxlen = IF @ > DMax.axfr THEN DMax.axfr ELSE @,
                            !.prepare = q.sign, !.sign = FALSE]

Opened(q, file) ==
  [q EXCEPT !.open = TRUE, !.file = file, !.fpos = 2, !.rrs = <<>>,
            !.sign = @ \/ q.tsig = "ok"]

\* A later packet has no question.
Continued(q) ==
  query_prepare([q EXCEPT !.pos = Header, !.rrs = <<>>])

\* Mutant: the record that does not fit is not read again.
RECURSIVE Fill_lossy(_)
Fill_lossy(q) ==
  IF q.fpos > Len(q.file) THEN q
  ELSE IF query_add_rr(q, q.file[q.fpos])
       THEN Fill_lossy([AddedRr(q, q.file[q.fpos]) EXCEPT !.fpos = @ + 1])
       ELSE [q EXCEPT !.fpos = @ + 1]

\* As many records as fit; the file is set back to the one that does not.
RECURSIVE Fill(_)
Fill(q) ==
  IF q.fpos > Len(q.file) THEN q
  ELSE IF query_add_rr(q, q.file[q.fpos])
       THEN Fill([AddedRr(q, q.file[q.fpos]) EXCEPT !.fpos = @ + 1])
       ELSE q

\* return_axfr and return_ixfr
Returned(q, state) ==
  [q EXCEPT !.state = state,
            !.sign = @ \/ (q.tsig = "ok" /\ q.since >= SignEvery)]

\* udp_overflow: only the SOA record is left in the packet
Truncated(q, first) ==
  [q EXCEPT !.pos = first.pos, !.rrs = first.rrs,
            !.sign = @ \/ q.tsig = "ok", !.state = "processed"]

Finished(q) == [q EXCEPT !.sign = TRUE, !.done = TRUE, !.open = FALSE]

AxfrFill(q) ==
  LET f == Fill(q)
      e == IF f.fpos > Len(f.file) THEN Finished(f) ELSE f
  IN IF q.tcp THEN Returned(e, "axfr") ELSE Truncated(e, q)

AxfrStart(q, v, expired) ==
  LET o == Opened(q, AxfrFile(v))
  IN IF expired \/ ~query_add_rr(o, o.file[1]) THEN Closed(o)
     ELSE AxfrFill(AddedRr(o, o.file[1]))

axfr(q, v, expired) ==
  IF q.done THEN [q EXCEPT !.state = "processed"]
  ELSE IF ~q.open THEN AxfrStart(NextContext(q), v, expired)
  ELSE AxfrFill(Continued([NextContext(q) EXCEPT !.edns = "none"]))

\* The records from the SOA record with the serial of the request on, which is
\* looked for only where deletions may begin.
RECURSIVE IxfrFill(_, _, _, _)
IxfrFill(q, at, deleting, found) ==
  IF at > Len(q.file) THEN [q |-> q, found |-> found, fits |-> TRUE]
  ELSE LET rr == q.file[at]
           d == IF IsSoa(rr) THEN ~deleting ELSE deleting
       IN IF ~found /\ ~(d /\ rr = Soa(q.serial))
          THEN IxfrFill(q, at + 1, d, FALSE)
          ELSE IF query_add_rr(q, rr)
          THEN IxfrFill([AddedRr(q, rr) EXCEPT !.fpos = at + 1], at + 1, d, TRUE)
          ELSE [q |-> q, found |-> TRUE, fits |-> FALSE]

\* axfr_fallback
Fallback(q, first, v, expired) ==
  IF q.tcp THEN AxfrStart([q EXCEPT !.open = FALSE, !.pos = Header + Question],
                          v, expired)
  ELSE Truncated(q, first)

IxfrPart(first, found, v, expired) ==
  LET r == IxfrFill(first, first.fpos, FALSE, found)
  IN IF r.fits /\ r.found THEN Returned(Finished(r.q), "ixfr")
     ELSE IF ~r.fits /\ r.q.tcp THEN Returned(r.q, "ixfr")
     ELSE Fallback(r.q, first, v, expired)

IxfrStart(q, file, v, expired) ==
  LET o == Opened([q EXCEPT !.pos = Header + Question], file)
      a == AddedRr(o, o.file[1])
  IN IF expired THEN Closed(o)
     ELSE IF ~query_add_rr(o, o.file[1])
     THEN [o EXCEPT !.rcode = "SERVFAIL", !.state = "processed"]
     ELSE IF q.serial > v THEN Fallback(a, a, v, expired)
     ELSE IxfrPart(a, FALSE, v, expired)

\* file is what getxfr writes.
ixfr(q, file, v, expired) ==
  IF q.done THEN [q EXCEPT !.state = "processed"]
  ELSE IF ~q.open THEN IxfrStart(NextContext(q), file, v, expired)
  ELSE IxfrPart(Continued(NextContext(q)), TRUE, v, expired)

\* It opens the file by name, which getxfr has removed.
soa_request(q) == [q EXCEPT !.rcode = "SERVFAIL", !.state = "processed"]

query_process_query(q, r, file, v, expired) ==
  LET p == query_prepare(q)
  IN IF r.counts # "good" THEN query_formerr(q)
     ELSE IF ~acl_find(DAcl, r.addr, q) THEN query_error(q, "REFUSED")
     ELSE CASE r.qtype = "IXFR" -> ixfr(p, file, v, expired)
            [] r.qtype = "AXFR" -> axfr(p, v, expired)
            [] r.qtype = "SOA" -> soa_request(p)

\* The status of the TSIG record: present, and with fields that can be read.
tsig_rr_parse(r) ==
  CASE r.tsig = "none" -> "none"
    [] r.tsig = "malformed" -> "error"
    [] OTHER -> "ok"

\* The only error of an OPT record is its version.
edns_rr_parse(r) == r.edns

\* The TSIG and OPT records at the end of the request.
query_find_tsig(q, r) ==
  [q EXCEPT !.tsig = tsig_rr_parse(r), !.key = r.key, !.edns = edns_rr_parse(r)]

\* The authority section of an IXFR request: its SOA record, or nothing.
query_parse_soa(r) == r.serial

\* It asserts what query_process_query tests later: one question, no answers.
query_process_ixfr(q, r) ==
  IF r.qtype # "IXFR" THEN [q EXCEPT !.serial = 0]
  ELSE IF r.counts = "bad" THEN [q EXCEPT !.state = "aborted"]
  ELSE [q EXCEPT !.serial = query_parse_soa(r)]

\* The key and the algorithm are configured.
tsig_rr_lookup(r) == r.tsig # "badkey"

tsig_rr_verify(r) == r.tsig # "badsig"

\* The rcode; the MAC of the request is the first prior one.
query_process_tsig(q, r) ==
  CASE q.tsig = "error" -> "FORMERR"
    [] q.tsig = "ok" /\ ~tsig_rr_lookup(r) -> "REFUSED"
    [] q.tsig = "ok" /\ ~tsig_rr_verify(r) -> "NOTAUTH"
    [] OTHER -> "NOERROR"

\* The client's limit on UDP packets counts when it is above the usual one.
query_process_edns(q, r) ==
  IF q.edns = "ok" /\ ~q.tcp /\ r.maxlen > DMax.udp
  THEN [q EXCEPT !.maxlen = IF r.maxlen < DMax.edns THEN r.maxlen
                            ELSE DMax.edns]
  ELSE q

query_process_update(q) == query_error(q, "NOTIMPL")

\* The request once its zone is known.
ProcessRecords(q, r, file, v, expired) ==
  LET rcode == query_process_tsig(q, r)
      checked == query_process_edns(q, r)
  IN IF q.state = "aborted" THEN q
     ELSE IF q.serial = BadSoa THEN query_formerr(q)
     ELSE IF rcode # "NOERROR" THEN query_error([q EXCEPT !.terr = TRUE], rcode)
     ELSE IF q.edns = "error" THEN query_error(q, "NOERROR")
     ELSE IF r.form = "query" THEN query_process_query(checked, r, file, v, expired)
     ELSE query_process_update(checked)

query_process(q0, r, file, v, expired) ==
  LET q == query_find_tsig([q0 EXCEPT !.pos = Header + Question], r)
  IN CASE r.form = "ignored" -> [q0 EXCEPT !.state = "discarded"]
       [] r.form = "unparsable" -> query_formerr(q0)
       [] r.form = "nozone" -> query_servfail(q0)
       [] OTHER -> IF q.tsig = "error" THEN query_formerr(q)
                   ELSE ProcessRecords(query_process_ixfr(q, r), r, file, v, expired)

---------------------------------------------------------------------------
(* The handlers.                                                           *)

NoRequest == CHOOSE r \in DRequests : r.form = "ignored"

DnsInit ==
  /\ dver = 2
  /\ dphase \in {"udp", "closed"}
  /\ dpart = FALSE
  /\ dq = query_reset(FALSE)
  /\ dreq = NoRequest /\ dout = <<>>

\* The signer publishes the next version.
Publish ==
  /\ dver < DVersions /\ dphase # "aborted"
  /\ dver' = dver + 1
  /\ UNCHANGED <<dphase, dpart, dq, dreq, dout>>

\* The packet in q is finished and joins the answer.
Answer(q, before) ==
  /\ dq' = query_add_optional(q, Len(before) + 1)
  /\ dout' = Append(before, Packet(q, Len(before) + 1))

\* The files that a transfer asked for by r may be made from, if it is an IXFR.
FilesFor(r) == IF r.qtype = "IXFR" THEN IxfrFiles[dver] ELSE {<<>>}

sock_handle_udp ==
  \E r \in DRequests, expired \in BOOLEAN : \E file \in FilesFor(r) :
    /\ dphase = "udp" /\ dreq = NoRequest
    /\ LET q == query_process(query_reset(FALSE), r, file, dver, expired)
       IN /\ dphase' = IF q.state = "aborted" THEN "aborted" ELSE "udp"
          /\ IF q.state \in {"discarded", "aborted"}
             THEN dq' = q /\ dout' = <<>>
             ELSE Answer(q, <<>>)
    /\ dreq' = r
    /\ UNCHANGED <<dver, dpart>>

\* The answer is sent and the query is reset for the next packet.
udp_sent ==
  /\ dphase = "udp" /\ dreq # NoRequest
  /\ dq' = query_reset(FALSE) /\ dreq' = NoRequest /\ dout' = <<>>
  /\ UNCHANGED <<dver, dphase, dpart>>

sock_handle_tcp_accept ==
  /\ dphase = "closed"
  /\ dphase' = "read"
  /\ dq' = query_reset(FALSE) /\ dreq' = NoRequest /\ dout' = <<>>
  /\ UNCHANGED <<dver, dpart>>

cleanup_tcp_handler ==
  /\ dphase' = "closed" /\ dpart' = FALSE
  /\ dq' = query_reset(FALSE) /\ dreq' = NoRequest /\ dout' = <<>>
  /\ UNCHANGED dver

\* The length of a request arrives; the query is reset before.
tcp_read_length ==
  /\ dphase = "read" /\ ~dpart
  /\ dpart' = TRUE
  /\ dq' = query_reset(TRUE) /\ dreq' = NoRequest /\ dout' = <<>>
  /\ UNCHANGED <<dver, dphase>>

sock_handle_tcp_read ==
  \E r \in DRequests, expired \in BOOLEAN : \E file \in FilesFor(r) :
    /\ dphase = "read" /\ dpart
    /\ LET q == query_process(dq, r, file, dver, expired)
       IN CASE q.state = "discarded" -> cleanup_tcp_handler
            [] q.state = "aborted" ->
                 /\ dphase' = "aborted" /\ dreq' = r
                 /\ UNCHANGED <<dver, dpart, dq, dout>>
            [] OTHER ->
                 /\ Answer(q, <<>>)
                 /\ dphase' = "write" /\ dpart' = FALSE
                 /\ dreq' = r
                 /\ UNCHANGED dver

tcp_write_part ==
  /\ dphase = "write" /\ ~dpart
  /\ dpart' = TRUE
  /\ UNCHANGED <<dver, dphase, dq, dreq, dout>>

\* The last octet of a packet goes out; the next packet of a transfer follows.
sock_handle_tcp_write ==
  \E expired \in BOOLEAN :
    /\ dphase = "write"
    /\ LET q == CASE dq.state = "axfr" -> axfr(dq, dver, expired)
                  [] dq.state = "ixfr" -> ixfr(dq, dq.file, dver, expired)
                  [] OTHER -> dq
       IN IF q.state = "processed"
          THEN dphase' = "read" /\ dq' = q /\ UNCHANGED dout
          ELSE Answer(q, dout) /\ UNCHANGED dphase
    /\ dpart' = FALSE
    /\ UNCHANGED <<dver, dreq>>

\* The client closes the connection, sends a length out of bounds, or the time
\* is up.
tcp_timeout == dphase \in {"read", "write"} /\ cleanup_tcp_handler

DnsNext ==
  \/ Publish
  \/ sock_handle_udp
  \/ udp_sent
  \/ sock_handle_tcp_accept
  \/ tcp_read_length
  \/ sock_handle_tcp_read
  \/ tcp_write_part
  \/ sock_handle_tcp_write
  \/ tcp_timeout

DnsSpec == DnsInit /\ [][DnsNext]_dnsvars

---------------------------------------------------------------------------
(* Properties. *)

\* The type invariant of the module: the states of a query and of its handler
\* go together.
DnsTypeOK ==
  /\ dver \in 1 .. DVersions
  /\ dphase \in {"udp", "closed", "read", "write", "aborted"}
  /\ dpart \in BOOLEAN
  /\ dq.state \in {"processed", "discarded", "aborted", "axfr", "ixfr"}
  /\ dphase = "write" => dout # <<>>

Delivered == FlattenSeq([i \in 1 .. Len(dout) |-> dout[i].rrs])

Zone(v) == UNION {Range(DContent[v][d]) : d \in Range(DNames)}

Ids(rrs) == {rr.id : rr \in {r \in Range(rrs) : ~IsSoa(r)}}

\* A transfer that has come to its end has given the client just what getxfr
\* wrote for it when it began: all of the file or, of the file for an IXFR, its
\* first record and what follows from the serial of the client on.  A transfer
\* without a second SOA record is exactly the zone of the version it began
\* with.  So whatever fits in which packet, however the connection is
\* scheduled and whichever versions are published meanwhile, nothing is lost,
\* repeated or taken from another version (axfr and ixfr, the position in the
\* file; getxfr, the copy).  That an IXFR leads from one version to the other
\* is not said: the file need not (IxfrFiles).  An AXFR over UDP is left out:
\* it is cut down to its SOA record even when it fits.
TransfersWhole ==
  dq.done /\ (dq.tcp \/ dreq.qtype = "IXFR") =>
    /\ \/ Delivered = dq.file
       \/ /\ dreq.qtype = "IXFR"
          /\ \E k \in 2 .. Len(dq.file) :
               /\ dq.file[k] = Soa(dreq.serial)
               /\ Delivered = <<dq.file[1]>> \o SubSeq(dq.file, k, Len(dq.file))
    /\ IsSoa(Delivered[1]) /\ Delivered[Len(Delivered)] = Delivered[1]
    /\ IsSoa(Delivered[2]) \/ Ids(Delivered) = Zone(Delivered[1].serial)

\* A client with a key can verify the answer: a signature covers the one
\* before it and every packet since, no more than SignEvery packets go unsigned
\* between two, and the last packet of a transfer has one (tsig_prepare_it and
\* tsig_sign_it, which the next packet finds as this one left them).
AnswersVerifiable ==
  dq.tsig = "ok" /\ ~dq.terr =>
    /\ \A i \in 1 .. Len(dout) : dout[i].signed =>
         LET prior == {j \in 1 .. i - 1 : dout[j].signed} \cup {0}
             last == CHOOSE j \in prior : \A k \in prior : k <= j
         IN dout[i].covers = [k \in 1 .. i - last + 1 |-> last + k - 1]
    /\ \A i \in 1 .. Len(dout) - SignEvery :
         \E j \in i .. i + SignEvery : dout[j].signed
    /\ dq.done \/ dq.state = "processed" =>
         dout = <<>> \/ dout[Len(dout)].signed

\* Every packet with records keeps to the limit of its transport or client,
\* with the OPT and TSIG records that were added last (query_overflow,
\* reserved_space).
PacketsFit ==
  \A i \in 1 .. Len(dout) : dout[i].rrs # <<>> => dout[i].size <= dout[i].maxlen

\* Records go only to a client whose address, as one number, lies in the range
\* of an entry of provide_xfr whose key, or lack of one, is that of the request
\* (acl_find).
Number(addr) == FoldLeft(LAMBDA n, word : n * 2^WordBits + word, 0, addr)

InRange(acl, addr) ==
  LET size == 2^(WordBits * Len(addr) - acl.mask)
  IN CASE acl.range = "any" -> TRUE
       [] acl.range = "single" -> Number(acl.addr) = Number(addr)
       [] acl.range = "subnet" ->
            Number(acl.addr) \div size = Number(addr) \div size
       [] acl.range = "mask" ->
            \A k \in 0 .. WordBits * Len(addr) - 1 :
              (Number(acl.mask) \div 2^k) % 2 = 1 =>
                (Number(acl.addr) \div 2^k) % 2 = (Number(addr) \div 2^k) % 2
       [] acl.range = "minmax" -> Number(acl.addr) <= Number(addr)
                                    /\ Number(addr) <= Number(acl.mask)

RecordsOnlyToClients ==
  Delivered # <<>> =>
    \E i \in 1 .. Len(DAcl) :
      InRange(DAcl[i], dreq.addr) /\
      (DAcl[i].key = IF dreq.tsig = "none" THEN "none" ELSE dreq.key)

\* The answers of the DNS service are whole, verifiable, within their limits
\* and only for the configured clients.
DnsSound ==
  /\ DnsTypeOK
  /\ TransfersWhole
  /\ AnswersVerifiable
  /\ PacketsFit
  /\ RecordsOnlyToClients

=============================================================================
