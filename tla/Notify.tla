------------------------------- MODULE Notify -------------------------------
(***************************************************************************)
(* The NOTIFY messages that tell the secondaries of a zone of a new serial *)
(* (signer/src/wire/notify.c).  A worker that has written a zone enables   *)
(* the notify of the zone; the transfer thread then asks the secondaries   *)
(* one after another, up to NOTIFY_MAX_RETRY times each, and lets a        *)
(* waiting zone start when a zone has finished.                            *)
(*                                                                         *)
(* Whether the worker runs in the middle of a handler is left out: the     *)
(* code takes no lock, and what is checked here is what holds even when    *)
(* every call is atomic.                                                   *)
(***************************************************************************)
EXTENDS Integers, Sequences, FiniteSets, Functions

CONSTANTS NotifyZones,   \* the zones with a DNS output adapter
          Secondaries,   \* the length of every zone's notify list
          NotifyMax,     \* NOTIFY_MAX_UDP
          NotifyRetry,   \* NOTIFY_MAX_RETRY
          Reenables      \* scenarios: may a zone be enabled during its round

ASSUME NotifyAssumption ==
  /\ IsFiniteSet(NotifyZones)
  /\ Secondaries \in Nat \ {0} /\ NotifyMax \in Nat \ {0}
  /\ NotifyRetry \in Nat \ {0} /\ Reenables \subseteq BOOLEAN

VARIABLES
  reenable,  \* the scenario
  ns         \* sec, retry, fd, waiting and timer, the fields of the
             \* notify_type of every zone; num, notify_udp_num; q, the
             \* waiting list; and, of the present round of every zone, the
             \* replies and the messages per secondary

notifyvars == <<reenable, ns>>

NotifyInit ==
  /\ reenable \in Reenables
  /\ ns = [sec |-> [z \in NotifyZones |-> 0],
           retry |-> [z \in NotifyZones |-> 0],
           fd |-> [z \in NotifyZones |-> FALSE],
           waiting |-> [z \in NotifyZones |-> FALSE],
           timer |-> [z \in NotifyZones |-> FALSE],
           num |-> 0, q |-> <<>>,
           acked |-> [z \in NotifyZones |-> {}],
           sent |-> [z \in NotifyZones |-> [k \in 1 .. Secondaries |-> 0]],
           round |-> [z \in NotifyZones |-> FALSE]]

\* A round begins.
notify_setup(s, z) ==
  [s EXCEPT !.retry[z] = 0, !.sec[z] = 1, !.timer[z] = TRUE,
            !.acked[z] = {}, !.sent[z] = [k \in 1 .. Secondaries |-> 0],
            !.round[z] = TRUE]

\* The round ends; the first zone on the waiting list takes its place.
notify_disable(t, z) ==
  LET s == [t EXCEPT !.sec[z] = 0, !.timer[z] = FALSE, !.fd[z] = FALSE]
  IN IF s.num = NotifyMax /\ s.q # <<>>
     THEN notify_setup([s EXCEPT !.waiting[Head(s.q)] = FALSE,
                                 !.q = Tail(@)], Head(s.q))
     ELSE [s EXCEPT !.num = @ - 1]

\* Mutant: the count of retries is carried over.
notify_next_noreset(t, z) ==
  LET last == t.sec[z] = Secondaries
      s == [t EXCEPT !.sec[z] = IF last THEN 0 ELSE @ + 1]
  IN IF last THEN notify_disable(s, z) ELSE s

notify_next(t, z) ==
  LET last == t.sec[z] = Secondaries
      s == [t EXCEPT !.sec[z] = IF last THEN 0 ELSE @ + 1,
                     !.retry[z] = 0]
  IN IF last THEN notify_disable(s, z) ELSE s

\* notify_send; the message may fail to go out.
notify_send(s, z, goesout) ==
  [s EXCEPT !.fd[z] = goesout, !.sent[z][s.sec[z]] = @ + 1]

\* The end of notify_handle_zone.
TryAgain(t, z, goesout) ==
  LET s == [t EXCEPT !.retry[z] = @ + 1]
  IN IF t.sec[z] = 0 THEN t
     ELSE IF s.retry[z] > NotifyRetry THEN notify_next(s, z)
     ELSE notify_send(s, z, goesout)

\* notify_handle_zone when a reply can be read.  A zone that waits does
\* nothing.
NotifyReadable ==
  \E z \in NotifyZones, accepted \in BOOLEAN, goesout \in BOOLEAN :
    /\ ns.fd[z] /\ ~ns.waiting[z]
    /\ ns' = TryAgain(IF accepted
                      THEN notify_next([ns EXCEPT !.acked[z] =
                                          @ \cup {ns.sec[z]}], z)
                      ELSE ns, z, goesout)
    /\ UNCHANGED reenable

NotifyTimeout ==
  \E z \in NotifyZones, goesout \in BOOLEAN :
    /\ ns.timer[z] /\ ~ns.waiting[z]
    /\ ns' = TryAgain(ns, z, goesout)
    /\ UNCHANGED reenable

\* notify_enable, by the worker that has written the zone.
notify_enable ==
  \E z \in NotifyZones :
    /\ ~ns.waiting[z] /\ ~ns.fd[z]
    /\ reenable \/ ns.sec[z] = 0
    /\ ns' = IF ns.num < NotifyMax
             THEN [notify_setup(ns, z) EXCEPT !.num = @ + 1]
             ELSE [ns EXCEPT !.sec[z] = 1, !.waiting[z] = TRUE,
                             !.timer[z] = FALSE, !.q = Append(@, z)]
    /\ UNCHANGED reenable

\* With the notify of every zone waiting nothing is left to do.
NotifyNext == NotifyReadable \/ NotifyTimeout \/ notify_enable

NotifySpec == NotifyInit /\ [][NotifyNext]_notifyvars

---------------------------------------------------------------------------
(* Properties. *)

\* The type invariant of the module: the values of the fields of notify_type.
NotifyTypeOK ==
  /\ reenable \in Reenables
  /\ ns.sec \in [NotifyZones -> 0 .. Secondaries]
  /\ ns.retry \in [NotifyZones -> 0 .. NotifyRetry]
  /\ ns.fd \in [NotifyZones -> BOOLEAN] /\ ns.timer \in [NotifyZones -> BOOLEAN]
  /\ ns.waiting \in [NotifyZones -> BOOLEAN]
  /\ ns.num \in 0 .. NotifyMax
  /\ ns.q \in Seq(NotifyZones)
  /\ ns.acked \in [NotifyZones -> SUBSET (1 .. Secondaries)]
  /\ ns.sent \in [NotifyZones -> [1 .. Secondaries -> 0 .. NotifyRetry]]
  /\ ns.round \in [NotifyZones -> BOOLEAN]

\* No secondary is passed over: when the round of a zone has come past a
\* secondary, that secondary has replied or was sent NOTIFY_MAX_RETRY
\* messages, whatever the secondaries before it did and whichever zones took
\* a turn in between (notify_next, "retry").
NoSecondaryPassedOver ==
  \A z \in NotifyZones, k \in 1 .. Secondaries :
    ns.round[z] /\ ~ns.waiting[z] /\ (ns.sec[z] = 0 \/ k < ns.sec[z]) =>
      k \in ns.acked[z] \/ ns.sent[z][k] = NotifyRetry

\* When zones are not enabled during their round, notify_udp_num counts the
\* rounds under way, zones wait only when it is at its limit, and a zone with
\* a round to do has a timer or is on the waiting list.  (A zone that is
\* enabled before its first message is out, or after one that could not be
\* sent, is counted twice, and the count never comes down again.)
NotifySlotsCounted ==
  LET waits == {z \in NotifyZones : ns.waiting[z]}
      busy == {z \in NotifyZones : ns.sec[z] # 0} \ waits
  IN ~reenable =>
       /\ ns.num = Cardinality(busy)
       /\ waits # {} => ns.num = NotifyMax
       /\ Range(ns.q) = waits /\ Len(ns.q) = Cardinality(waits)
       /\ \A z \in busy : ns.timer[z]

\* A round of NOTIFY messages passes over no secondary, and the slots that the
\* zones share are counted.  It is a round about the serial it began with: a
\* serial that comes while the zone waits or has a message out gets no round
\* of its own (notify.c:552).
NotifySound == NotifyTypeOK /\ NoSecondaryPassedOver /\ NotifySlotsCounted

=============================================================================
