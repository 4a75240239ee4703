------------------------------- MODULE HsmPin -------------------------------
(***************************************************************************)
(* The PIN of a token that is not in conf.xml (libhsm/src/lib/pin.c): the  *)
(* processes of OpenDNSSEC keep it in shared memory under a semaphore.     *)
(* The enforcer and ods-hsmutil ask the user (hsm_prompt_pin), the signer  *)
(* only looks (hsm_check_pin), "ods-hsmutil logout" removes both.  Every   *)
(* process is in the loop of hsm_open2 over the attempts at one token.     *)
(*                                                                         *)
(* The semaphore and the memory are told apart from the ones that were     *)
(* removed before by a number; a process may die anywhere, and a system    *)
(* call that waits may be interrupted (by a stop and a continue).          *)
(***************************************************************************)
EXTENDS Integers, FiniteSets

CONSTANTS PinAskers,   \* the processes that use hsm_prompt_pin
          PinCheckers, \* the processes that use hsm_check_pin
          Pins,        \* the PINs, not 0: that is an empty one
          PinTries,    \* the attempts of hsm_open2
          PinBounds    \* how many opens, logouts, changes of the PIN of the
                       \* token, deaths and interruptions there may be

ASSUME PinAssumption ==
  /\ IsFiniteSet(PinAskers) /\ IsFiniteSet(PinCheckers)
  /\ Pins # {} /\ PinTries \in Nat
  /\ PinBounds \subseteq [opens : Nat, logouts : Nat, changes : Nat,
                          deaths : Nat, breaks : Nat]

VARIABLES
  psem,  \* the semaphore: its number, whether it exists, and its value
  pshm,  \* the shared memory: number, whether it exists, and the PIN in it
  ptok,  \* the PIN of the token now, and the PINs it has accepted so far
  pp,    \* the processes, see PinIdle
  plog,  \* how far the logout is
  pleft  \* what is left of PinBounds; lost: units that died with a process or
         \* were never put in the semaphore; odd: units too many

pinvars == <<psem, pshm, ptok, pp, plog, pleft>>

PinProcs == PinAskers \cup PinCheckers

\* mode, the third argument of the callback; sem, the semaphore the process
\* got; pin, its static buffer; typed, what the user entered.
PinIdle == [pc |-> "idle", mode |-> "first", tries |-> 0, sem |-> 0, pin |-> 0,
            typed |-> 0]

PinInit ==
  /\ psem = [n |-> 0, there |-> FALSE, val |-> 0]
  /\ pshm = [n |-> 0, there |-> FALSE, pin |-> 0]
  /\ ptok = [now |-> CHOOSE p \in Pins : TRUE, accepted |-> {}]
  /\ pp = [p \in PinProcs |-> PinIdle]
  /\ plog = "idle"
  /\ \E b \in PinBounds :
       pleft = [opens |-> b.opens, logouts |-> b.logouts, changes |-> b.changes,
                deaths |-> b.deaths, breaks |-> b.breaks, lost |-> 0, odd |-> 0]

\* The process has this semaphore, and it was not removed.
Current(r) == psem.there /\ psem.n = r.sem

\* The callback has come to its end, with a PIN or without: hsm_open2 goes on.
CallbackEnds(r, got) ==
  IF r.mode = "save" THEN [r EXCEPT !.pc = "done", !.pin = 0]
  ELSE IF got THEN [r EXCEPT !.pc = "login"]
  ELSE [r EXCEPT !.pc = "done", !.pin = 0]

Put(p, r) == pp' = [pp EXCEPT ![p] = r]

\* hsm_open2 comes to the token.
PinOpen ==
  \E p \in PinProcs :
    /\ pp[p].pc = "idle" /\ pleft.opens > 0
    /\ Put(p, [PinIdle EXCEPT !.pc = "semopen"])
    /\ pleft' = [pleft EXCEPT !.opens = @ - 1]
    /\ UNCHANGED <<psem, pshm, ptok, plog>>

\* hsm_sem_open, the first semget: it creates the semaphore, which is 0 at
\* first, and fails when there is one.
hsm_sem_open ==
  \E p \in PinProcs :
    LET r == pp[p]
    IN /\ r.pc = "semopen"
       /\ IF psem.there
          THEN Put(p, [r EXCEPT !.pc = "semget"]) /\ UNCHANGED psem
          ELSE /\ psem' = [n |-> psem.n + 1, there |-> TRUE, val |-> 0]
               /\ Put(p, [r EXCEPT !.sem = psem.n + 1, !.pc = "setval"])
       /\ UNCHANGED <<pshm, ptok, plog, pleft>>

\* The second semget, after that: it finds the semaphore or, when that was
\* removed in between, creates one as well, which then nobody sets to 1.
GetSemaphore ==
  \E p \in PinProcs :
    LET r == pp[p]
        new == psem.n + 1
    IN /\ r.pc = "semget"
       /\ \/ /\ psem.there
             /\ Put(p, [r EXCEPT !.sem = psem.n, !.pc = "wait"])
             /\ UNCHANGED <<psem, pleft>>
          \/ /\ ~psem.there
             /\ psem' = [n |-> new, there |-> TRUE, val |-> 0]
             /\ Put(p, [r EXCEPT !.sem = new, !.pc = "wait"])
             /\ pleft' = [pleft EXCEPT !.lost = @ + 1]
       /\ UNCHANGED <<pshm, ptok, plog>>

\* The semaphore belongs to another group or has other permissions.  (When it
\* cannot be examined because it was removed, the wait fails just so.)
BadSemaphore ==
  \E p \in PinProcs :
    /\ pp[p].pc = "wait"
    /\ Put(p, CallbackEnds(pp[p], FALSE))
    /\ UNCHANGED <<psem, pshm, ptok, plog, pleft>>

\* Who created it sets it to 1.
SetSemaphore ==
  \E p \in PinProcs :
    LET r == pp[p]
    IN /\ r.pc = "setval"
       /\ IF Current(r)
          THEN psem' = [psem EXCEPT !.val = 1] /\ Put(p, [r EXCEPT !.pc = "wait"])
          ELSE Put(p, CallbackEnds(r, FALSE)) /\ UNCHANGED psem
       /\ UNCHANGED <<pshm, ptok, plog, pleft>>

\* hsm_sem_wait, which fails when the semaphore is removed or the call is
\* interrupted: the first time the callback ends, but after the user was asked
\* it goes on, and gives back what it never got.
hsm_sem_wait ==
  \E p \in PinProcs, break \in BOOLEAN :
    LET r == pp[p]
        again == r.pc = "rewait"
        fails == break \/ ~Current(r)
    IN /\ r.pc \in {"wait", "rewait"}
       /\ break => pleft.breaks > 0 /\ Current(r) /\ psem.val = 0
       /\ ~fails => psem.val > 0
       /\ psem' = IF fails THEN psem ELSE [psem EXCEPT !.val = @ - 1]
       /\ pleft' = [pleft EXCEPT !.breaks = IF break THEN @ - 1 ELSE @,
                                 !.odd = IF break /\ again THEN @ + 1 ELSE @]
       /\ Put(p, IF again THEN [r EXCEPT !.pc = "post", !.pin = r.typed, !.typed = 0]
                 ELSE IF fails THEN CallbackEnds(r, FALSE)
                 ELSE [r EXCEPT !.pc = "crit"])
       /\ UNCHANGED <<pshm, ptok, plog>>

\* hsm_shm_open: the memory as it is now, or new and empty.
hsm_shm_open ==
  IF pshm.there THEN pshm ELSE [n |-> pshm.n + 1, there |-> TRUE, pin |-> 0]

\* hsm_prompt_pin with the semaphore: m is the shared memory.
hsm_prompt_pin(r, m) ==
  CASE r.mode = "first" /\ m.pin # 0 ->
         [shm |-> m, r |-> [r EXCEPT !.pin = m.pin, !.pc = "post"]]
    [] r.mode = "first" /\ m.pin = 0 -> [shm |-> m, r |-> [r EXCEPT !.pc = "askpost"]]
    [] r.mode = "retry" -> [shm |-> [m EXCEPT !.pin = 0], r |-> [r EXCEPT !.pc = "askpost"]]
    [] r.mode = "save" -> [shm |-> [m EXCEPT !.pin = r.pin],
                           r |-> [r EXCEPT !.pin = 0, !.pc = "post"]]

\* hsm_check_pin with the semaphore; what is there at a retry is removed.
hsm_check_pin(r, m) ==
  IF r.mode = "first" /\ m.pin # 0
  THEN [shm |-> m, r |-> [r EXCEPT !.pin = m.pin, !.pc = "post"]]
  ELSE [shm |-> [m EXCEPT !.pin = 0], r |-> [r EXCEPT !.pin = 0, !.pc = "endpost"]]

\* The part under the semaphore.
UsePins ==
  \E p \in PinProcs :
    LET r == pp[p]
        out == IF p \in PinAskers THEN hsm_prompt_pin(r, hsm_shm_open)
               ELSE hsm_check_pin(r, hsm_shm_open)
    IN /\ r.pc = "crit"
       /\ pshm' = out.shm /\ Put(p, out.r)
       /\ UNCHANGED <<psem, ptok, plog, pleft>>

\* The memory cannot be had, be it new or not, has another size, group or other
\* permissions, or cannot be attached.
BadMemory ==
  \E p \in PinProcs :
    /\ pp[p].pc = "crit"
    /\ pshm' \in {pshm, hsm_shm_open} /\ Put(p, [pp[p] EXCEPT !.pc = "endpost"])
    /\ UNCHANGED <<psem, ptok, plog, pleft>>

\* hsm_sem_post, before the user is asked or at the end of the callback; that
\* it fails on a semaphore that was removed is not noticed.
hsm_sem_post ==
  \E p \in PinProcs :
    LET r == pp[p]
    IN /\ r.pc \in {"askpost", "post", "endpost"}
       /\ psem' = IF Current(r) THEN [psem EXCEPT !.val = @ + 1] ELSE psem
       /\ Put(p, CASE r.pc = "askpost" -> [r EXCEPT !.pc = "ask"]
                   [] r.pc = "post" -> CallbackEnds(r, TRUE)
                   [] r.pc = "endpost" -> CallbackEnds(r, FALSE))
       /\ UNCHANGED <<pshm, ptok, plog, pleft>>

\* prompt_pass: the user enters a PIN or nothing, or the terminal cannot be used.
prompt_pass ==
  \E p \in PinProcs, typed \in Pins \cup {0}, tty \in BOOLEAN :
    /\ pp[p].pc = "ask"
    /\ Put(p, IF tty THEN [pp[p] EXCEPT !.typed = typed, !.pc = "rewait"]
              ELSE CallbackEnds(pp[p], FALSE))
    /\ UNCHANGED <<psem, pshm, ptok, plog, pleft>>

\* Mutant: the PIN is saved before the token was asked.
PinLogin_early(p, r) ==
  IF p \in PinAskers THEN [r EXCEPT !.mode = "save", !.pc = "semopen"]
  ELSE [r EXCEPT !.pc = "done", !.pin = 0]

\* The login with it: the PIN is saved when it is accepted, by those who ask;
\* else it is forgotten, and there is another attempt.
PinLogin(p, r) ==
  IF r.pin = ptok.now
  THEN IF p \in PinAskers THEN [r EXCEPT !.mode = "save", !.pc = "semopen"]
       ELSE [r EXCEPT !.pc = "done", !.pin = 0]
  ELSE IF r.tries + 1 < PinTries
  THEN [r EXCEPT !.pin = 0, !.tries = @ + 1, !.mode = "retry", !.pc = "semopen"]
  ELSE [r EXCEPT !.pin = 0, !.tries = @ + 1, !.pc = "done"]

PinAttach ==
  \E p \in PinProcs :
    /\ pp[p].pc = "login"
    /\ Put(p, PinLogin(p, pp[p]))
    /\ ptok' = IF pp[p].pin = ptok.now THEN [ptok EXCEPT !.accepted = @ \cup {ptok.now}]
               ELSE ptok
    /\ UNCHANGED <<psem, pshm, plog, pleft>>

\* hsm_logout_pin removes the semaphore and then the memory.
hsm_logout_pin ==
  \/ /\ plog = "idle" /\ pleft.logouts > 0
     /\ psem' = [psem EXCEPT !.there = FALSE, !.val = 0]
     /\ plog' = "half"
     /\ pleft' = [pleft EXCEPT !.logouts = @ - 1, !.lost = 0, !.odd = 0]
     /\ UNCHANGED <<pshm, ptok, pp>>
  \/ /\ plog = "half"
     /\ pshm' = [pshm EXCEPT !.there = FALSE, !.pin = 0]
     /\ plog' = "idle"
     /\ UNCHANGED <<psem, ptok, pp, pleft>>

PinChanged ==
  \E pin \in Pins :
    /\ pleft.changes > 0 /\ ptok' = [ptok EXCEPT !.now = pin]
    /\ pleft' = [pleft EXCEPT !.changes = @ - 1]
    /\ UNCHANGED <<psem, pshm, pp, plog>>

InUse(r) == Current(r) /\ r.pc \in {"setval", "crit", "askpost", "post", "endpost"}

\* A process dies, and nobody gives back its unit of the semaphore.
PinDeath ==
  \E p \in PinProcs :
    /\ pp[p].pc \notin {"idle", "done"} /\ pleft.deaths > 0
    /\ Put(p, PinIdle)
    /\ pleft' = [pleft EXCEPT !.deaths = @ - 1,
                              !.lost = IF InUse(pp[p]) THEN @ + 1 ELSE @]
    /\ UNCHANGED <<psem, pshm, ptok, plog>>

\* The process has done its work and ends.
PinExit ==
  \E p \in PinProcs :
    /\ pp[p].pc = "done" /\ Put(p, PinIdle)
    /\ UNCHANGED <<psem, pshm, ptok, plog, pleft>>

PinNext ==
  \/ PinOpen \/ hsm_sem_open \/ GetSemaphore \/ SetSemaphore \/ BadSemaphore
  \/ hsm_sem_wait \/ UsePins \/ BadMemory \/ hsm_sem_post \/ prompt_pass \/ PinAttach
  \/ hsm_logout_pin \/ PinChanged \/ PinDeath \/ PinExit

PinSpec == PinInit /\ [][PinNext]_pinvars

---------------------------------------------------------------------------
(* Properties. *)

PinAt == {"idle", "semopen", "semget", "setval", "wait", "crit", "askpost", "ask", "rewait",
          "post", "endpost", "login", "done"}

PinState ==
  [pc : PinAt, mode : {"first", "retry", "save"}, tries : Nat, sem : Nat,
   pin : Pins \cup {0}, typed : Pins \cup {0}]

PinSemaphore == [n : Nat, there : BOOLEAN, val : Nat]

PinMemory == [n : Nat, there : BOOLEAN, pin : Pins \cup {0}]

PinLeft == [opens : Nat, logouts : Nat, changes : Nat, deaths : Nat,
            breaks : Nat, lost : Nat, odd : Nat]

\* The type invariant of the module.
PinTypeOK ==
  /\ psem \in PinSemaphore /\ pshm \in PinMemory
  /\ ptok \in [now : Pins, accepted : SUBSET Pins]
  /\ pp \in [PinProcs -> PinState]
  /\ plog \in {"idle", "half"} /\ pleft \in PinLeft

\* A PIN in the shared memory was accepted by the token, whoever tries wrong
\* ones, logs out or dies meanwhile: what another process finds there is not a
\* guess that was never checked (hsm_open2, hsm_prompt_pin).
SavedPinAccepted == pshm.pin # 0 => pshm.pin \in ptok.accepted

\* The unit of the semaphore is in one place: in the semaphore, with one
\* process, or lost, whereupon everybody waits until a logout.  It is lost with
\* a process that dies holding it, and when a logout comes between the two
\* calls of semget.  Only after an interrupted wait, which hsm_prompt_pin does
\* not notice, is there one too many (hsm_sem_open, hsm_sem_wait, hsm_sem_post).
UnitConserved ==
  psem.there =>
    psem.val + Cardinality({p \in PinProcs : InUse(pp[p])}) + pleft.lost = 1 + pleft.odd

\* A process that does not log in has no PIN in its static buffer (hsm_open2,
\* HSM_PIN_SAVE).
BufferCleared ==
  \A p \in PinProcs :
    \/ pp[p].pc \in {"idle", "done"}
    \/ pp[p].pc \in {"semopen", "semget"} /\ pp[p].mode # "save"
    => pp[p].pin = 0

\* The PIN is handed from process to process as it should be.
PinSound == PinTypeOK /\ SavedPinAccepted /\ UnitConserved /\ BufferCleared

=============================================================================
