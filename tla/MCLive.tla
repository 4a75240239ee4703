------------------------------- MODULE MCLive -------------------------------
(***************************************************************************)
(* What must happen in the enforcer in the end: a behaviour is one of the  *)
(* key states of a zone (Enforcer) or one of the sessions on the database  *)
(* (Sessions), chosen at the start, and the other part stays as it began.  *)
(* Each part has its own fairness.                                         *)
(***************************************************************************)
EXTENDS MCEnforcer, MCSessions

VARIABLE part

livevars == <<part, vars, sessionVars>>

LiveInit ==
  /\ part \in {"states", "sessions"} /\ Init /\ SessionsInit
  /\ story.live = (part = "sessions")

InStates(A) == part = "states" /\ A /\ UNCHANGED <<part, sessionVars>>

InSessions(A) == part = "sessions" /\ A /\ UNCHANGED <<part, vars>>

LiveNext == InStates(Next) \/ InSessions(SessionsNext)

LiveSpec ==
  /\ LiveInit /\ [][LiveNext]_livevars
  /\ []<>(part = "states" => task # 0)
  /\ []<>(part = "states" => ~ signconf)
  /\ SF_livevars(InStates(Tick))
  /\ WF_livevars(InStates(Operator))
  /\ WF_livevars(InStates(Parent))
  /\ \A p \in Threads : WF_livevars(InSessions(Work(p) \/ Write(p) \/ Unlock(p)))
  /\ \A p \in Threads : SF_livevars(InSessions(Lock(p)))
  /\ \A z \in ZoneIds : SF_livevars(InSessions(\E p \in Threads : Enforcing(p, z)))
  /\ SF_livevars(InSessions(\E p \in Threads : BeginSession(p, "generate")))
=============================================================================
