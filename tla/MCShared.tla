------------------------------ MODULE MCShared ------------------------------
(***************************************************************************)
(* What the threads of the signer share: the signing queue and the views   *)
(* of a zone.  A behaviour is one of one part, chosen at the start, and    *)
(* the other part stays as it began.                                       *)
(***************************************************************************)
EXTENDS SignQueue, ViewPool

VARIABLE part

sharedvars == <<part, vars, poolvars>>

SharedInit ==
  /\ part \in {"queue", "views"} /\ Init /\ PoolInit
  /\ part # "views" => mincount = 1 /\ failing

SharedNext ==
  \/ part = "queue" /\ Next /\ UNCHANGED <<part, poolvars>>
  \/ part = "views" /\ PoolNext /\ UNCHANGED <<part, vars>>

SharedSpec == SharedInit /\ [][SharedNext]_sharedvars

\* With the fairness of the queue and that of the views, FairSpec and
\* PoolFairSpec.
SharedFairSpec ==
  /\ SharedSpec
  /\ \A w \in Workers : WF_vars(part = "queue" /\ WorkerStep(w))
  /\ \A d \in Drudgers : WF_vars(part = "queue" /\ DrudgerStep(d))
  /\ WF_vars(part = "queue" /\ EngineStep)
  /\ \A t \in PoolThreads : WF_poolvars(part = "views" /\ Step(t))
=============================================================================
