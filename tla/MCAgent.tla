-------------------------------- MODULE MCAgent --------------------------------
(***************************************************************************)
(* Three parts of an agent's turn, which share no state here: the driver   *)
(* with its inbox, the recovery of one model request, and what a crash     *)
(* leaves of the turns.  They are checked side by side: the initial state  *)
(* picks the part that runs, the others stand still.  The recovery runs in *)
(* two setups: one has the retry policy first, always mode on one of its   *)
(* routes and another plugin's hook behind; the other has overflow         *)
(* recovery first and only budgets.  The crash runs in two setups: two     *)
(* turns of a step, and one turn of two steps with a second crash, which   *)
(* may hit the repair of the first.                                        *)
(***************************************************************************)
EXTENDS AgentLoop

LOCAL INSTANCE TLC

CONSTANTS p1, p2, p3, Routes, NoPolicy, \* policies of the routes
          AlwaysMode, Retries, Compactions, Setups, RequestSteps, Attempts, Plugins,
          CrashSetups

Budgets == p1 :> 1 @@ p2 :> 1 @@ p3 :> 2
Mixed == [routes |-> {p1, p2}, order |-> <<"retry", "compact", "other">>]
Budgeted == [routes |-> {p1, p3}, order |-> <<"compact", "retry">>]
TwoSetups == {Mixed, Budgeted}
Caps == Mixed :> 3 @@ Budgeted :> 6

TwoTurns == [turns |-> 2, steps |-> 1, calls |-> 2, faults |-> 1, crashes |-> 1]
TwoSteps == [turns |-> 1, steps |-> 2, calls |-> 2, faults |-> 0, crashes |-> 2]
Turns == {TwoTurns, TwoSteps}

VARIABLES
  part,
  rStep, rPc, attempts, failure, policy, chain, hook, active, awaiting, decision, log,
  aborted, instance, lifetime, drained, overflow, others, setup,
  cSetup, cLog, durable, cPc, cTurn, cStep, awaited, calls, phase, goal, cAborted, minted, ran, seen,
  faults, crashes

Recovery == INSTANCE RequestRecovery WITH
              step <- rStep, pc <- rPc, Policies <- Routes, Always <- AlwaysMode,
              MaxRetries <- Retries, MaxOverflow <- Compactions, MaxSteps <- RequestSteps,
              MaxAttempts <- Attempts, MaxInstances <- Plugins

Crash == INSTANCE CrashRecovery WITH
           Setups <- CrashSetups, setup <- cSetup, log <- cLog, pc <- cPc, turn <- cTurn, step <- cStep,
           aborted <- cAborted

ASSUME RecoveryBounds == Recovery!RequestRecoveryAssumption
ASSUME CrashBounds == Crash!Bounded

agentVars == vars
recoveryVars == <<rStep, rPc, attempts, failure, policy, chain, hook, active, awaiting, decision,
                  log, aborted, instance, lifetime, drained, overflow, others, setup>>
crashVars == <<cSetup, cLog, durable, cPc, cTurn, cStep, awaited, cAborted, calls, phase, goal,
               minted, ran, seen, faults, crashes>>

(* The setup of a part that does not run is one of them. *)
MCInit ==
  /\ part \in {"agent", "recovery", "turns"} /\ Init /\ Recovery!Init /\ Crash!Init
  /\ part # "recovery" => setup = CHOOSE s \in Setups : TRUE
  /\ part # "turns" => cSetup = CHOOSE s \in CrashSetups : TRUE

MCNext ==
  \/ part = "agent" /\ Next /\ UNCHANGED <<part, recoveryVars, crashVars>>
  \/ part = "recovery" /\ Recovery!Next /\ UNCHANGED <<part, agentVars, crashVars>>
  \/ part = "turns" /\ Crash!Next /\ UNCHANGED <<part, agentVars, recoveryVars>>

MCSpec == MCInit /\ [][MCNext]_<<part, agentVars, recoveryVars, crashVars>>

--------------------------------------------------------------------------------
(* Properties *)

(* Retry budgets and the log of retries agree with the requests sent, over   *)
(* route changes, cancellations and reloads; without always mode the budgets *)
(* add up to the most attempts of a step.                                    *)
RecoveryHolds == part = "recovery" => Recovery!RecoverySafe

(* Wherever a process stops and however often: the log keeps its relations,  *)
(* it can be closed, what the model was asked survives, and a tool that ran  *)
(* is never reported as not started.                                         *)
TurnsHold == part = "turns" => Crash!RecoverySafe

(* No turn opens that nobody asked for, and neither an unloaded retry plugin *)
(* nor a cancelled turn asks for a request.                                  *)
TurnSteps == AgentSteps /\ Recovery!RecoverySteps

(* Models, tools, hooks and timers settle: a waking message is taken up,     *)
(* whenIdle() returns, a step with failing requests ends, an unload drains.  *)
AgentAnswers ==
  /\ part = "agent" /\ Fairness => OwedIsServed /\ WhenIdleReturns
  /\ part = "recovery" /\ Recovery!Fairness => Recovery!DisposeEnds /\ Recovery!StepEnds

(* The process is started again and backends answer: a call the model made   *)
(* gets its result, from its step or from a repair, unless a crash took the  *)
(* answer that made it.                                                      *)
CallsGetResults == part = "turns" /\ Crash!Fairness => Crash!CallsAnswered
================================================================================
