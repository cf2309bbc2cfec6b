-------------------------------- MODULE MCTools --------------------------------
(***************************************************************************)
(* Four parts of a tool call's way, which share no state: the scheduler of *)
(* a step's tool calls, the dispatch of the calls a program makes inside   *)
(* run_code, the approvals a call asks for, and the registry of background *)
(* jobs it may leave.  They are checked side by side: the initial state    *)
(* picks the part that runs, the others stand still.                       *)
(***************************************************************************)
EXTENDS ToolCalls

CONSTANTS
  CodeCalls, CodeParallel, CodeChanges,  \* the bounds of a program's dispatch
  Askers, Switches,                      \* calls that ask for approval, changes of the policy
  Jobs, Agents, NoOwner, JobWaits, Limit    \* the registry's

VARIABLES
  part,
  registry, codeReclasses, submitted, taken, codeStarted, codeStartMode, commitQueue, settled,
  codeRunning, codeInFlight, barrier, commits, logging, settleLog, answers, codePc, codeAborted,
  run,
  log, turn, at, asks, outcome, queued, askAnswers, pending, askAborted, gateway, policy,
  switches, allowed, ran,
  status, owner, store, reported, produced, phase, target, counted, scope, closing, closed,
  announced, claimed, sawEnd

Code == INSTANCE CodeDispatch WITH
          reclasses <- codeReclasses, started <- codeStarted, startMode <- codeStartMode,
          running <- codeRunning, inFlight <- codeInFlight, pc <- codePc,
          aborted <- codeAborted, NCalls <- CodeCalls, MaxParallel <- CodeParallel,
          MaxReclass <- CodeChanges
Asking == INSTANCE Approvals WITH
            answers <- askAnswers, aborted <- askAborted, Calls <- Askers,
            MaxSwitches <- Switches
JobStore == INSTANCE JobRegistry WITH Waits <- JobWaits

ASSUME CodeBounds == Code!CodeDispatchAssumption
ASSUME ApprovalBounds == Asking!ApprovalsAssumption
ASSUME JobBounds == JobStore!RegistryAssumption

codeVars == <<registry, codeReclasses, submitted, taken, codeStarted, codeStartMode, commitQueue,
              settled, codeRunning, codeInFlight, barrier, commits, logging, settleLog, answers,
              codePc, codeAborted, run>>
askVars == <<log, turn, at, asks, outcome, queued, askAnswers, pending, askAborted, gateway,
             policy, switches, allowed, ran>>
jobVars == <<status, owner, store, reported, produced, phase, target, counted, scope, closing,
             closed, announced, claimed, sawEnd>>

(* Either all may ask, or only one of them does and the policy may change. *)
OneAsks == \A c, d \in Askers : asks[c] > 0 /\ asks[d] > 0 => c = d

(* The initial state of a part that does not run is one of its initial states. *)
MCInit ==
  /\ part \in {"step", "code", "approvals", "policy", "jobs"}
  /\ Init /\ Code!Init /\ Asking!Init /\ JobStore!Init
  /\ part # "step" => ~signal /\ mode = [c \in Calls |-> "parallel"]
  /\ part # "code" => registry = [c \in 1..CodeCalls |-> "parallel"]
  /\ part # "jobs" => target = [w \in JobWaits |-> CHOOSE job \in Jobs : TRUE]

MCNext ==
  \/ part = "step" /\ Next /\ UNCHANGED <<part, codeVars, askVars, jobVars>>
  \/ part = "code" /\ Code!Next /\ UNCHANGED <<part, vars, askVars, jobVars>>
  \/ /\ part = "approvals" /\ UNCHANGED policy /\ Asking!Next
     /\ UNCHANGED <<part, vars, codeVars, jobVars>>
  \/ /\ part = "policy" /\ Asking!Next /\ OneAsks'
     /\ UNCHANGED <<part, vars, codeVars, jobVars>>
  \/ part = "jobs" /\ JobStore!Next /\ UNCHANGED <<part, vars, codeVars, askVars>>

MCSpec == MCInit /\ [][MCNext]_<<part, vars, codeVars, askVars, jobVars>>

--------------------------------------------------------------------------------
(* Properties *)

(* The calls of a program inside run_code: an exclusive call is alone, the   *)
(* lane sleeps only on work, and a closed run has answered and logged all.   *)
DispatchHolds == part = "code" => Code!DispatchSafe

(* A prompt stands for the question its call asks now, a grant is what a     *)
(* person allowed for that question, and an ended turn has an audit of pairs. *)
ApprovalsHold == part \in {"approvals", "policy"} => Asking!ApprovalsSafe

(* A background job is announced once, no notice is swallowed, limits hold,  *)
(* and a disposed owner leaves no job behind.                                *)
JobsHold == part = "jobs" => JobStore!JobsSafe

(* After an abort no tool starts, in a step or in a program, and no program  *)
(* gets a value; the outcome of a job is the first.                          *)
AbortedStaysQuiet == NoStartAfterAbort /\ Code!NothingAfterAbort /\ JobStore!FirstOutcomeWins

(* Tools settle, bodies end when told to: steps and program runs end, calls  *)
(* are answered, abandoned questions are settled, teardowns end.             *)
ToolsSettle ==
  /\ part = "step" /\ Fairness => StepEnds
  /\ part = "code" /\ Code!Fairness => Code!RunCloses /\ Code!Answered
  /\ part = "approvals" /\ Asking!Fairness => Asking!AskSettles
  /\ part = "jobs" /\ JobStore!Fairness => JobStore!TeardownEnds
================================================================================
