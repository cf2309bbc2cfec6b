------------------------------- MODULE AgentLoop -------------------------------
(***************************************************************************)
(* The agent driver (ReactLoopAgent): two pending-message lists, a phase   *)
(* machine (idle, maintenance, running), and a driver that opens a turn,   *)
(* claims input at step boundaries, runs steps and decides whether to go   *)
(* on.  Senders, cancels, maintenance jobs and whenIdle() callers          *)
(* interleave with it at every await.  Nothing else does: a send and its   *)
(* wake are two actions only because insertion observers run in between.   *)
(***************************************************************************)
EXTENDS Naturals, Sequences, FiniteSets

CONSTANTS Messages,        \* user messages, each sent at most once
          MaxSteps,        \* bound on the steps of a turn (the code has none)
          MaxCancels,      \* bound on cancel() calls
          MaxMaintenance   \* bound on runMaintenance() calls

ASSUME BoundsAssumption ==
  /\ MaxSteps \in Nat \ {0}
  /\ MaxCancels \in Nat
  /\ MaxMaintenance \in Nat

NoSend == [busy |-> FALSE, msgs |-> {}, wake |-> FALSE, afterAbort |-> FALSE]

VARIABLES
  nextTurn, nextStep,  \* the inbox projection
  kind,                \* phase.kind
  signal,              \* phase.abort: "live", or the cause of the first abort
  wakeRequested,       \* phase.wakeRequested
  turn,                \* phase.turn while running, phase.lastTurn otherwise
  step,                \* phase.step
  pc,                  \* where kick() stands
  held,                \* the batch claimed by the current pre-step
  turnEnds,            \* local of turn(): the ending decided so far
  sending,             \* a send() between its insertion and its wakeDriver()
  activity,            \* the promise in activityDone: 0 is the resolved initial one
  settled,             \* the promises resolved so far
  waiter,              \* a whenIdle() call: NoCall, Returned, or the promise it awaits
  entered,             \* messages recorded in history as user/message
  gone,                \* messages removed from the inbox otherwise
  ended,               \* number of turn/end events
  openStep,            \* a step/start has no step/end yet
  cancels, jobs,       \* calls made, for the bounds
  \* observed by the properties, read by no action:
  woken,               \* a waking send since the queue was last parked or cleared
  owed,                \* waking messages the agent has still to take up
  disposing            \* "no"; "first" and "after": disposal was, or came after, the first cancel

inboxVars  == <<nextTurn, nextStep>>
phaseVars  == <<kind, signal, wakeRequested, turn, step>>
driverVars == <<pc, held, turnEnds>>
logVars    == <<entered, gone, ended, openStep>>
idleVars   == <<activity, settled, waiter>>
boundVars  == <<cancels, jobs>>
ghostVars  == <<woken, owed, disposing>>
vars == <<inboxVars, phaseVars, driverVars, sending, idleVars, logVars, boundVars, ghostVars>>

NoCall   == 0
Returned == 1
Awaiting(promise) == promise + 2

FirstOf(s) == IF s = <<>> THEN <<>> ELSE <<Head(s)>>
Drop(s, i) == [k \in 1..(Len(s) - 1) |-> IF k < i THEN s[k] ELSE s[k + 1]]
Elems(s)   == {s[i] : i \in DOMAIN s}
Pending    == Elems(nextTurn) \union Elems(nextStep)
HasPending == nextTurn # <<>> \/ nextStep # <<>>
Known      == Pending \union Elems(held) \union entered \union gone
Unsent     == Messages \ Known
Aborted    == signal # "live"
Endings    == {"completed", "max-tokens", "blocked", "error", "aborted"}

Init ==
  /\ nextTurn = <<>> /\ nextStep = <<>>
  /\ kind = "idle" /\ signal = "live" /\ wakeRequested = FALSE
  /\ turn = 0 /\ step = 0
  /\ pc = "off" /\ held = <<>> /\ turnEnds = "null"
  /\ sending = NoSend
  /\ activity = 0 /\ settled = {0} /\ waiter = NoCall
  /\ entered = {} /\ gone = {} /\ ended = 0 /\ openStep = FALSE
  /\ cancels = 0 /\ jobs = 0
  /\ woken = FALSE /\ owed = {} /\ disposing = "no"

--------------------------------------------------------------------------------
(* Plausible bugs: each is a mutated form of the definition it is named after *)

LatchesBug(afterAbort) == kind = "maintenance" \/ afterAbort  \* forgets disposal
LatchesNeverBug(afterAbort) == FALSE                          \* the wake is dropped

--------------------------------------------------------------------------------
(* Helpers *)

(* wakeDriver on an idle phase: reserve the driver and a new activity. *)
StartDriver ==
  /\ kind' = "running" /\ signal' = "live" /\ wakeRequested' = FALSE
  /\ step' = 0
  /\ pc' = "again"
  /\ activity' = activity + 1
  /\ UNCHANGED turn

(* wakeDriver on another phase: whether the wake is latched for convergence. *)
Latches(afterAbort) ==
  signal # "disposed" /\ (kind = "maintenance" \/ afterAbort)

(* Convergence (the finally of kick and of runMaintenance) replays a latch. *)
Replays == wakeRequested /\ HasPending

(* The promises resolved once a finally is left, the driver restarted or not. *)
Settles(restarted) == settled \union {activity}

(* whenIdle() finds that another activity replaced the one it awaited. *)
Replaced == waiter # Awaiting(activity)

(* What a step-boundary claim leaves in next-step. *)
Unclaimed == <<>>

(* max-tokens is sticky over later step endings. *)
AfterStep(end) == IF turnEnds = "max-tokens" THEN turnEnds ELSE end

(* The finally of a step: whether a step is left open. *)
ClosesStep == FALSE

(* The driver and maintenance run between the jobs of others, never inside a *)
(* send() that has inserted but not yet woken.                              *)
Running(at) == ~sending.busy /\ pc = at

(* Append turn/end and leave turn() for the finally of kick(). *)
LeaveTurn(reason) ==
  /\ turnEnds' = reason
  /\ ended' = ended + 1
  /\ gone' = gone \union Elems(held)
  /\ held' = <<>>
  /\ pc' = "exit"
  /\ owed' = IF Aborted THEN owed ELSE {}    \* a turn that stops the driver parks the rest

--------------------------------------------------------------------------------
(* Callers *)

(* send(), up to the notification of its insertion. *)
Send(m, target, wakeup) ==
  /\ ~sending.busy
  /\ m \in Unsent
  /\ LET afterAbort == wakeup /\ kind # "idle" /\ Aborted
     IN /\ IF target = "next-turn" \/ afterAbort
           THEN nextTurn' = Append(nextTurn, m) /\ UNCHANGED nextStep
           ELSE nextStep' = Append(nextStep, m) /\ UNCHANGED nextTurn
        /\ sending' = [busy |-> TRUE, msgs |-> {m}, wake |-> wakeup, afterAbort |-> afterAbort]
  /\ UNCHANGED <<phaseVars, driverVars, idleVars, logVars, boundVars, ghostVars>>

(* A wake counts if the activity it meets can still answer it: an idle agent,   *)
(* maintenance not being disposed, a live driver, or, sent after the abort, the  *)
(* replay.  A driver that has already found its inbox empty is the exception.    *)
Answerable ==
  \/ kind = "idle"
  \/ kind = "maintenance" /\ signal # "disposed"
  \/ kind = "running" /\ ~Aborted /\ pc # "exit"
  \/ kind = "running" /\ Aborted /\ signal # "disposed" /\ sending.afterAbort

(* The rest of send(): wakeDriver with the classification taken on entry. *)
SendWake ==
  /\ sending.busy
  /\ sending' = NoSend
  /\ \/ ~sending.wake /\ UNCHANGED <<phaseVars, pc, activity>>
     \/ sending.wake /\ kind = "idle" /\ StartDriver
     \/ /\ sending.wake /\ kind # "idle"
        /\ wakeRequested' = (wakeRequested \/ Latches(sending.afterAbort))
        /\ UNCHANGED <<kind, signal, turn, step, pc, activity>>
  /\ IF sending.wake /\ Answerable
     THEN woken' = TRUE /\ owed' = owed \union (sending.msgs \intersect Pending)
     ELSE UNCHANGED <<woken, owed>>
  /\ UNCHANGED <<inboxVars, held, turnEnds, settled, waiter, logVars, boundVars, disposing>>

(* cancel(cause, { keepInbox }): also from an observer of an insertion. *)
Cancel(cause, keep) ==
  /\ cancels < MaxCancels
  /\ cancels' = cancels + 1
  /\ IF keep THEN UNCHANGED <<inboxVars, gone>>
     ELSE /\ nextTurn' = <<>> /\ nextStep' = <<>>
          /\ gone' = gone \union Pending
  /\ IF kind = "idle"
     THEN UNCHANGED <<signal, wakeRequested, ghostVars>>
     ELSE /\ wakeRequested' = (wakeRequested /\ keep)
          /\ signal' = IF Aborted THEN signal ELSE cause
          /\ LET parks == ~keep \/ (kind = "running" /\ ~Aborted)
             IN /\ woken' = (woken /\ ~parks)
                /\ owed' = IF parks THEN {} ELSE owed
          /\ disposing' = IF cause # "disposed" \/ disposing # "no" THEN disposing
                          ELSE IF Aborted THEN "after" ELSE "first"
  /\ UNCHANGED <<kind, turn, step, driverVars, sending, idleVars, entered, ended, openStep, jobs>>

(* inbox.remove of one pending message. *)
RemovePending(m) ==
  /\ ~sending.busy
  /\ \/ /\ \E i \in DOMAIN nextTurn : nextTurn[i] = m /\ nextTurn' = Drop(nextTurn, i)
        /\ UNCHANGED nextStep
     \/ /\ \E i \in DOMAIN nextStep : nextStep[i] = m /\ nextStep' = Drop(nextStep, i)
        /\ UNCHANGED nextTurn
  /\ gone' = gone \union {m}
  /\ UNCHANGED <<phaseVars, driverVars, sending, idleVars, entered, ended, openStep,
                 boundVars, ghostVars>>

StartMaintenance ==
  /\ ~sending.busy
  /\ kind = "idle"
  /\ jobs < MaxMaintenance
  /\ jobs' = jobs + 1
  /\ kind' = "maintenance" /\ signal' = "live" /\ wakeRequested' = FALSE
  /\ activity' = activity + 1
  /\ UNCHANGED <<inboxVars, turn, step, driverVars, sending, settled, waiter, logVars,
                 cancels, ghostVars>>

(* The finally of runMaintenance and of kick: idle, or a replay of the latch. *)
ConvergeToIdle ==
  /\ settled' = Settles(Replays)
  /\ IF Replays
     THEN StartDriver /\ UNCHANGED <<woken, disposing>>
     ELSE /\ kind' = "idle" /\ pc' = "off" /\ signal' = "live" /\ wakeRequested' = FALSE
          /\ step' = 0 /\ woken' = FALSE /\ disposing' = "no"
          /\ UNCHANGED <<turn, activity>>
  /\ UNCHANGED <<inboxVars, sending, waiter, logVars, boundVars, owed>>

(* The maintenance job settled. *)
EndMaintenance ==
  /\ ~sending.busy
  /\ kind = "maintenance"
  /\ ConvergeToIdle
  /\ UNCHANGED <<held, turnEnds>>

WhenIdle ==
  /\ waiter \in {NoCall, Returned}
  /\ waiter' = Awaiting(activity)
  /\ UNCHANGED <<inboxVars, phaseVars, driverVars, sending, activity, settled, logVars,
                 boundVars, ghostVars>>

(* whenIdle() resumes: return, or await the activity that replaced this one. *)
WhenIdleResumes ==
  /\ ~sending.busy
  /\ \E promise \in settled : waiter = Awaiting(promise)
  /\ waiter' = IF Replaced THEN Awaiting(activity) ELSE Returned
  /\ UNCHANGED <<inboxVars, phaseVars, driverVars, sending, activity, settled, logVars,
                 boundVars, ghostVars>>

--------------------------------------------------------------------------------
(* The driver *)

(* preStep's synchronous part: claim the batch of the proposed step. *)
Claim(withTurn) ==
  /\ held' = nextStep \o (IF withTurn THEN FirstOf(nextTurn) ELSE <<>>)
  /\ nextStep' = Unclaimed
  /\ nextTurn' = IF withTurn /\ nextTurn # <<>> THEN Tail(nextTurn) ELSE nextTurn
  /\ pc' = "preStep"

(* turn() called: open the turn and propose its first step. *)
OpenTurn ==
  /\ Running("again")
  /\ ~Aborted
  /\ turn' = turn + 1
  /\ turnEnds' = "null"
  /\ Claim(TRUE)
  /\ UNCHANGED <<kind, signal, wakeRequested, step, sending, idleVars, logVars,
                 boundVars, ghostVars>>

(* turn() called on an aborted signal: no turn is opened. *)
RefuseTurn ==
  /\ Running("again")
  /\ Aborted
  /\ pc' = "exit"
  /\ UNCHANGED <<inboxVars, phaseVars, held, turnEnds, sending, idleVars, logVars,
                 boundVars, ghostVars>>

(* Append turn/end normally; go on with a fresh signal if input is pending. *)
CloseTurn ==
  /\ ended' = ended + 1
  /\ held' = <<>>
  /\ IF HasPending
     THEN pc' = "again" /\ signal' = "live" /\ wakeRequested' = FALSE /\ step' = 0
     ELSE pc' = "exit" /\ UNCHANGED <<signal, wakeRequested, step>>
  /\ UNCHANGED <<kind, turn, turnEnds, owed>>

(* Assembly and the agent/pre-step waterfall settled on an aborted signal, *)
(* rejected the step, or failed.                                           *)
PreStepEnds(reason) ==
  /\ Running("preStep")
  /\ IF Aborted THEN reason = "aborted" ELSE reason \in {"blocked", "error"}
  /\ LeaveTurn(reason)
  /\ UNCHANGED <<inboxVars, phaseVars, sending, idleVars, entered, openStep, boundVars,
                 woken, disposing>>

(* The waterfall returned no message to enter. *)
PreStepEmpty ==
  /\ Running("preStep")
  /\ ~Aborted
  /\ \/ /\ turnEnds # "null"
        /\ gone' = gone \union Elems(held)
        /\ CloseTurn
     \/ /\ turnEnds = "null" /\ step = 0
        /\ LeaveTurn("completed")
        /\ UNCHANGED phaseVars
  /\ UNCHANGED <<inboxVars, sending, idleVars, entered, openStep, boundVars, woken, disposing>>

(* The waterfall entered the step, with the claimed messages or without them *)
(* (runtime context alone also makes a batch).                               *)
EnterStep(keepsClaimed) ==
  /\ Running("preStep")
  /\ ~Aborted
  /\ step < MaxSteps
  /\ step' = step + 1
  /\ entered' = IF keepsClaimed THEN entered \union Elems(held) ELSE entered
  /\ gone' = IF keepsClaimed THEN gone ELSE gone \union Elems(held)
  /\ held' = <<>>
  /\ openStep' = TRUE
  /\ pc' = "model"
  /\ UNCHANGED <<inboxVars, kind, signal, wakeRequested, turn, turnEnds, sending,
                 idleVars, ended, boundVars, ghostVars>>

(* step() threw: the model, a tool or an extension failed, or was aborted. *)
StepFails(reason) ==
  /\ Running("model")
  /\ reason = IF Aborted THEN "aborted" ELSE "error"
  /\ openStep' = ClosesStep
  /\ LeaveTurn(reason)
  /\ UNCHANGED <<inboxVars, phaseVars, sending, idleVars, entered, boundVars, woken, disposing>>

(* step() returned: tool results follow (null), or the turn may end. *)
StepDone(end) ==
  /\ Running("model")
  /\ ~Aborted
  /\ end = "null" => step < MaxSteps
  /\ openStep' = FALSE
  /\ turnEnds' = AfterStep(end)
  /\ IF turnEnds' # "null" /\ nextStep = <<>>
     THEN pc' = "stopping" /\ UNCHANGED <<inboxVars, held>>
     ELSE Claim(FALSE)
  /\ UNCHANGED <<phaseVars, sending, idleVars, entered, gone, ended, boundVars, ghostVars>>

(* The agent/turn-stopping listeners settled. *)
StoppingDone ==
  /\ Running("stopping")
  /\ ~Aborted
  /\ \/ nextStep = <<>> /\ CloseTurn /\ UNCHANGED inboxVars
     \/ /\ nextStep # <<>> /\ step < MaxSteps
        /\ Claim(FALSE)
        /\ UNCHANGED <<phaseVars, turnEnds, ended, owed>>
  /\ UNCHANGED <<sending, idleVars, entered, gone, openStep, boundVars, woken, disposing>>

(* A turn-stopping listener failed, or the signal was aborted meanwhile. *)
StoppingFails(reason) ==
  /\ Running("stopping")
  /\ reason = IF Aborted THEN "aborted" ELSE "error"
  /\ LeaveTurn(reason)
  /\ UNCHANGED <<inboxVars, phaseVars, sending, idleVars, entered, openStep, boundVars,
                 woken, disposing>>

(* The driver left turn() for good: the finally of kick(). *)
Converge ==
  /\ Running("exit")
  /\ ConvergeToIdle
  /\ turnEnds' = "null"
  /\ UNCHANGED held

--------------------------------------------------------------------------------
Driver ==
  \/ OpenTurn \/ RefuseTurn \/ PreStepEmpty \/ StoppingDone \/ Converge
  \/ \E reason \in {"blocked", "error", "aborted"} :
       PreStepEnds(reason) \/ StepFails(reason) \/ StoppingFails(reason)
  \/ \E keepsClaimed \in BOOLEAN : EnterStep(keepsClaimed)
  \/ \E end \in {"null", "completed", "max-tokens"} : StepDone(end)

Next ==
  \/ \E m \in Messages, target \in {"next-turn", "next-step"}, wakeup \in BOOLEAN :
       Send(m, target, wakeup)
  \/ SendWake
  \/ \E keep \in BOOLEAN : Cancel("user", keep)
  \/ Cancel("disposed", FALSE)      \* a disposal always drops the inbox
  \/ \E m \in Messages : RemovePending(m)
  \/ StartMaintenance \/ EndMaintenance
  \/ WhenIdle \/ WhenIdleResumes
  \/ Driver

Spec == Init /\ [][Next]_vars

(* Models, tools, hooks and maintenance jobs settle, and microtasks run. *)
Fairness ==
  /\ WF_vars(Driver) /\ WF_vars(EndMaintenance)
  /\ WF_vars(SendWake) /\ WF_vars(WhenIdleResumes)

FairSpec == Spec /\ Fairness

--------------------------------------------------------------------------------
(* Properties *)

Injective(s) == \A i, j \in DOMAIN s : s[i] = s[j] => i = j

(* Types; a batch is held between its claim and the decision on its step only. *)
Types ==
  /\ nextTurn \in Seq(Messages) /\ nextStep \in Seq(Messages) /\ held \in Seq(Messages)
  /\ entered \subseteq Messages /\ gone \subseteq Messages /\ owed \subseteq Known
  /\ kind \in {"idle", "maintenance", "running"}
  /\ signal \in {"live", "user", "disposed"}
  /\ pc \in {"off", "again", "preStep", "model", "stopping", "exit"}
  /\ turnEnds \in Endings \union {"null"}
  /\ sending \in [busy : BOOLEAN, msgs : SUBSET Messages, wake : BOOLEAN, afterAbort : BOOLEAN]
  /\ turn \in Nat /\ ended \in Nat /\ step \in 0..MaxSteps
  /\ activity \in Nat /\ waiter \in Nat /\ settled \subseteq 0..activity
  /\ cancels \in 0..MaxCancels /\ jobs \in 0..MaxMaintenance
  /\ wakeRequested \in BOOLEAN /\ openStep \in BOOLEAN /\ woken \in BOOLEAN
  /\ disposing \in {"no", "first", "after"}
  /\ held # <<>> => pc = "preStep"

(* Every message sent has one fate: it is pending once, in one of the lists, *)
(* or claimed once, or entered into history, or gone.                        *)
OneFate ==
  /\ Injective(nextTurn) /\ Injective(nextStep) /\ Injective(held)
  /\ Elems(nextTurn) \intersect Elems(nextStep) = {}
  /\ Pending \intersect Elems(held) = {}
  /\ (Pending \union Elems(held)) \intersect (entered \union gone) = {}
  /\ entered \intersect gone = {}

TypeOK == Types /\ OneFate

(* The session log is balanced whatever throws: one turn/end per turn/start  *)
(* and one step/end per step/start, so an idle agent leaves nothing open.    *)
BalancedLog ==
  /\ turn = ended + (IF pc \in {"preStep", "model", "stopping"} THEN 1 ELSE 0)
  /\ openStep <=> pc = "model"

(* No prompt is forgotten: an idle agent owes no pending message a turn.     *)
(* What may lie there was not a wake, was parked by keepInbox, by a failed,   *)
(* blocked or emptied turn, or came while the driver was already leaving.    *)
NothingOwedWhenIdle ==
  kind = "idle" /\ ~sending.busy => owed \intersect Pending = {}

(* Parked and injected input never opens a turn by itself: after an abort    *)
(* with keepInbox, or a cancel that cleared the inbox under a latched wake,  *)
(* the next turn answers a wake sent since then.                             *)
NoUnpromptedTurn == [][turn' # turn => woken]_vars

(* An activity whose first cancel is its disposal opens no further turn, so  *)
(* teardown waits on no model turn.                                          *)
NoTurnAfterDisposal == [][turn' # turn => disposing # "first"]_vars

(* ... which the comment on wakeDriver says of every disposal. *)
TeardownOpensNoTurn == [][turn' # turn => disposing = "no"]_vars

(* whenIdle() returns only when the agent is idle, not when one of the       *)
(* activities chained by replayed wakes has ended.                           *)
WhenIdleMeansIdle == [][waiter # Returned /\ waiter' = Returned => kind = "idle"]_vars

(* A turn in which one step hit the token ceiling is not reported completed. *)
MaxTokensSticky == [][turnEnds = "max-tokens" => turnEnds' # "completed"]_vars

(* A message that wakes the agent is taken up, or parked or dropped. *)
OwedIsServed == \A m \in Messages : m \in owed ~> m \notin owed \intersect Pending

(* whenIdle() returns: no promise it awaits is dropped by a replay. *)
WhenIdleReturns == (waiter # NoCall) ~> (waiter = Returned)

(* What any interleaving of senders, cancels, maintenance and the driver     *)
(* keeps: one fate per message, a balanced log, no prompt forgotten.         *)
AgentSafe == TypeOK /\ BalancedLog /\ NothingOwedWhenIdle

(* What no step does: open a turn nobody asked for or into a disposal, end a *)
(* wait while the agent is busy, report a truncated turn as completed.       *)
AgentSteps ==
  NoUnpromptedTurn /\ NoTurnAfterDisposal /\ WhenIdleMeansIdle /\ MaxTokensSticky
================================================================================
