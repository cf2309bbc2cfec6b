------------------------------- MODULE GoalRounds -------------------------------
(***************************************************************************)
(* Automatic goal rounds: the goal service, whose state is a fold of the   *)
(* session log, and the driver that queues the next round of an armed goal *)
(* whenever the agent goes idle.  A round is reserved, queued with the     *)
(* agent, claimed by a turn, checked before and after the other pre-step   *)
(* listeners and only then appended; in between people edit, pause and     *)
(* resume the goal, send messages, cancel, and the plugin is unloaded.     *)
(***************************************************************************)
EXTENDS Naturals, Sequences, FiniteSets

CONSTANTS MaxRev,     \* bound on the revisions people commit
          MaxHuman,   \* bound on the messages people send
          Limits,     \* the values of maxGoalRounds
          MaxRuns,    \* bound on the driver's tasks at a time
          Compositions \* the sets of what the composition around the driver does:
                       \* "outer", a listener outside the driver's may await, and
                       \* "keep", a cancel may keep the inbox

ASSUME GoalRoundsAssumption ==
  /\ MaxRev \in Nat \ {0} /\ MaxHuman \in Nat /\ MaxRuns \in Nat \ {0}
  /\ Limits \subseteq Nat \ {0} /\ \E n \in Limits : \A m \in Limits : m <= n
  /\ \A features \in Compositions : features \subseteq {"outer", "keep"}

VARIABLES
  features,    \* the composition of this run
  goal,        \* the folded goal and its activation: phase, rev, rounds, max, armed
  corrupt,     \* the fold threw: the goal is unreadable from here on
  attempt,     \* the driver's reservation
  competing,   \* competingQueued
  checkpoint,  \* needsCheckpoint
  requested,
  runs,        \* the driver's tasks: none, first (its pass is still to come), loop,
               \* flush (awaiting the checkpoint), stored (it succeeded)
  owner,       \* the task state.run holds, 0 for undefined
  plugin,      \* on, closing (stopping is set), off (its listeners are removed)
  turn,        \* the agent: idle, claimed, downstream, outer, step
  batch,       \* the message its turn claimed
  aborted,     \* the signal of its activity
  wake,        \* wakeRequested
  inbox,       \* its next-turn queue
  sent,        \* messages people sent, for the bound
  saved,       \* observed: what the last checkpoint that succeeded covered
  barred       \* observed: a round was cancelled and nobody asked for more

goalVars   == <<goal, corrupt>>
driverVars == <<attempt, competing, checkpoint, requested, runs, owner, plugin>>
agentVars  == <<turn, batch, aborted, wake, inbox>>
obsVars    == <<saved, barred>>
vars == <<features, goalVars, driverVars, agentVars, sent, obsVars>>

Slots == 1 .. MaxRuns
Human == [rev |-> 0, round |-> 0, joined |-> FALSE]
NoAttempt == [rev |-> 0, round |-> 0, phase |-> "none", cancelled |-> FALSE, stale |-> FALSE]

(* A session that starts with a goal never starts armed. *)
Init ==
  /\ features \in Compositions
  /\ goal \in [phase : {"none", "active"}, rev : {1}, rounds : {0}, max : Limits, armed : {FALSE}]
  /\ corrupt = FALSE
  /\ attempt = NoAttempt /\ competing = FALSE /\ checkpoint = FALSE
  /\ requested = FALSE /\ runs = [r \in Slots |-> "none"] /\ owner = 0 /\ plugin = "on"
  /\ turn = "idle" /\ batch = Human /\ aborted = FALSE /\ wake = FALSE /\ inbox = <<>>
  /\ sent = 0
  /\ saved = <<1, 0>> /\ barred = FALSE

--------------------------------------------------------------------------------
(* Plausible bugs: each is a mutated form of the definition it is named after *)

JoinedBug(a) == a                                    \* people do not make it stale
StillValidBug == TRUE                                \* only the first check

--------------------------------------------------------------------------------
(* Helpers *)

IsRound(m) == m.round > 0
Same(m, a) == IsRound(m) /\ m.rev = a.rev /\ m.round = a.round

Armed == ~corrupt /\ goal.phase = "active" /\ goal.armed
Listening == plugin # "off"

Running == turn # "idle"

Ready == plugin = "on" /\ ~Running /\ ~competing

(* No task is between two of its awaits. *)
Quiet == \A r \in Slots : runs[r] \in {"none", "flush"}

Free == {r \in Slots : runs[r] = "none"}

(* A task is started unless state.run holds one (or MaxRuns run). *)
RequestDrive ==
  IF plugin # "on" THEN UNCHANGED <<requested, runs, owner>>
  ELSE /\ requested' = TRUE
       /\ IF owner # 0 THEN UNCHANGED <<runs, owner>>
          ELSE \E r \in Free : /\ \A q \in Free : r <= q
                               /\ owner' = r /\ runs' = [runs EXCEPT ![r] = "first"]

(* What a claim by a turn makes of the reservation. *)
Claims(m, a) ==
  IF Listening /\ Same(m, a) THEN [a EXCEPT !.phase = "claimed"] ELSE a

(* What a message from people queued behind it makes of the reservation. *)
Joined(a) == IF a.phase = "queued" THEN [a EXCEPT !.stale = TRUE] ELSE a

(* What the turn/end of an aborted turn makes of it. *)
Aborted(a) ==
  IF a.phase \in {"claimed", "admitted"} THEN [a EXCEPT !.cancelled = TRUE] ELSE a

(* Going idle asks for a pass. *)
IdleEdge == RequestDrive

(* A new turn claims the head of the queue q; a is the reservation until then. *)
StartTurn(q, a) ==
  /\ turn' = "claimed" /\ aborted' = FALSE /\ wake' = FALSE
  /\ batch' = Head(q) /\ inbox' = Tail(q)
  /\ attempt' = Claims(Head(q), a)

(* A goal mutation people ask for, while the bound lasts. *)
MayAsk == ~corrupt /\ goal.rev < MaxRev

(* A committed goal mutation and the driver's reaction to goal/changed. *)
Commit(g) ==
  /\ goal' = [g EXCEPT !.rev = goal.rev + 1]
  /\ checkpoint' = TRUE
  /\ RequestDrive

Disarmed(g) == [g EXCEPT !.armed = FALSE]
Stopped(g, p) == [g EXCEPT !.phase = p, !.armed = FALSE]

(* The turn ends with this reason, unless it was aborted.  a is the reservation *)
(* and g the goal as the listeners of this step left them.  Pending input keeps *)
(* the driver going after a turn that ran; every other turn goes back to idle.  *)
Ends(kind, a, g) ==
  LET reason == IF aborted THEN "aborted" ELSE kind
      ours == a.phase \in {"claimed", "admitted"}
      left == IF Listening /\ reason = "aborted" THEN Aborted(a) ELSE a
      kept == IF Listening /\ (reason \in {"max-tokens", "error"} \/ (reason = "aborted" /\ ~ours))
                THEN Disarmed(g) ELSE g
      pauses == /\ Listening /\ ~corrupt /\ kept.phase = "active" /\ kept.armed
                /\ left.phase \in {"queued", "claimed"} \/ left.cancelled
  IN IF reason \in {"completed", "max-tokens"} /\ inbox # <<>>
       THEN /\ StartTurn(inbox, left)
            /\ goal' = kept
            /\ UNCHANGED <<competing, checkpoint, requested, runs, owner>>
       ELSE /\ turn' = "idle" /\ batch' = Human
            /\ competing' = (competing /\ ~Listening)
            /\ attempt' = IF pauses THEN NoAttempt ELSE left
            /\ goal' = IF pauses THEN [Stopped(kept, "paused") EXCEPT !.rev = @ + 1] ELSE kept
            /\ checkpoint' = (checkpoint \/ pauses \/ g.rev # goal.rev)
            /\ IdleEdge
            /\ aborted' = FALSE /\ UNCHANGED <<wake, inbox>>

--------------------------------------------------------------------------------
(* The driver *)

(* After the checkpoint nothing newer may be waiting for one. *)
AfterCheckpoint == ~checkpoint

(* A settled attempt asks for a checkpoint and another pass. *)
Settled == TRUE

LimitReached == goal.rounds >= goal.max

(* The next round is queued, which wakes the agent. *)
Reserve ==
  LET r == [rev |-> goal.rev, round |-> goal.rounds + 1]
      q == Append(inbox, [rev |-> r.rev, round |-> r.round, joined |-> FALSE])
      queued == [NoAttempt EXCEPT !.rev = r.rev, !.round = r.round, !.phase = "queued"]
  IN IF turn = "idle"
       THEN StartTurn(q, queued)
       ELSE /\ inbox' = q /\ attempt' = queued /\ wake' = TRUE
            /\ UNCHANGED <<turn, batch, aborted>>

(* The rest of a pass: account for the settled round, or stop at the limit, or *)
(* reserve the next round.  asked says whether another pass was asked for.     *)
(* A first pass runs before state.run holds its task, so the goal change of a  *)
(* stop at the limit starts a second task, which goes to its checkpoint.       *)
Continue(r, asked) ==
  CASE attempt # NoAttempt ->
         /\ attempt' = NoAttempt
         /\ checkpoint' = (checkpoint \/ Settled) /\ requested' = TRUE
         /\ runs' = [runs EXCEPT ![r] = "loop"]
         /\ UNCHANGED <<goal, agentVars>>
    [] attempt = NoAttempt /\ ~Armed ->
         /\ requested' = asked /\ runs' = [runs EXCEPT ![r] = "loop"]
         /\ UNCHANGED <<goal, attempt, checkpoint, agentVars>>
    [] attempt = NoAttempt /\ Armed /\ LimitReached ->
         /\ goal' = [Stopped(goal, "blocked") EXCEPT !.rev = @ + 1]
         /\ IF runs[r] = "first"
              THEN \E second \in Free :
                     /\ runs' = [runs EXCEPT ![r] = "loop", ![second] = "flush"]
                     /\ checkpoint' = FALSE /\ requested' = FALSE
              ELSE /\ runs' = [runs EXCEPT ![r] = "loop"]
                   /\ checkpoint' = TRUE /\ requested' = TRUE
         /\ UNCHANGED <<attempt, agentVars>>
    [] attempt = NoAttempt /\ Armed /\ ~LimitReached ->
         /\ Reserve
         /\ requested' = asked /\ runs' = [runs EXCEPT ![r] = "loop"]
         /\ UNCHANGED <<goal, checkpoint>>

(* A task without a request retires, and state.run is cleared whatever it holds. *)
Retire(r) ==
  /\ runs[r] \in {"first", "loop"} /\ (~requested \/ plugin # "on")
  /\ runs' = [runs EXCEPT ![r] = "none"] /\ owner' = 0
  /\ UNCHANGED <<goalVars, attempt, competing, checkpoint, requested, plugin, agentVars,
                 sent, obsVars>>

(* One pass up to its checkpoint. *)
Drive(r) ==
  /\ runs[r] \in {"first", "loop"} /\ requested /\ plugin = "on"
  /\ CASE ~Ready ->
            /\ requested' = FALSE /\ runs' = [runs EXCEPT ![r] = "loop"]
            /\ UNCHANGED <<goal, attempt, checkpoint, agentVars>>
       [] Ready /\ checkpoint ->
            /\ requested' = FALSE /\ checkpoint' = FALSE
            /\ runs' = [runs EXCEPT ![r] = "flush"]
            /\ UNCHANGED <<goal, attempt, agentVars>>
       [] Ready /\ ~checkpoint -> Continue(r, FALSE)
  /\ UNCHANGED <<corrupt, competing, owner, plugin, sent, saved, barred>>

(* The checkpoint settles, for every task that waits for it: the flush writes *)
(* until nothing is pending and whoever asks meanwhile joins it.             *)
Flushed ==
  /\ \E r \in Slots : runs[r] = "flush"
  /\ runs' = [r \in Slots |-> IF runs[r] = "flush" THEN "stored" ELSE runs[r]]
  /\ saved' = <<goal.rev, goal.rounds>>
  /\ UNCHANGED <<goalVars, attempt, competing, checkpoint, requested, owner, plugin, agentVars,
                 sent, barred>>

FlushFails ==
  /\ \E r \in Slots : runs[r] = "flush"
  /\ runs' = [r \in Slots |-> IF runs[r] = "flush" THEN "loop" ELSE runs[r]]
  /\ goal' = Disarmed(goal)
  /\ UNCHANGED <<corrupt, attempt, competing, checkpoint, requested, owner, plugin, agentVars,
                 sent, obsVars>>

(* The pass goes on if nothing changed during the checkpoint. *)
Resumes(r) ==
  /\ runs[r] = "stored"
  /\ IF Ready /\ AfterCheckpoint
       THEN Continue(r, requested)
       ELSE /\ runs' = [runs EXCEPT ![r] = "loop"]
            /\ UNCHANGED <<goal, attempt, checkpoint, requested, agentVars>>
  /\ UNCHANGED <<corrupt, competing, owner, plugin, sent, obsVars>>

--------------------------------------------------------------------------------
(* The agent's turn and the pre-step fence *)

(* The reservation still owns the goal's live revision. *)
Valid ==
  /\ plugin = "on"
  /\ attempt.phase = "claimed" /\ ~attempt.stale /\ Same(batch, attempt)
  /\ Armed /\ goal.rev = batch.rev /\ batch.round = goal.rounds + 1

(* What the second look asks: the same again. *)
StillValid == Valid

(* The round is appended as a user message.  The strict fold accepts the next *)
(* round of the active goal's current revision and throws at anything else.   *)
Admit(a) ==
  LET fits == /\ goal.phase = "active" /\ goal.rev = batch.rev
              /\ batch.round = goal.rounds + 1 /\ batch.round <= goal.max
  IN /\ turn' = "step"
     /\ goal' = IF ~corrupt /\ fits THEN [goal EXCEPT !.rounds = batch.round] ELSE goal
     /\ corrupt' = (corrupt \/ ~fits)
     /\ attempt' = IF Listening /\ Same(batch, a) THEN [a EXCEPT !.phase = "admitted"] ELSE a

(* Ordinary input, and a round nobody guards any more, goes straight in. *)
Enter ==
  /\ turn = "claimed" /\ ~aborted
  /\ IF IsRound(batch) /\ ~Listening
       THEN Admit(attempt)
       ELSE ~IsRound(batch) /\ turn' = "step" /\ UNCHANGED <<goalVars, attempt>>
  /\ UNCHANGED <<competing, checkpoint, requested, runs, owner, plugin, batch, aborted, wake, inbox,
                 sent, obsVars>>

(* The first look at a claimed round. *)
FirstCheck ==
  /\ turn = "claimed" /\ IsRound(batch) /\ Listening
  /\ IF Valid
       THEN turn' = "downstream" /\ UNCHANGED <<goal, driverVars, batch, aborted, wake, inbox>>
       ELSE /\ Ends("blocked", IF Same(batch, attempt) THEN NoAttempt ELSE attempt, goal)
            /\ UNCHANGED plugin
  /\ UNCHANGED <<corrupt, sent, obsVars>>

(* The inner listeners let it in, and it is looked at again.  Unless an outer *)
(* listener awaits, nothing comes between this look and the append.           *)
SecondCheck ==
  /\ turn = "downstream" /\ ~aborted
  /\ \/ ~StillValid /\ Ends("blocked", NoAttempt, goal) /\ UNCHANGED corrupt
     \/ /\ StillValid /\ "outer" \in features
        /\ turn' = "outer"
        /\ UNCHANGED <<goalVars, attempt, competing, checkpoint, requested, runs, owner,
                       batch, aborted, wake, inbox>>
     \/ /\ StillValid /\ Admit(attempt)
        /\ UNCHANGED <<competing, checkpoint, requested, runs, owner, batch, aborted, wake, inbox>>
  /\ UNCHANGED <<plugin, sent, obsVars>>

(* The outer listeners are done with the round the driver let through. *)
OuterDone ==
  /\ turn = "outer" /\ ~aborted
  /\ Admit(attempt)
  /\ UNCHANGED <<competing, checkpoint, requested, runs, owner, plugin, batch, aborted, wake, inbox,
                 sent, obsVars>>

(* An inner listener rejects the step: the goal is blocked, if still this one. *)
Rejected ==
  /\ turn = "downstream" /\ ~aborted
  /\ Ends("blocked", NoAttempt,
          IF Armed /\ goal.rev = batch.rev
            THEN [Stopped(goal, "blocked") EXCEPT !.rev = @ + 1] ELSE goal)
  /\ UNCHANGED <<corrupt, plugin, sent, obsVars>>

(* An inner listener throws. *)
Throws ==
  /\ turn = "downstream" /\ ~aborted
  /\ Ends("error", NoAttempt, goal)
  /\ UNCHANGED <<corrupt, plugin, sent, obsVars>>

(* A listener or an assembly outside the driver's ends the step. *)
OutsideEnds ==
  /\ turn \in {"claimed", "outer"} /\ ~aborted
  /\ \E kind \in {"blocked", "error"} : Ends(kind, attempt, goal)
  /\ UNCHANGED <<corrupt, plugin, sent, obsVars>>

(* The turn notices that it was aborted. *)
AbortSeen ==
  /\ Running /\ aborted
  /\ Ends("aborted", attempt, goal)
  /\ UNCHANGED <<corrupt, plugin, sent, obsVars>>

StepEnds ==
  /\ turn = "step" /\ ~aborted
  /\ \E kind \in {"completed", "max-tokens", "error"} : Ends(kind, attempt, goal)
  /\ UNCHANGED <<corrupt, plugin, sent, obsVars>>

(* Work owed behind the activity that just ended starts a turn. *)
WakeUp ==
  /\ turn = "idle" /\ wake
  /\ IF inbox # <<>>
       THEN StartTurn(inbox, attempt)
       ELSE wake' = FALSE /\ UNCHANGED <<turn, batch, aborted, inbox, attempt>>
  /\ UNCHANGED <<goalVars, competing, checkpoint, requested, runs, owner, plugin, sent, obsVars>>

--------------------------------------------------------------------------------
(* People *)

(* A message: the agent is woken, and a round still queued has to wait. *)
Say ==
  /\ sent < MaxHuman
  /\ sent' = sent + 1
  /\ LET q == Append([i \in DOMAIN inbox |-> [inbox[i] EXCEPT !.joined = IsRound(inbox[i])]],
                     Human)
         a == IF Listening THEN Joined(attempt) ELSE attempt
     IN IF turn = "idle"
          THEN StartTurn(q, a)
          ELSE /\ inbox' = q /\ attempt' = a
               /\ wake' = (wake \/ aborted)
               /\ UNCHANGED <<turn, batch, aborted>>
  /\ competing' = (competing \/ Listening)
  /\ UNCHANGED <<goalVars, checkpoint, requested, runs, owner, plugin, obsVars>>

(* Cancel: a queued round is discarded unless the inbox is kept, and whatever *)
(* the agent does is aborted.                                                 *)
Cancels(keep) ==
  /\ inbox' = IF keep THEN inbox ELSE <<>>
  /\ wake' = (wake /\ (keep \/ turn = "idle"))
  /\ aborted' = (turn # "idle")
  /\ LET discards == ~keep /\ \E i \in DOMAIN inbox : Same(inbox[i], attempt)
     IN /\ attempt' = IF discards /\ Listening THEN [attempt EXCEPT !.cancelled = TRUE] ELSE attempt
        /\ barred' = (barred \/ (Running /\ (discards \/ attempt.phase \in {"claimed", "admitted"})))

Cancel ==
  /\ \E keep \in {FALSE} \cup {b \in {TRUE} : "keep" \in features} : Cancels(keep)
  /\ (turn # "idle" \/ inbox # <<>>)
  /\ UNCHANGED <<goalVars, competing, checkpoint, requested, runs, owner, plugin, turn, batch, sent, saved>>

(* Changes people make to the goal, each a new revision. *)
Asks(g) ==
  /\ MayAsk
  /\ Commit(g)
  /\ barred' = FALSE
  /\ UNCHANGED <<corrupt, attempt, competing, plugin, agentVars, sent, saved>>

Create ==
  /\ goal.phase \in {"none", "complete"}
  /\ \E max \in Limits :
       Asks([goal EXCEPT !.phase = "active", !.rounds = 0, !.max = max, !.armed = TRUE])

Edit == goal.phase # "none" /\ \E max \in Limits : Asks([goal EXCEPT !.max = max])

Pause == goal.phase = "active" /\ Asks(Stopped(goal, "paused"))

Resume ==
  /\ goal.phase \in {"active", "paused", "blocked"}
  /\ ~(goal.phase = "active" /\ goal.armed) /\ goal.rounds < goal.max
  /\ Asks([goal EXCEPT !.phase = "active", !.armed = TRUE])

Complete == goal.phase \in {"active", "paused", "blocked"} /\ Asks(Stopped(goal, "complete"))

Clear == goal.phase # "none" /\ Asks(Stopped(goal, "none"))

--------------------------------------------------------------------------------
(* Unloading the driver *)

(* Teardown cancels the agent's work with its whole inbox. *)
Closes == aborted' = TRUE /\ inbox' = <<>> /\ wake' = FALSE

(* Admission closes, the goal is disarmed and a turn that may hold a round is *)
(* cancelled.                                                                 *)
Dispose ==
  /\ plugin = "on" /\ plugin' = "closing"
  /\ goal' = IF corrupt THEN goal ELSE Disarmed(goal)
  /\ attempt' = [attempt EXCEPT !.stale = attempt # NoAttempt]
  /\ IF attempt # NoAttempt /\ Running THEN Closes ELSE UNCHANGED <<aborted, inbox, wake>>
  /\ UNCHANGED <<corrupt, competing, checkpoint, requested, runs, owner, turn, batch, sent, obsVars>>

(* The agent and the run are quiet: the listeners go. *)
Disposed ==
  /\ plugin = "closing" /\ owner = 0 /\ (attempt # NoAttempt => ~Running)
  /\ plugin' = "off" /\ attempt' = NoAttempt
  /\ UNCHANGED <<goalVars, competing, checkpoint, requested, runs, owner, agentVars, sent, obsVars>>

--------------------------------------------------------------------------------
Turn == \/ Enter \/ FirstCheck \/ SecondCheck \/ OuterDone \/ Rejected \/ Throws
        \/ OutsideEnds \/ AbortSeen \/ StepEnds \/ WakeUp
Task == \E r \in Slots : Retire(r) \/ Drive(r) \/ Resumes(r)
Flush == Flushed \/ FlushFails
People == Say \/ Cancel \/ Create \/ Edit \/ Pause \/ Resume \/ Complete \/ Clear
Unload == Dispose \/ Disposed

(* A task runs on in microtasks until it awaits a checkpoint or retires; *)
(* everything else comes with a later job.                               *)
Steps == Task \/ (Quiet /\ (Turn \/ Flush \/ People \/ Unload))
Next == UNCHANGED features /\ Steps

Spec == Init /\ [][Next]_vars

(* The runtime runs the tasks, and a turn and a checkpoint end; nobody has to *)
(* speak.                                                                     *)
Fairness ==
  /\ WF_vars(UNCHANGED features /\ Task)
  /\ WF_vars(UNCHANGED features /\ Quiet /\ Turn)
  /\ WF_vars(UNCHANGED features /\ Quiet /\ Flush)

FairSpec == Spec /\ Fairness

--------------------------------------------------------------------------------
(* Properties *)

Phases == {"none", "active", "paused", "blocked", "complete"}
Rounds == 0 .. CHOOSE n \in Limits : \A m \in Limits : m <= n
Messages == [rev : 0 .. MaxRev + 1, round : Rounds, joined : BOOLEAN]

(* Type correctness. *)
TypeOK ==
  /\ goal \in [phase : Phases, rev : 1 .. MaxRev + 1, rounds : Rounds, max : Limits,
              armed : BOOLEAN]
  /\ corrupt \in BOOLEAN
  /\ attempt \in [rev : 0 .. MaxRev + 1, round : Rounds, cancelled : BOOLEAN, stale : BOOLEAN,
                 phase : {"none", "queued", "claimed", "admitted"}]
  /\ {competing, checkpoint, requested, aborted, wake, barred} \subseteq BOOLEAN
  /\ runs \in [Slots -> {"none", "first", "loop", "flush", "stored"}] /\ owner \in {0} \cup Slots
  /\ plugin \in {"on", "closing", "off"}
  /\ turn \in {"idle", "claimed", "downstream", "outer", "step"}
  /\ batch \in Messages /\ inbox \in Seq(Messages) /\ sent \in 0 .. MaxHuman

(* While the driver's fence is up, a round enters the log only as the next round *)
(* of the active goal's current revision, so the strict fold never throws.       *)
FenceHolds == Listening => ~corrupt

(* No more than one automatic round waits with the agent. *)
OneRoundQueued ==
  \A i, j \in DOMAIN inbox : IsRound(inbox[i]) /\ IsRound(inbox[j]) => i = j

Admitting == turn' = "step" /\ turn # "step" /\ IsRound(batch)
Reserving == attempt = NoAttempt /\ attempt' # NoAttempt

(* A round people wrote behind while it was queued never passes the fence. *)
YieldStep == Admitting /\ Listening => ~batch.joined

(* A round is reserved only when the goal's last change and the round before *)
(* it are known to be stored.                                                *)
CheckpointStep == Reserving => saved' = <<goal.rev, goal.rounds>>

(* After a cancel hit a reserved or admitted round, none is reserved until *)
(* people change the goal.                                                 *)
CancelHolds == [][Reserving => ~barred]_vars

(* While the driver unloads no round enters, even one it let through before. *)
ClosesAdmission == [][Admitting => plugin # "closing"]_vars

(* There is never more than one task for an agent. *)
OneRun == Cardinality(Slots \ Free) <= 1

(* While the driver is loaded, an armed goal gets its next round or is stopped. *)
GoalMoves ==
  \A n \in Rounds : (Armed /\ plugin = "on" /\ goal.rounds = n)
                      ~> (~Armed \/ plugin # "on" \/ goal.rounds # n)

(* The driver's checks come last. *)
Fenced == "outer" \notin features

(* Types are kept, and with no listener behind the driver's checks so is the fence. *)
RoundsSafe == TypeOK /\ (Fenced => FenceHolds)

(* What no admission or reservation does, whoever listens behind the driver. *)
StopSteps == CancelHolds /\ ClosesAdmission
================================================================================
