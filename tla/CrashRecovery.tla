---------------------------- MODULE CrashRecovery ----------------------------
(****************************************************************************)
(* What a crash leaves of a conversation and what recovery makes of it: the *)
(* turns and steps an agent records (agent.ts), the tool calls of a step    *)
(* (tool-calls.ts), the checkpoints that make a record durable before it    *)
(* has consequences (session-checkpoint-policy), the closing of a log that  *)
(* breaks off (session/repair.ts) and the relations a log has to satisfy    *)
(* (session/invariant.ts), over a store that keeps some prefix.             *)
(*                                                                          *)
(* Chunks, request headers and contexts are left out of the log: they are   *)
(* records between those below that none of the above depends on.           *)
(****************************************************************************)
EXTENDS Naturals, Sequences, SequencesExt, FiniteSets, FiniteSetsExt

CONSTANT Setups  \* bounds on the turns, the steps of a turn, the tool calls of all
                 \* answers and processes, the flushes rejected and the crashes

(* Assumed by the modules that instantiate this one. *)
Bounded == \A s \in Setups : {s.turns, s.steps, s.calls, s.faults, s.crashes} \subseteq Nat

VARIABLES
  setup,      \* the bounds of this run
  log,        \* the session's events
  durable,    \* how many of them are stored
  pc,         \* where the driver is; "cold" after a crash
  turn, step, \* phase.turn, phase.step
  awaited,    \* what the driver's flush has to make durable
  calls,      \* the calls of this step, in the model's order
  phase,      \* of each of them
  goal,       \* of each of them: what its checkpoint has to make durable
  aborted,    \* signal.aborted
  minted,     \* tool calls the model has made so far
  ran,        \* the calls whose body was entered, in this process or before
  seen,       \* the log the model was last asked about
  faults, crashes

driver == <<pc, turn, step, awaited, aborted>>
pool == <<calls, phase, goal>>
ghosts == <<minted, ran, seen>>
vars == <<setup, log, durable, driver, pool, ghosts, faults, crashes>>

Places == {"idle", "prestep", "step", "answer", "tools", "stepend", "stepfail", "turnend", "cold"}
Phases == {"waiting", "preparing", "flushing", "running", "settled", "done"}

E(kind, t, s) == [kind |-> kind, turn |-> t, step |-> s,
                  calls |-> <<>>, call |-> 0, code |-> "none", cites |-> 0]
Answer(t, s, cs) == [E("assistant/message", t, s) EXCEPT !.calls = cs]
CallEvent(t, s, c) == [E("tool/call", t, s) EXCEPT !.call = c]
ResultEvent(t, s, c, code, seq) ==
  [E("tool/result", t, s) EXCEPT !.call = c, !.code = code, !.cites = seq]

Init ==
  /\ setup \in Setups
  /\ log = <<>> /\ durable = 0
  /\ pc = "idle" /\ turn = 0 /\ step = 0 /\ awaited = 0 /\ aborted = FALSE
  /\ calls = <<>> /\ phase = <<>> /\ goal = <<>>
  /\ minted = 0 /\ ran = {} /\ seen = <<>>
  /\ faults = 0 /\ crashes = 0

-----------------------------------------------------------------------------
(* The relations of a log: validateEvent() and applyTransition().           *)

FreshTrace == [ok |-> TRUE, openTurn |-> 0, openStep |-> 0,
               nextTurn |-> 1, nextStep |-> 1, pending |-> {}]

InStep(t, e) == t.openTurn = e.turn /\ t.openStep = e.step /\ e.step # 0

Accepts(t, e) ==
  CASE e.kind = "turn/start" -> t.openTurn = 0 /\ e.turn = t.nextTurn
    [] e.kind = "turn/end" -> t.openTurn = e.turn /\ t.openStep = 0
    [] e.kind = "step/start" -> t.openTurn = e.turn /\ t.openStep = 0 /\ e.step = t.nextStep
    [] e.kind \in {"step/end", "assistant/message", "tool/call"} -> InStep(t, e)
    [] e.kind = "tool/result" ->
         InStep(t, e) /\ (e.call \in t.pending \/ e.code = "TOOL_NOT_STARTED")
    [] OTHER -> TRUE

Advance(t, e) ==
  LET n == [t EXCEPT !.ok = t.ok /\ Accepts(t, e)] IN
  CASE e.kind = "turn/start" -> [n EXCEPT !.openTurn = e.turn, !.nextStep = 1]
    [] e.kind = "turn/end" -> [n EXCEPT !.openTurn = 0, !.nextTurn = @ + 1]
    [] e.kind = "step/start" -> [n EXCEPT !.openStep = e.step]
    [] e.kind = "step/end" -> [n EXCEPT !.openStep = 0, !.nextStep = @ + 1, !.pending = {}]
    [] e.kind = "tool/call" -> [n EXCEPT !.pending = @ \cup {e.call}]
    [] e.kind = "tool/result" -> [n EXCEPT !.pending = @ \ {e.call}]
    [] OTHER -> n

TraceOf(events) ==
  LET after[n \in 0 .. Len(events)] == IF n = 0 THEN FreshTrace ELSE Advance(after[n - 1], events[n])
  IN after[Len(events)]

-----------------------------------------------------------------------------
(* interruptedTurnClosers().                                                *)

NothingOpen == [turn |-> 0, step |-> 0, pending |-> <<>>]

Unanswered(e) == [i \in 1 .. Len(e.calls) |-> [call |-> e.calls[i], step |-> e.step, seq |-> 0]]

(* pendingCalls.delete(): a call is pending once. *)
Without(pending, c) ==
  LET at == {k \in 1 .. Len(pending) : pending[k].call = c}
  IN IF at = {} THEN pending ELSE RemoveAt(pending, CHOOSE k \in at : TRUE)

Scan(r, i, e) ==
  CASE e.kind = "turn/start" -> [turn |-> e.turn, step |-> 0, pending |-> <<>>]
    [] e.kind = "turn/end" -> NothingOpen
    [] e.kind = "step/start" -> [r EXCEPT !.step = e.step]
    [] e.kind = "step/end" -> [r EXCEPT !.step = 0, !.pending = <<>>]
    [] e.kind = "assistant/message" -> [r EXCEPT !.pending = @ \o Unanswered(e)]
    [] e.kind = "tool/call" ->
         [r EXCEPT !.pending = [k \in 1 .. Len(@) |->
            IF @[k].call = e.call THEN [@[k] EXCEPT !.seq = i] ELSE @[k]]]
    [] e.kind = "tool/result" ->
         [r EXCEPT !.pending = Without(@, e.call)]
    [] OTHER -> r

OpenAt(events) ==
  LET after[n \in 0 .. Len(events)] == IF n = 0 THEN NothingOpen ELSE Scan(after[n - 1], n, events[n])
  IN after[Len(events)]

Interrupted(t, p) ==
  ResultEvent(t, p.step, p.call,
              IF p.seq = 0 THEN "TOOL_NOT_STARTED" ELSE "TOOL_OUTCOME_UNKNOWN", p.seq)

(* Mutant: only the calls that were recorded get a result. *)
ClosersRecordedBug(events) ==
  LET r == OpenAt(events)
      recorded == SelectSeq(r.pending, LAMBDA p : p.seq # 0)
  IN
  IF r.turn = 0 THEN <<>>
  ELSE [k \in 1 .. Len(recorded) |-> Interrupted(r.turn, recorded[k])]
       \o (IF r.step = 0 THEN <<>> ELSE <<E("step/end", r.turn, r.step)>>)
       \o <<E("turn/end", r.turn, 0)>>

Closers(events) ==
  LET r == OpenAt(events) IN
  IF r.turn = 0 THEN <<>>
  ELSE [k \in 1 .. Len(r.pending) |-> Interrupted(r.turn, r.pending[k])]
       \o (IF r.step = 0 THEN <<>> ELSE <<E("step/end", r.turn, r.step)>>)
       \o <<E("turn/end", r.turn, 0)>>

-----------------------------------------------------------------------------
(* The driver's turn and step.                                              *)

Goto(place) == pc' = place /\ UNCHANGED <<turn, step, awaited, aborted>>
Write(events) == log' = log \o events
Same == UNCHANGED <<durable, ghosts, faults, crashes>>

StartTurn ==
  /\ pc = "idle" /\ turn < setup.turns
  /\ turn' = turn + 1 /\ step' = 0 /\ aborted' = FALSE
  /\ Write(<<E("turn/start", turn + 1, 0)>>)
  /\ pc' = "prestep" /\ awaited' = Len(log) + 1
  /\ UNCHANGED pool /\ Same

(* flush() returns when all that was recorded before it is stored.          *)
Flushed(n) == durable >= n
FlushFails == faults < setup.faults /\ faults' = faults + 1

(* The pre-step hook's flush has returned: a step is opened with its        *)
(* messages, unless the hook blocks it, nothing is there to say or the      *)
(* signal is aborted.                                                       *)
PreStep ==
  /\ pc = "prestep" /\ Flushed(awaited)
  /\ \/ /\ ~aborted /\ step < setup.steps
        /\ step' = step + 1
        /\ Write(<<E("step/start", turn, step + 1), E("user/message", turn, step + 1)>>)
        /\ pc' = "step" /\ awaited' = Len(log) + 2
        /\ UNCHANGED <<turn, aborted>>
     \/ Goto("turnend") /\ UNCHANGED log
  /\ UNCHANGED pool /\ Same

(* A rejected flush ends what waits for it: the turn, or the step.          *)
DriverFlushFails ==
  /\ pc \in {"prestep", "step"} /\ FlushFails
  /\ Goto(IF pc = "prestep" THEN "turnend" ELSE "stepfail")
  /\ UNCHANGED <<log, durable, pool, ghosts, crashes>>

(* The checkpoint before the request is through: the model is asked. *)
SendRequest ==
  /\ pc = "step" /\ Flushed(awaited)
  /\ seen' = log
  /\ Goto("answer")
  /\ UNCHANGED <<log, durable, pool, minted, ran, faults, crashes>>

(* The answer is recorded with its calls; a request that failed or was      *)
(* aborted leaves the step.                                                 *)
GetAnswer ==
  /\ pc = "answer"
  /\ \/ \E n \in 0 .. setup.calls - minted :
          LET cs == [i \in 1 .. n |-> minted + i] IN
          /\ ~aborted
          /\ Write(<<Answer(turn, step, cs)>>)
          /\ minted' = minted + n
          /\ calls' = cs
          /\ phase' = [i \in 1 .. n |-> "waiting"] /\ goal' = [i \in 1 .. n |-> 0]
          /\ Goto(IF n = 0 THEN "stepend" ELSE "tools")
     \/ Goto("stepfail") /\ UNCHANGED <<log, pool, minted>>
  /\ UNCHANGED <<durable, ran, seen, faults, crashes>>

StepEnd ==
  /\ pc \in {"stepend", "stepfail"}
  /\ Write(<<E("step/end", turn, step)>>)
  /\ calls' = <<>> /\ phase' = <<>> /\ goal' = <<>>
  /\ \/ /\ pc = "stepend" /\ ~aborted /\ pc' = "prestep" /\ awaited' = Len(log) + 1
        /\ UNCHANGED <<turn, step, aborted>>
     \/ Goto("turnend")
  /\ Same

TurnEnd ==
  /\ pc = "turnend"
  /\ Write(<<E("turn/end", turn, 0)>>)
  /\ Goto("idle")
  /\ UNCHANGED pool /\ Same

Cancel ==
  /\ pc \notin {"idle", "cold"} /\ ~aborted
  /\ aborted' = TRUE
  /\ UNCHANGED <<log, pc, turn, step, awaited, pool>> /\ Same

-----------------------------------------------------------------------------
(* The calls of a step: started in order, one preparation at a time, their  *)
(* bodies side by side, their results in order (executeToolCalls).          *)

Index == 1 .. Len(calls)
Started(i) == phase[i] # "waiting"
Becomes(i, p) == phase' = [phase EXCEPT ![i] = p]
CallSeq(c) == CHOOSE n \in 1 .. Len(log) : log[n].kind = "tool/call" /\ log[n].call = c

StartCall(i) ==
  /\ pc = "tools" /\ ~aborted /\ phase[i] = "waiting"
  /\ \A j \in 1 .. i - 1 : phase[j] \notin {"waiting", "preparing"}
  /\ Write(<<CallEvent(turn, step, calls[i])>>)
  /\ Becomes(i, "preparing")
  /\ UNCHANGED <<driver, calls, goal>> /\ Same

(* The policy denies the call, or it is dispatched: its checkpoint begins.  *)
Prepared(i) ==
  /\ pc = "tools" /\ phase[i] = "preparing"
  /\ \/ Becomes(i, "settled") /\ UNCHANGED goal
     \/ /\ ~aborted /\ Becomes(i, "flushing")
        /\ goal' = [goal EXCEPT ![i] = Len(log)]
  /\ UNCHANGED <<log, driver, calls>> /\ Same

(* Mutant: the body is entered without the checkpoint. *)
CheckpointBug(i) ==
  /\ pc = "tools" /\ phase[i] = "flushing"
  /\ IF aborted THEN Becomes(i, "settled") /\ UNCHANGED ran
     ELSE Becomes(i, "running") /\ ran' = ran \cup {calls[i]}
  /\ UNCHANGED <<log, durable, driver, calls, goal, minted, seen, faults, crashes>>

(* The checkpoint is through: the body is entered, unless a cancel came     *)
(* while it was pending.                                                    *)
Checkpoint(i) ==
  /\ pc = "tools" /\ phase[i] = "flushing" /\ Flushed(goal[i])
  /\ IF aborted THEN Becomes(i, "settled") /\ UNCHANGED ran
     ELSE Becomes(i, "running") /\ ran' = ran \cup {calls[i]}
  /\ UNCHANGED <<log, durable, driver, calls, goal, minted, seen, faults, crashes>>

(* A rejected checkpoint becomes the call's error result.                   *)
CheckpointFails(i) ==
  /\ pc = "tools" /\ phase[i] = "flushing" /\ FlushFails
  /\ Becomes(i, "settled")
  /\ UNCHANGED <<log, durable, driver, calls, goal, ghosts, crashes>>

BodyEnds(i) ==
  /\ pc = "tools" /\ phase[i] = "running"
  /\ Becomes(i, "settled")
  /\ UNCHANGED <<log, driver, calls, goal>> /\ Same

Commit(i) ==
  /\ pc = "tools" /\ phase[i] = "settled"
  /\ \A j \in 1 .. i - 1 : phase[j] = "done"
  /\ Write(<<ResultEvent(turn, step, calls[i], "settled", CallSeq(calls[i]))>>)
  /\ Becomes(i, "done")
  /\ UNCHANGED <<driver, calls, goal>> /\ Same

(* appendSkippedToolCall() for each call a cancel kept from starting.       *)
Skipped(i) ==
  IF Started(i) THEN <<>>
  ELSE LET before == Len(log) + 2 * Cardinality({j \in 1 .. i - 1 : ~Started(j)})
       IN <<CallEvent(turn, step, calls[i]),
            ResultEvent(turn, step, calls[i], "settled", before + 1)>>

ToolsEnd ==
  /\ pc = "tools"
  /\ \A i \in Index : phase[i] = "done" \/ (aborted /\ ~Started(i))
  /\ Write(FlattenSeq([i \in Index |-> Skipped(i)]))
  /\ Goto("stepend")
  /\ UNCHANGED pool /\ Same

-----------------------------------------------------------------------------
(* The store, crashes, and the process that comes after.                    *)

Store ==
  /\ pc # "cold" /\ \E n \in durable + 1 .. Len(log) : durable' = n
  /\ UNCHANGED <<log, driver, pool, ghosts, faults, crashes>>

Gone ==
  /\ crashes < setup.crashes /\ crashes' = crashes + 1
  /\ pc' = "cold" /\ turn' = 0 /\ step' = 0 /\ awaited' = 0 /\ aborted' = FALSE
  /\ calls' = <<>> /\ phase' = <<>> /\ goal' = <<>>
  /\ durable' = Len(log')
  /\ UNCHANGED <<ghosts, faults>>

(* Of a write under way some events may get through. *)
Crash ==
  /\ pc # "cold"
  /\ \E n \in durable .. Len(log) : log' = SubSeq(log, 1, n)
  /\ Gone

(* So may some of a repair's events. *)
CrashInRepair ==
  /\ pc = "cold" /\ Closers(log) # <<>>
  /\ \E n \in 1 .. Len(Closers(log)) : log' = log \o SubSeq(Closers(log), 1, n)
  /\ Gone

LastTurn(events) ==
  LET starts == {n \in 1 .. Len(events) : events[n].kind = "turn/start"}
  IN IF starts = {} THEN 0 ELSE events[Max(starts)].turn

(* A log that nothing was stored of is begun anew. *)
Marked(stored) ==
  IF stored = <<>> \/ Last(stored).kind = "session/end-seed" THEN stored
  ELSE Append(stored, E("session/end-seed", 0, 0))

(* The log is closed and stored (commitRepair), the session built from it   *)
(* marks where its seed ends, and the driver goes on counting.              *)
Resume ==
  /\ pc = "cold"
  /\ LET stored == log \o Closers(log)
     IN /\ log' = Marked(stored)
        /\ durable' = Len(stored)
        /\ turn' = LastTurn(stored)
  /\ pc' = "idle"
  /\ UNCHANGED <<step, awaited, aborted, pool, ghosts, faults, crashes>>

Fixed == UNCHANGED setup

DriverStep ==
  /\ Fixed
  /\ \/ StartTurn \/ PreStep \/ DriverFlushFails \/ SendRequest \/ GetAnswer
     \/ StepEnd \/ TurnEnd \/ ToolsEnd
CallStep ==
  /\ Fixed
  /\ \E i \in Index : \/ StartCall(i) \/ Prepared(i) \/ Checkpoint(i) \/ CheckpointFails(i)
                      \/ BodyEnds(i) \/ Commit(i)

Next ==
  \/ DriverStep \/ CallStep
  \/ Fixed /\ (Cancel \/ Store \/ Crash \/ CrashInRepair \/ Resume)

Spec == Init /\ [][Next]_vars

(* Requests, bodies and flushes end, and a crashed session is opened again. *)
Fairness == WF_vars(DriverStep \/ CallStep) /\ WF_vars(Fixed /\ Store) /\ WF_vars(Fixed /\ Resume)

FairSpec == Spec /\ Fairness

-----------------------------------------------------------------------------
(* Every variable stays in its domain. *)
TypeOK ==
  /\ setup \in Setups
  /\ durable \in 0 .. Len(log) /\ pc \in Places
  /\ turn \in 0 .. setup.turns /\ step \in 0 .. setup.steps
  /\ awaited \in 0 .. Len(log) /\ aborted \in BOOLEAN
  /\ \A i \in Index : phase[i] \in Phases /\ goal[i] \in 0 .. Len(log)
  /\ Len(phase) = Len(calls) /\ Len(goal) = Len(calls)
  /\ minted \in 0 .. setup.calls /\ ran \subseteq 1 .. minted
  /\ faults \in 0 .. setup.faults /\ crashes \in 0 .. setup.crashes

(* Wherever the writing stops, on either side of any number of crashes: the *)
(* log satisfies the relations session/invariant.ts checks.                 *)
LogAccepted == TraceOf(log).ok

Surviving == {SubSeq(log, 1, n) : n \in durable .. Len(log)}
ResultsOf(events, c) ==
  {n \in 1 .. Len(events) : events[n].kind = "tool/result" /\ events[n].call = c}

(* A transcript a provider takes: each answer's calls are followed by their *)
(* results, all of them, in order, before anything else is said.            *)
Said(e) == e.kind \in {"user/message", "assistant/message", "tool/result"}
Transcript(events) ==
  LET upto[n \in 0 .. Len(events)] ==
        IF n = 0 THEN <<>> ELSE IF Said(events[n]) THEN Append(upto[n - 1], events[n]) ELSE upto[n - 1]
  IN upto[Len(events)]
Answered(events) ==
  LET m == Transcript(events) IN
  /\ \A n \in 1 .. Len(m) : m[n].kind = "assistant/message" =>
       \A k \in 1 .. Len(m[n].calls) :
         /\ n + k <= Len(m)
         /\ m[n + k].kind = "tool/result" /\ m[n + k].call = m[n].calls[k]
  /\ \A n \in 1 .. Len(m) : m[n].kind = "tool/result" =>
       Cardinality(ResultsOf(m, m[n].call)) = 1

(* Whatever a crash leaves can be closed: the closed log satisfies the      *)
(* relations, nothing in it is open, every call is answered, and closing it *)
(* again adds nothing (interruptedTurnClosers).                             *)
RepairCloses ==
  \A events \in Surviving :
    LET closed == events \o Closers(events)
        t == TraceOf(closed)
    IN t.ok /\ t.openTurn = 0 /\ t.openStep = 0 /\ Answered(closed) /\ Closers(closed) = <<>>

(* What the model is asked is a transcript it takes, and all of it survives *)
(* a crash (the checkpoint before a request).                               *)
RequestsHold ==
  pc = "answer" => Answered(seen) /\ IsPrefix(seen, log) /\ durable >= Len(seen)

(* A tool whose body was entered is never reported as not started, by no    *)
(* process that comes after: its call survives every crash (the checkpoint  *)
(* before a tool's body).                                                   *)
EffectsAreRecorded ==
  \A c \in ran : \A events \in Surviving :
    /\ \E n \in 1 .. Len(events) : events[n].kind = "tool/call" /\ events[n].call = c
    /\ LET closed == events \o Closers(events)
       IN \A n \in ResultsOf(closed, c) : closed[n].code # "TOOL_NOT_STARTED"

(* A call the model made gets its result, from the step or from a repair,   *)
(* unless a crash took the answer that made it.                             *)
CallsAnswered ==
  \A c \in 1 .. Max({s.calls : s \in Setups}) :
    (c <= minted) ~>
      \/ ResultsOf(log, c) # {}
      \/ ~\E n \in 1 .. Len(log) : c \in Range(log[n].calls)

(* What any crash, rejected flush and repair keeps. *)
RecoverySafe ==
  /\ TypeOK /\ LogAccepted /\ RepairCloses /\ RequestsHold /\ EffectsAreRecorded
=============================================================================
