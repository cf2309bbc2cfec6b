------------------------------- MODULE ToolCalls -------------------------------
(***************************************************************************)
(* The scheduler of one assistant step's tool calls (executeToolCalls and  *)
(* runGroup).  Calls are numbered 1..NCalls in model order.  An exclusive  *)
(* call is a group of its own; a parallel one opens a group that is filled *)
(* from a bounded pool.  Dispatches settle in any order, results commit in *)
(* model order.  Tools may be reclassified, and the step aborted, whenever *)
(* the scheduler awaits.                                                   *)
(***************************************************************************)
EXTENDS Naturals, Sequences, FiniteSets

CONSTANTS NCalls,       \* tool calls of the step
          MaxParallel,  \* config.maxParallelToolCalls
          MaxReclass    \* bound on the registry changes during the step

ASSUME SchedulerAssumption ==
  NCalls \in Nat \ {0} /\ MaxParallel \in Nat \ {0} /\ MaxReclass \in Nat

Calls == 1..NCalls
Modes == {"parallel", "exclusive"}

VARIABLES
  mode,        \* the registry's current executionMode of each call
  signal,      \* the step's abort signal has fired
  base,        \* calls consumed by the groups before this one (next)
  groupMode,   \* the mode the group was opened with
  started,     \* calls of the step given to startCall so far
  slots,       \* calls whose settled outcome awaits its commit
  inFlight,    \* keys of the inFlight map
  running,     \* dispatched calls whose tool has not settled
  aborted,     \* the group has observed the abort
  failed,      \* schedulerFailure is set
  pc,          \* the await at which the scheduler stands
  callLog,     \* tool/call events
  resultLog,   \* tool/result events
  startMode,   \* observed by the properties: each call's mode when it was started
  reclasses    \* registry changes made, for the bound

logVars == <<callLog, resultLog>>
envVars == <<mode, signal, reclasses>>
vars == <<envVars, base, groupMode, started, slots, inFlight, running, aborted, failed, pc,
          logVars, startMode>>

Init ==
  /\ mode \in [Calls -> Modes] /\ signal \in BOOLEAN /\ reclasses = 0
  /\ base = 0 /\ groupMode = "parallel" /\ started = 0
  /\ slots = {} /\ inFlight = {} /\ running = {}
  /\ aborted = FALSE /\ failed = FALSE
  /\ pc = "classify"
  /\ callLog = <<>> /\ resultLog = <<>>
  /\ startMode = mode

committed == Len(resultLog)
Rest == [k \in 1..(NCalls - started) |-> started + k]   \* the calls never started

--------------------------------------------------------------------------------
(* A plausible bug: a mutated form of the definition it is named after. *)

DrainedBug == TRUE                                     \* rethrows at once

--------------------------------------------------------------------------------
(* Helpers *)

LastOfGroup == IF groupMode = "parallel" THEN NCalls ELSE base + 1

(* The abort is sampled when a group begins and after every ordered commit. *)
AbortSeen == aborted \/ signal

PoolHasRoom == Cardinality(inFlight) < MaxParallel

(* A later call joins a parallel pool only if it is still parallel-safe. *)
JoinsPool(call) == mode[call] = "parallel"

(* The call whose result is due. *)
NextResult == committed + 1

(* The calls for which an abort records a synthetic call and result. *)
Skipped == Rest

(* Promise.allSettled over what is in flight. *)
Drained == inFlight \intersect running = {}

(* The map once the race has returned this call. *)
Unraced(call) == inFlight \ {call}

(* startCall, up to its await of prepare. *)
StartCall(call) ==
  /\ callLog' = Append(callLog, call)
  /\ started' = call
  /\ startMode' = [startMode EXCEPT ![call] = mode[call]]
  /\ pc' = "prepare"
  /\ UNCHANGED resultLog

(* The group has nothing in flight and starts nothing: on an abort every call *)
(* left in the step is skipped, otherwise the next group begins.              *)
EndGroup ==
  /\ UNCHANGED <<started, startMode>>
  /\ IF aborted'
     THEN /\ callLog' = callLog \o Skipped
          /\ resultLog' = resultLog \o Skipped
          /\ pc' = "returned"
     ELSE /\ pc' = IF started = NCalls THEN "returned" ELSE "classify"
          /\ UNCHANGED logVars

(* One round of fillPool: start the next call, or wait for one in flight. *)
FillPool(first, last) ==
  LET next == started + 1
  IN IF ~aborted' /\ next <= last /\ PoolHasRoom /\ (next = first \/ JoinsPool(next))
     THEN StartCall(next)
     ELSE IF inFlight # {}
          THEN pc' = "race" /\ UNCHANGED <<started, startMode, logVars>>
          ELSE EndGroup

Fail == failed' = TRUE /\ pc' = "drain"

--------------------------------------------------------------------------------
(* The scheduler *)

(* Classify the next call, open its group and make the first round of its pool. *)
BeginGroup ==
  /\ pc = "classify"
  /\ groupMode' = mode[started + 1]
  /\ base' = started
  /\ aborted' = signal
  /\ FillPool(started + 1, started + 1)
  /\ UNCHANGED <<envVars, slots, inFlight, running, failed>>

(* prepare() settled: dispatch the call, or keep the result it already has, *)
(* as it does once the signal is aborted (tools' prepareExecution).  If a    *)
(* sibling's dispatch failed meanwhile, or prepare() threw, start none.     *)
Prepared(dispatches) ==
  /\ pc = "prepare"
  /\ ~failed
  /\ dispatches => ~signal
  /\ IF dispatches
     THEN /\ inFlight' = inFlight \union {started} /\ running' = running \union {started}
          /\ UNCHANGED slots
     ELSE slots' = slots \union {started} /\ UNCHANGED <<inFlight, running>>
  /\ pc' = "commit"
  /\ UNCHANGED <<envVars, base, groupMode, started, aborted, failed, logVars, startMode>>

PrepareFails ==
  /\ pc = "prepare"
  /\ Fail
  /\ UNCHANGED <<envVars, base, groupMode, started, slots, inFlight, running, aborted, logVars,
                 startMode>>

(* A dispatched tool settles, whatever the scheduler is doing. *)
DispatchSettles(call, ok) ==
  /\ call \in running
  /\ running' = running \ {call}
  /\ slots' = IF ok THEN slots \union {call} ELSE slots
  /\ failed' = (failed \/ ~ok)
  /\ UNCHANGED <<envVars, base, groupMode, started, inFlight, aborted, pc, logVars, startMode>>

(* One round of commitReady: the result that is due has settled. *)
Commit ==
  /\ pc = "commit"
  /\ NextResult \in slots
  /\ resultLog' = Append(resultLog, NextResult)
  /\ slots' = slots \ {NextResult}
  /\ UNCHANGED <<envVars, base, groupMode, started, inFlight, running, aborted, failed, pc,
                 callLog, startMode>>

(* finalize() threw. *)
CommitFails ==
  /\ pc = "commit"
  /\ NextResult \in slots
  /\ Fail
  /\ UNCHANGED <<envVars, base, groupMode, started, slots, inFlight, running, aborted, logVars,
                 startMode>>

(* commitReady is done: sample the abort and go on filling, unless a dispatch failed. *)
Refill ==
  /\ pc = "commit"
  /\ NextResult \notin slots
  /\ IF failed
     THEN Fail /\ UNCHANGED <<aborted, started, startMode, logVars>>
     ELSE /\ aborted' = AbortSeen
          /\ FillPool(base + 1, LastOfGroup)
          /\ UNCHANGED failed
  /\ UNCHANGED <<envVars, base, groupMode, slots, inFlight, running>>

(* Promise.race returned a settled call. *)
Race(call) ==
  /\ pc = "race"
  /\ call \in inFlight \ running
  /\ inFlight' = Unraced(call)
  /\ pc' = IF failed THEN "drain" ELSE "commit"
  /\ UNCHANGED <<envVars, base, groupMode, started, slots, running, aborted, failed, logVars,
                 startMode>>

(* A failed scheduler rethrows once its dispatches have settled. *)
Rethrow ==
  /\ pc = "drain"
  /\ Drained
  /\ pc' = "thrown"
  /\ UNCHANGED <<envVars, base, groupMode, started, slots, inFlight, running, aborted, failed,
                 logVars, startMode>>

--------------------------------------------------------------------------------
(* The environment, while the scheduler awaits *)

Abort ==
  /\ ~signal
  /\ signal' = TRUE
  /\ UNCHANGED <<mode, reclasses, base, groupMode, started, slots, inFlight, running, aborted,
                 failed, pc, logVars, startMode>>

Reclassify(call) ==
  /\ reclasses < MaxReclass
  /\ reclasses' = reclasses + 1
  /\ mode' = [mode EXCEPT ![call] = IF @ = "parallel" THEN "exclusive" ELSE "parallel"]
  /\ UNCHANGED <<signal, base, groupMode, started, slots, inFlight, running, aborted, failed,
                 pc, logVars, startMode>>

--------------------------------------------------------------------------------
Scheduler ==
  \/ BeginGroup \/ PrepareFails \/ Commit \/ CommitFails \/ Refill \/ Rethrow
  \/ \E dispatches \in BOOLEAN : Prepared(dispatches)
  \/ \E call \in Calls : Race(call)

Settles(call) == \E ok \in BOOLEAN : DispatchSettles(call, ok)

Next ==
  \/ Scheduler
  \/ \E call \in Calls : Settles(call) \/ Reclassify(call)
  \/ Abort

Spec == Init /\ [][Next]_vars

(* Every awaited promise settles: policy, tools and finalization. *)
Fairness == WF_vars(Scheduler) /\ \A call \in Calls : WF_vars(Settles(call))

FairSpec == Spec /\ Fairness

--------------------------------------------------------------------------------
(* Properties *)

Over == pc \in {"returned", "thrown"}
Busy == running \union (IF pc = "prepare" THEN {started} ELSE {})   \* calls at work

TypeOK ==
  /\ mode \in [Calls -> Modes] /\ startMode \in [Calls -> Modes] /\ groupMode \in Modes
  /\ base \in 0..NCalls /\ started \in base..NCalls
  /\ running \subseteq inFlight /\ inFlight \subseteq 1..started /\ slots \subseteq (committed + 1)..started
  /\ signal \in BOOLEAN /\ aborted \in BOOLEAN /\ failed \in BOOLEAN
  /\ pc \in {"classify", "prepare", "commit", "race", "drain", "returned", "thrown"}
  /\ callLog \in Seq(Calls) /\ resultLog \in Seq(Calls)
  /\ reclasses \in 0..MaxReclass

(* Calls and results are recorded in model order, whatever order the tools *)
(* settle in and however the step ends, and no result precedes its call.   *)
ModelOrder ==
  /\ callLog = [k \in 1..Len(callLog) |-> k]
  /\ resultLog = [k \in 1..Len(resultLog) |-> k]
  /\ Len(resultLog) <= Len(callLog)

(* A step that returns, aborted or not, has recorded one result for every *)
(* tool call of the assistant message: its history can be replayed.       *)
ReturnAnswersEveryCall ==
  pc = "returned" => Len(callLog) = NCalls /\ Len(resultLog) = NCalls

(* No tool runs on behind a step that has returned or failed. *)
NothingRunsBehind == Over => running = {}

(* A call classified exclusive when it starts shares the step with none. *)
ExclusiveRunsAlone ==
  \A call \in Busy : startMode[call] = "exclusive" => Busy = {call}

(* The pool never holds more calls than the configured cap. *)
CapRespected == Cardinality(Busy) <= MaxParallel

(* No call is recorded as started, and no tool dispatched, once the abort fired. *)
NoStartAfterAbort ==
  [][started' # started \/ ~(running' \subseteq running) => ~signal]_vars

(* The step ends, whatever settles, fails or is aborted in whatever order. *)
StepEnds == <>Over

(* What any order of settling tools, registry changes and aborts keeps: a   *)
(* history that can be replayed, and a pool that holds what it may hold.     *)
StepSafe ==
  /\ TypeOK /\ ModelOrder /\ ReturnAnswersEveryCall /\ NothingRunsBehind
  /\ ExclusiveRunsAlone /\ CapRespected
================================================================================
