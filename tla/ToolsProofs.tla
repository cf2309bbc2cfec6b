------------------------------ MODULE ToolsProofs ------------------------------
(***************************************************************************)
(* Proofs about the parts of MCTools, for any bounds, calls, pools, jobs,   *)
(* agents and waits.  A part beside the scheduler keeps its invariant       *)
(* whatever part runs, since the others leave it alone.                     *)
(***************************************************************************)
EXTENDS MCTools, SequenceTheorems, FiniteSetTheorems, TLAPS

--------------------------------------------------------------------------------
(* The scheduler of a step: the logs keep the model's order, a step that       *)
(* returns has answered every call, nothing runs on behind it, exclusive calls *)
(* run alone and the pool's cap holds.                                         *)

(* The call whose preparation is awaited. *)
Preparing == IF pc = "prepare" THEN {started} ELSE {}

(* Every call started and not yet committed is prepared, at work or settled, *)
(* and only one of them, unless the scheduler has failed.                    *)
Work ==
  /\ running \subseteq (committed + 1) .. started
  /\ running \intersect slots = {}
  /\ ~failed => (committed + 1) .. started \subseteq running \union slots \union Preparing
  /\ pc = "prepare" => started > committed /\ started \notin inFlight \union slots

(* The logs, up to the skipped calls that an aborted step records at its end. *)
Logs ==
  /\ ModelOrder
  /\ pc # "returned" => Len(callLog) = started /\ committed <= started
  /\ ReturnAnswersEveryCall

(* A group has one mode, the one its calls had when they were started. *)
Group ==
  /\ inFlight \subseteq (base + 1) .. started
  /\ groupMode = "exclusive" => started <= base + 1
  /\ pc \in {"prepare", "commit", "race"} => started > base
  /\ \A call \in (base + 1) .. started : startMode[call] = groupMode

(* Between groups, and after the step, the pool is empty. *)
Boundaries ==
  /\ pc \in {"classify", "returned"} => inFlight = {} /\ ~failed
  /\ pc = "classify" => committed = started /\ started < NCalls
  /\ pc = "thrown" => running = {}

Pool ==
  /\ Cardinality(inFlight) <= MaxParallel
  /\ pc = "prepare" => Cardinality(inFlight) < MaxParallel

IInv == TypeOK /\ Work /\ Logs /\ Group /\ Boundaries /\ Pool

--------------------------------------------------------------------------------
(* Facts about the logs *)

Upto(n) == [k \in 1 .. n |-> k]

(* The next call in model order extends the log by one. *)
LEMMA NextInOrder ==
  ASSUME NEW n \in Nat
  PROVE  Append(Upto(n), n + 1) = Upto(n + 1)
<1>1. Upto(n) \in Seq(Nat)
  BY DEF Upto
<1> QED
  BY <1>1, AppendProperties DEF Upto

(* The calls n+1 to m after the first n complete the log. *)
LEMMA RestCompletes ==
  ASSUME NEW n \in Nat, NEW m \in Nat, n <= m,
         NEW rest, rest = [k \in 1 .. (m - n) |-> n + k]
  PROVE  Upto(n) \o rest = Upto(m) /\ Len(Upto(n) \o rest) = m
<1> DEFINE all == Upto(n) \o rest
<1>1. /\ Upto(n) \in Seq(Nat) /\ Len(Upto(n)) = n /\ \A i \in 1 .. n : Upto(n)[i] = i
      /\ Upto(m) \in Seq(Nat) /\ Len(Upto(m)) = m /\ \A i \in 1 .. m : Upto(m)[i] = i
  BY DEF Upto
<1>2. rest \in Seq(Nat) /\ Len(rest) = m - n /\ \A i \in 1 .. (m - n) : rest[i] = n + i
  OBVIOUS
<1>3. /\ all \in Seq(Nat)
      /\ Len(all) = Len(Upto(n)) + Len(rest)
      /\ \A i \in 1 .. Len(Upto(n)) + Len(rest) :
           all[i] = IF i <= Len(Upto(n)) THEN Upto(n)[i] ELSE rest[i - Len(Upto(n))]
  BY <1>1, <1>2, ConcatProperties
<1> HIDE DEF all
<1>4. Len(all) = m
  BY <1>1, <1>2, <1>3
<1>5. \A i \in 1 .. m : all[i] = Upto(m)[i]
  <2> TAKE i \in 1 .. m
  <2>1. CASE i <= n
    BY <1>1, <1>2, <1>3, <2>1
  <2>2. CASE ~(i <= n)
    <3>1. i - n \in 1 .. (m - n)
      BY <2>2
    <3>2. rest[i - n] = n + (i - n)
      BY <1>2, <3>1
    <3> QED
      BY <1>1, <1>2, <1>3, <2>2, <3>2
  <2> QED
    BY <2>1, <2>2
<1>6. all = Upto(m)
  BY <1>1, <1>3, <1>4, <1>5, SeqEqual
<1> QED
  BY <1>4, <1>6 DEF all

--------------------------------------------------------------------------------
(* One round of filling the pool *)

(* It starts the next call, in the mode of its group, *)
StartsNext ==
  /\ StartCall(started + 1)
  /\ started < NCalls /\ PoolHasRoom /\ ~signal
  /\ mode[started + 1] = groupMode'
  /\ groupMode' = "exclusive" => started = base'

(* or leaves the calls in flight to settle, *)
WaitsForOne ==
  /\ pc = "commit" /\ pc' = "race"
  /\ UNCHANGED <<base, groupMode, started, startMode, logVars>>

(* or ends a group in which nothing is left. *)
EndsGroup ==
  /\ EndGroup
  /\ committed = started /\ Len(callLog) = started
  /\ slots = {} /\ running = {} /\ inFlight = {} /\ ~failed

Round == BeginGroup \/ (Refill /\ ~failed)

(* When nothing is in flight and no result is due, everything is committed. *)
LEMMA Quiet ==
  ASSUME IInv, ~failed, inFlight = {}, pc \in {"classify", "commit"}, NextResult \notin slots
  PROVE  committed = started /\ Len(callLog) = started /\ slots = {} /\ running = {}
<1>1. /\ started \in Nat /\ committed \in Nat
      /\ committed <= started /\ Len(callLog) = started
  BY LenProperties DEF IInv, TypeOK, Logs, committed
<1>2. running = {} /\ Preparing = {} /\ (committed + 1) .. started \subseteq slots
  BY DEF IInv, TypeOK, Work, Preparing
<1>3. committed = started
  BY <1>1, <1>2 DEF NextResult
<1>4. slots = {}
  BY <1>1, <1>3 DEF IInv, TypeOK
<1> QED
  BY <1>1, <1>2, <1>3, <1>4

(* The cases of a round. *)
LEMMA Rounds ==
  ASSUME IInv, Round
  PROVE  /\ UNCHANGED <<envVars, slots, inFlight, running, failed>>
         /\ base' = started \/ UNCHANGED base
         /\ (base' = started /\ groupMode' = mode[started + 1]) \/ UNCHANGED <<base, groupMode>>
         /\ StartsNext \/ WaitsForOne \/ EndsGroup
         /\ pc \in {"classify", "commit"} /\ ~failed
         /\ aborted' \in BOOLEAN
<1>1. CASE BeginGroup
  <2>1. inFlight = {} /\ ~failed /\ pc = "classify" /\ started < NCalls /\ committed = started
    BY <1>1 DEF IInv, Boundaries, BeginGroup
  <2>2. NextResult \notin slots
    BY <2>1, LenProperties DEF IInv, TypeOK, NextResult, committed
  <2>3. slots = {} /\ running = {} /\ Len(callLog) = started
    BY <2>1, <2>2, Quiet
  <2>4. CASE StartCall(started + 1) /\ ~aborted' /\ PoolHasRoom
    BY <1>1, <2>1, <2>4 DEF BeginGroup, StartsNext, IInv, TypeOK, envVars
  <2>5. CASE EndGroup
    BY <1>1, <2>1, <2>3, <2>5 DEF BeginGroup, EndsGroup, IInv, TypeOK, envVars
  <2> QED
    BY <1>1, <2>1, <2>4, <2>5 DEF BeginGroup, FillPool
<1>2. CASE Refill /\ ~failed
  <2>1. /\ pc = "commit" /\ NextResult \notin slots
        /\ aborted' = AbortSeen /\ FillPool(base + 1, LastOfGroup)
        /\ UNCHANGED <<failed, envVars, base, groupMode, slots, inFlight, running>>
    BY <1>2 DEF Refill
  <2>2. started > base /\ base \in Nat /\ started \in Nat /\ groupMode \in Modes
    BY <2>1 DEF IInv, Group, TypeOK
  <2>3. aborted' \in BOOLEAN
    BY <2>1 DEF AbortSeen
  <2>4. CASE /\ StartCall(started + 1) /\ ~aborted' /\ PoolHasRoom
             /\ started + 1 <= LastOfGroup
             /\ started + 1 = base + 1 \/ JoinsPool(started + 1)
    <3>1. groupMode = "parallel" /\ started < NCalls
      BY <2>2, <2>4, SchedulerAssumption DEF LastOfGroup, Modes
    <3>2. mode[started + 1] = "parallel"
      BY <2>2, <2>4 DEF JoinsPool
    <3>3. ~signal
      BY <2>1, <2>4 DEF AbortSeen
    <3>4. StartsNext
      BY <2>1, <2>4, <3>1, <3>2, <3>3 DEF StartsNext
    <3> QED
      BY <1>2, <2>1, <2>3, <3>4
  <2>5. CASE pc' = "race" /\ UNCHANGED <<started, startMode, logVars>>
    BY <1>2, <2>1, <2>5, <2>3 DEF WaitsForOne
  <2>6. CASE inFlight = {} /\ EndGroup
    <3>1. committed = started /\ Len(callLog) = started /\ slots = {} /\ running = {}
      BY <1>2, <2>1, <2>6, Quiet
    <3> QED
      BY <1>2, <2>1, <2>6, <2>3, <3>1 DEF EndsGroup
  <2> QED
    BY <2>1, <2>4, <2>5, <2>6 DEF FillPool
<1> QED
  BY <1>1, <1>2 DEF Round

(* The end of a group ends the step with complete logs, or leaves calls to start. *)
LEMMA GroupEnd ==
  ASSUME IInv, EndsGroup
  PROVE  /\ UNCHANGED <<started, startMode>>
         /\ \/ /\ pc' = "returned"
               /\ callLog' = Upto(NCalls) /\ Len(callLog') = NCalls
               /\ resultLog' = Upto(NCalls) /\ Len(resultLog') = NCalls
            \/ /\ UNCHANGED logVars
               /\ pc' = IF started = NCalls THEN "returned" ELSE "classify"
<1>1. started \in Nat /\ NCalls \in Nat /\ started <= NCalls
  BY SchedulerAssumption DEF IInv, TypeOK
<1>2. callLog = Upto(started) /\ resultLog = Upto(started)
  BY DEF IInv, Logs, ModelOrder, EndsGroup, committed, Upto
<1>3. /\ Upto(started) \o Rest = Upto(NCalls)
      /\ Len(Upto(started) \o Rest) = NCalls
  BY <1>1, RestCompletes DEF Rest
<1>4. CASE aborted'
  <2>1. callLog' = callLog \o Rest /\ resultLog' = resultLog \o Rest /\ pc' = "returned"
    BY <1>4 DEF EndsGroup, EndGroup, Skipped
  <2> QED
    BY <1>2, <1>3, <2>1 DEF EndsGroup, EndGroup
<1>5. CASE ~aborted'
  BY <1>5 DEF EndsGroup, EndGroup
<1> QED
  BY <1>4, <1>5

(* The steps of the scheduler and its environment. *)
LEMMA Steps ==
  ASSUME [Next]_vars
  PROVE  \/ Round \/ (Refill /\ failed) \/ PrepareFails \/ Commit \/ CommitFails \/ Rethrow
         \/ \E dispatches \in BOOLEAN : Prepared(dispatches)
         \/ \E call \in Calls : Race(call)
         \/ \E call \in Calls, ok \in BOOLEAN : DispatchSettles(call, ok)
         \/ \E call \in Calls : Reclassify(call)
         \/ Abort \/ UNCHANGED vars
BY DEF Next, Scheduler, Settles, Round

--------------------------------------------------------------------------------
(* Each part of the invariant is preserved *)

(* Types of the logs. *)
LEMMA Typed ==
  /\ \A s \in Seq(Calls), call \in Calls : Append(s, call) \in Seq(Calls)
  /\ Upto(NCalls) \in Seq(Calls)
<1>1. ASSUME NEW s \in Seq(Calls), NEW call \in Calls PROVE Append(s, call) \in Seq(Calls)
  BY <1>1, AppendProperties
<1>2. Upto(NCalls) \in Seq(Calls)
  BY SchedulerAssumption DEF Upto, Calls
<1> QED
  BY <1>1, <1>2

(* Every step keeps the types. *)
LEMMA TypeStep ==
  ASSUME IInv, [Next]_vars
  PROVE  TypeOK'
<1> USE DEF committed
<1>t. TypeOK /\ NCalls \in Nat /\ started \in Nat /\ base \in Nat
  BY SchedulerAssumption DEF IInv, TypeOK
<1>1. CASE Round
  <2>1. /\ UNCHANGED <<mode, signal, reclasses, slots, inFlight, running, failed>>
        /\ base' = started \/ UNCHANGED base
        /\ groupMode' = mode[started + 1] \/ UNCHANGED groupMode
        /\ aborted' \in BOOLEAN
    BY <1>1, Rounds DEF envVars
  <2>2. CASE StartsNext
    <3>1. /\ callLog' = Append(callLog, started + 1) /\ resultLog' = resultLog
          /\ started' = started + 1 /\ started + 1 \in Calls
          /\ startMode' = [startMode EXCEPT ![started + 1] = mode[started + 1]]
          /\ pc' = "prepare"
      BY <1>t, <2>2 DEF StartsNext, StartCall, Calls
    <3>2. callLog' \in Seq(Calls)
      BY <1>t, <3>1, Typed DEF TypeOK
    <3>3. mode[started + 1] \in Modes /\ startMode' \in [Calls -> Modes]
      BY <1>t, <3>1 DEF TypeOK
    <3>4. base' \in 0 .. NCalls /\ started' \in base' .. NCalls
      BY <1>t, <2>1, <3>1 DEF TypeOK, Calls
    <3>5. /\ running' \subseteq inFlight' /\ inFlight' \subseteq 1 .. started'
          /\ slots' \subseteq (Len(resultLog') + 1) .. started'
      BY <1>t, <2>1, <3>1 DEF TypeOK
    <3> QED
      BY <1>t, <2>1, <3>1, <3>2, <3>3, <3>4, <3>5 DEF TypeOK
  <2>3. CASE WaitsForOne
    BY <1>t, <2>1, <2>3 DEF TypeOK, WaitsForOne, logVars
  <2>4. CASE EndsGroup
    <3>1. slots = {} /\ running = {} /\ inFlight = {}
      BY <2>4 DEF EndsGroup
    <3>2. callLog' \in Seq(Calls) /\ resultLog' \in Seq(Calls)
      BY <1>t, <2>4, GroupEnd, Typed DEF TypeOK, logVars
    <3>3. UNCHANGED <<started, startMode>> /\ pc' \in {"returned", "classify"}
      BY <2>4, GroupEnd
    <3>4. groupMode' \in Modes
      <4>1. CASE started < NCalls
        BY <1>t, <2>1, <4>1 DEF TypeOK, Calls
      <4>2. CASE ~(started < NCalls)
        BY <1>1, <1>t, <4>2, Rounds DEF IInv, Boundaries, Round, BeginGroup, Refill, TypeOK
      <4> QED
        BY <4>1, <4>2
    <3>5. base' \in 0 .. NCalls /\ started' \in base' .. NCalls
      BY <1>t, <2>1, <3>3 DEF TypeOK
    <3>6. /\ running' \subseteq inFlight' /\ inFlight' \subseteq 1 .. started'
          /\ slots' \subseteq (Len(resultLog') + 1) .. started'
      BY <2>1, <3>1
    <3> QED
      BY <1>t, <2>1, <3>2, <3>3, <3>4, <3>5, <3>6 DEF TypeOK
  <2> QED
    BY <1>1, <2>2, <2>3, <2>4, Rounds
<1>2. CASE Refill /\ failed
  BY <1>t, <1>2 DEF TypeOK, Refill, Fail, envVars, logVars
<1>3. CASE PrepareFails
  BY <1>t, <1>3 DEF TypeOK, PrepareFails, Fail, envVars, logVars
<1>4. CASE Commit
  <2>1. /\ committed + 1 \in slots /\ slots' = slots \ {committed + 1}
        /\ resultLog' = Append(resultLog, committed + 1)
    BY <1>4 DEF Commit, NextResult
  <2>2. committed + 1 \in Calls
    BY <1>t, <2>1 DEF TypeOK, Calls
  <2>3. resultLog' \in Seq(Calls) /\ Len(resultLog') = committed + 1
    BY <1>t, <2>1, <2>2, AppendProperties DEF TypeOK
  <2>4. slots' \subseteq (Len(resultLog') + 1) .. started
    <3>1. Len(resultLog) \in Nat
      BY <1>t, LenProperties DEF TypeOK
    <3>2. slots \subseteq (Len(resultLog) + 1) .. started
      BY <1>t DEF TypeOK
    <3>3. ASSUME NEW call \in slots' PROVE call \in (Len(resultLog') + 1) .. started
      <4>1. call \in (Len(resultLog) + 1) .. started /\ call # Len(resultLog) + 1
        BY <2>1, <3>2, <3>3
      <4> QED
        BY <1>t, <2>3, <3>1, <4>1
    <3> QED
      BY <3>3
  <2> QED
    BY <1>4, <1>t, <2>3, <2>4 DEF TypeOK, Commit, envVars
<1>5. CASE CommitFails
  BY <1>t, <1>5 DEF TypeOK, CommitFails, Fail, envVars, logVars
<1>6. CASE Rethrow
  BY <1>t, <1>6 DEF TypeOK, Rethrow, envVars, logVars
<1>7. ASSUME NEW dispatches \in BOOLEAN, Prepared(dispatches) PROVE TypeOK'
  <2>1. started \in 1 .. started /\ started \in (committed + 1) .. started
    <3>1. started > committed /\ started > base /\ Len(resultLog) \in Nat
      BY <1>7, <1>t, LenProperties DEF IInv, Work, Group, Prepared, TypeOK
    <3> QED
      BY <1>t, <3>1
  <2>2. CASE dispatches
    BY <1>t, <1>7, <2>1, <2>2 DEF TypeOK, Prepared, envVars, logVars
  <2>3. CASE ~dispatches
    BY <1>t, <1>7, <2>1, <2>3 DEF TypeOK, Prepared, envVars, logVars
  <2> QED
    BY <2>2, <2>3
<1>8. ASSUME NEW call \in Calls, Race(call) PROVE TypeOK'
  BY <1>t, <1>8 DEF TypeOK, Race, Unraced, envVars, logVars
<1>9. ASSUME NEW call \in Calls, NEW ok \in BOOLEAN, DispatchSettles(call, ok) PROVE TypeOK'
  <2>1. call \in (committed + 1) .. started
    BY <1>9 DEF IInv, Work, DispatchSettles
  <2>2. failed' \in BOOLEAN
    BY <1>t, <1>9 DEF TypeOK, DispatchSettles
  <2> QED
    BY <1>t, <1>9, <2>1, <2>2 DEF TypeOK, DispatchSettles, envVars, logVars
<1>10. ASSUME NEW call \in Calls, Reclassify(call) PROVE TypeOK'
  BY <1>t, <1>10, SchedulerAssumption DEF TypeOK, Reclassify, logVars, Modes
<1>11. CASE Abort
  BY <1>t, <1>11 DEF TypeOK, Abort, logVars
<1>12. CASE UNCHANGED vars
  BY <1>t, <1>12 DEF TypeOK, vars, envVars, logVars
<1> QED
  BY <1>1, <1>2, <1>3, <1>4, <1>5, <1>6, <1>7, <1>8, <1>9, <1>10, <1>11, <1>12, Steps

(* Numbers the parts below count with. *)
LEMMA Numbers ==
  ASSUME IInv
  PROVE  /\ TypeOK /\ NCalls \in Nat /\ started \in Nat /\ base \in Nat /\ committed \in Nat
         /\ slots \subseteq (committed + 1) .. started
BY SchedulerAssumption, LenProperties DEF IInv, TypeOK, committed

(* Every step keeps account of the calls started and not committed. *)
LEMMA WorkStep ==
  ASSUME IInv, [Next]_vars
  PROVE  Work'
<1>t. /\ TypeOK /\ NCalls \in Nat /\ started \in Nat /\ base \in Nat /\ committed \in Nat
      /\ slots \subseteq (committed + 1) .. started
  BY Numbers
<1>w. Work
  BY DEF IInv
<1>1. CASE Round
  <2>1. UNCHANGED <<slots, inFlight, running, failed>> /\ ~failed /\ pc \in {"classify", "commit"}
    BY <1>1, Rounds
  <2>2. CASE StartsNext
    <3>1. started' = started + 1 /\ pc' = "prepare" /\ committed' = committed
      BY <2>2 DEF StartsNext, StartCall, committed
    <3>2. committed <= started
      BY <2>1 DEF IInv, Logs
    <3>3. started + 1 \notin inFlight \union slots
      BY <1>t DEF TypeOK
    <3> QED
      BY <1>t, <1>w, <2>1, <3>1, <3>2, <3>3 DEF Work, Preparing
  <2>3. CASE WaitsForOne
    <3>1. started' = started /\ pc' = "race" /\ committed' = committed
      BY <2>3 DEF WaitsForOne, committed, logVars
    <3> QED
      BY <1>w, <2>1, <3>1 DEF Work, Preparing
  <2>4. CASE EndsGroup
    <3>1. slots = {} /\ running = {} /\ committed = started
      BY <2>4 DEF EndsGroup
    <3>2. started' = started /\ pc' # "prepare" /\ (committed' = NCalls \/ committed' = committed)
      BY <2>4, GroupEnd DEF committed, logVars
    <3>3. started <= NCalls
      BY <1>t DEF TypeOK
    <3> QED
      BY <1>t, <2>1, <3>1, <3>2, <3>3 DEF Work, Preparing
  <2> QED
    BY <1>1, <2>2, <2>3, <2>4, Rounds
<1>2. CASE Refill /\ failed
  BY <1>2, <1>w DEF Work, Refill, Fail, logVars, committed
<1>3. CASE PrepareFails
  BY <1>3, <1>w DEF Work, PrepareFails, Fail, logVars, committed
<1>4. CASE Commit
  <2>1. /\ committed + 1 \in slots /\ slots' = slots \ {committed + 1} /\ pc = "commit"
        /\ UNCHANGED <<started, running, failed, pc>>
    BY <1>4 DEF Commit, NextResult
  <2>2. committed' = committed + 1
    BY <1>t, <1>4, <2>1, AppendProperties DEF TypeOK, Commit, NextResult, committed, Calls
  <2>3. running' \subseteq (committed' + 1) .. started'
    <3> SUFFICES ASSUME NEW call \in running PROVE call \in (committed + 2) .. started
      BY <1>t, <2>1, <2>2
    <3>1. call \in (committed + 1) .. started /\ call # committed + 1
      BY <1>w, <2>1 DEF Work
    <3> QED
      BY <1>t, <3>1
  <2>4. ~failed' => (committed' + 1) .. started' \subseteq running' \union slots'
    BY <1>t, <1>w, <2>1, <2>2 DEF Work, Preparing
  <2> QED
    BY <1>w, <2>1, <2>3, <2>4 DEF Work
<1>5. CASE CommitFails
  BY <1>5, <1>w DEF Work, CommitFails, Fail, logVars, committed
<1>6. CASE Rethrow
  BY <1>6, <1>w DEF Work, Rethrow, logVars, committed, Preparing
<1>7. ASSUME NEW dispatches \in BOOLEAN, Prepared(dispatches) PROVE Work'
  <2>1. /\ pc = "prepare" /\ pc' = "commit" /\ started' = started /\ committed' = committed
        /\ failed' = failed
    BY <1>7 DEF Prepared, logVars, committed
  <2>2. started > committed /\ started \notin inFlight \union slots /\ running \subseteq inFlight
    BY <1>t, <1>w, <2>1 DEF Work, TypeOK
  <2>3. \/ running' = running \union {started} /\ slots' = slots
        \/ running' = running /\ slots' = slots \union {started}
    BY <1>7 DEF Prepared
  <2>4. started \in (committed + 1) .. started /\ started \notin running
    BY <1>t, <2>2
  <2>5. running' \subseteq (committed' + 1) .. started' /\ running' \intersect slots' = {}
    BY <1>w, <2>1, <2>2, <2>3, <2>4 DEF Work
  <2>6. ~failed' => (committed' + 1) .. started' \subseteq running' \union slots'
    BY <1>w, <2>1, <2>3 DEF Work, Preparing
  <2> QED
    BY <2>1, <2>5, <2>6 DEF Work
<1>8. ASSUME NEW call \in Calls, Race(call) PROVE Work'
  BY <1>8, <1>w DEF Work, Race, Unraced, logVars, committed, Preparing
<1>9. ASSUME NEW call \in Calls, NEW ok \in BOOLEAN, DispatchSettles(call, ok) PROVE Work'
  <2>1. /\ call \in running /\ running' = running \ {call}
        /\ slots' = (IF ok THEN slots \union {call} ELSE slots)
        /\ UNCHANGED <<started, inFlight, pc>> /\ committed' = committed
    BY <1>9 DEF DispatchSettles, logVars, committed
  <2>2. running \subseteq inFlight
    BY <1>t DEF TypeOK
  <2>3. ~failed' => ~failed /\ ok
    BY <1>9 DEF DispatchSettles
  <2>4. ~failed' => (committed' + 1) .. started' \subseteq running' \union slots' \union Preparing'
    BY <1>w, <2>1, <2>3 DEF Work, Preparing
  <2> QED
    BY <1>w, <2>1, <2>2, <2>4 DEF Work
<1>10. ASSUME NEW call \in Calls, Reclassify(call) PROVE Work'
  BY <1>10, <1>w DEF Work, Reclassify, logVars, committed, Preparing
<1>11. CASE Abort
  BY <1>11, <1>w DEF Work, Abort, logVars, committed, Preparing
<1>12. CASE UNCHANGED vars
  BY <1>12, <1>w DEF Work, vars, logVars, committed, Preparing
<1> QED
  BY <1>1, <1>2, <1>3, <1>4, <1>5, <1>6, <1>7, <1>8, <1>9, <1>10, <1>11, <1>12, Steps

(* Every step keeps the logs in model order, and ends the step with all of them. *)
LEMMA LogsStep ==
  ASSUME IInv, [Next]_vars
  PROVE  Logs'
<1>t. /\ TypeOK /\ NCalls \in Nat /\ started \in Nat /\ base \in Nat /\ committed \in Nat
      /\ slots \subseteq (committed + 1) .. started
  BY Numbers
<1>l. Logs
  BY DEF IInv
<1>1. CASE Round
  <2>1. pc \in {"classify", "commit"}
    BY <1>1, Rounds
  <2>2. Len(callLog) = started /\ committed <= started /\ Len(resultLog) \in Nat
    BY <1>l, <1>t, <2>1 DEF Logs, committed
  <2>3. callLog = Upto(started) /\ resultLog = Upto(Len(resultLog))
    BY <1>l, <2>2 DEF Logs, ModelOrder, Upto
  <2>4. CASE StartsNext
    <3>1. /\ callLog' = Append(callLog, started + 1) /\ resultLog' = resultLog
          /\ started' = started + 1 /\ pc' = "prepare"
      BY <2>4 DEF StartsNext, StartCall
    <3>2. callLog' = Upto(started + 1)
      BY <1>t, <2>3, <3>1, NextInOrder
    <3>3. Len(Upto(started + 1)) = started + 1
      BY <1>t DEF Upto
    <3> QED
      BY <1>t, <2>2, <2>3, <3>1, <3>2, <3>3
         DEF Logs, ModelOrder, ReturnAnswersEveryCall, committed, Upto
  <2>5. CASE WaitsForOne
    <3>1. UNCHANGED <<callLog, resultLog, started>> /\ pc' = "race"
      BY <2>5 DEF WaitsForOne, logVars
    <3> QED
      BY <1>l, <2>2, <3>1 DEF Logs, ModelOrder, ReturnAnswersEveryCall, committed
  <2>6. CASE EndsGroup
    <3>1. committed = started
      BY <2>6 DEF EndsGroup
    <3>2. CASE /\ pc' = "returned"
               /\ callLog' = Upto(NCalls) /\ Len(callLog') = NCalls
               /\ resultLog' = Upto(NCalls) /\ Len(resultLog') = NCalls
      BY <1>t, <3>2 DEF Logs, ModelOrder, ReturnAnswersEveryCall, Upto
    <3>3. CASE UNCHANGED logVars /\ pc' = IF started = NCalls THEN "returned" ELSE "classify"
      <4>1. started' = started /\ UNCHANGED <<callLog, resultLog>>
        BY <2>6, <3>3, GroupEnd DEF logVars
      <4> QED
        BY <1>l, <2>2, <3>1, <3>3, <4>1 DEF Logs, ModelOrder, ReturnAnswersEveryCall, committed
    <3> QED
      BY <2>6, <3>2, <3>3, GroupEnd
  <2> QED
    BY <1>1, <2>4, <2>5, <2>6, Rounds
<1>2. CASE Commit
  <2>1. /\ committed + 1 \in slots /\ pc = "commit" /\ UNCHANGED <<callLog, started, pc>>
        /\ resultLog' = Append(resultLog, committed + 1)
    BY <1>2 DEF Commit, NextResult
  <2>2. committed + 1 <= started /\ Len(callLog) = started
    BY <1>t, <1>l, <2>1 DEF Logs
  <2>3. resultLog' = Upto(committed + 1)
    BY <1>t, <1>l, <2>1, NextInOrder DEF Logs, ModelOrder, committed, Upto
  <2>4. Len(Upto(committed + 1)) = committed + 1
    BY <1>t DEF Upto
  <2> QED
    BY <1>l, <1>t, <2>1, <2>2, <2>3, <2>4 DEF Logs, ModelOrder, ReturnAnswersEveryCall, committed, Upto
<1>3. CASE PrepareFails \/ CommitFails \/ Rethrow \/ (Refill /\ failed)
  <2>1. UNCHANGED <<callLog, resultLog, started>> /\ pc # "returned" /\ pc' # "returned"
    BY <1>3 DEF PrepareFails, CommitFails, Rethrow, Refill, Fail, logVars
  <2> QED
    BY <1>l, <2>1 DEF Logs, ModelOrder, ReturnAnswersEveryCall, committed
<1>4. ASSUME NEW dispatches \in BOOLEAN, Prepared(dispatches) PROVE Logs'
  BY <1>4, <1>l DEF Prepared, logVars, Logs, ModelOrder, ReturnAnswersEveryCall, committed
<1>5. ASSUME NEW call \in Calls, Race(call) PROVE Logs'
  BY <1>5, <1>l DEF Race, logVars, Logs, ModelOrder, ReturnAnswersEveryCall, committed
<1>6. ASSUME UNCHANGED <<callLog, resultLog, started, pc>> PROVE Logs'
  BY <1>6, <1>l DEF Logs, ModelOrder, ReturnAnswersEveryCall, committed
<1>7. ASSUME NEW call \in Calls, NEW ok \in BOOLEAN, DispatchSettles(call, ok) PROVE Logs'
  BY <1>6, <1>7 DEF DispatchSettles, logVars
<1>8. ASSUME NEW call \in Calls, Reclassify(call) PROVE Logs'
  BY <1>6, <1>8 DEF Reclassify, logVars
<1>9. CASE Abort \/ UNCHANGED vars
  BY <1>6, <1>9 DEF Abort, vars, logVars
<1> QED
  BY <1>1, <1>2, <1>3, <1>4, <1>5, <1>7, <1>8, <1>9, Steps

(* The calls of a group grow by the one that is started, *)
LEMMA OneMore ==
  ASSUME NEW b \in Nat, NEW s \in Nat, b <= s
  PROVE  (b + 1) .. (s + 1) = ((b + 1) .. s) \union {s + 1}
OBVIOUS

(* and stay among the calls of the step. *)
LEMMA Within ==
  ASSUME NEW b \in Nat, NEW s \in Nat, NEW n \in Nat, s <= n
  PROVE  (b + 1) .. s \subseteq 1 .. n
OBVIOUS

(* Every step keeps a group to one mode. *)
LEMMA GroupStep ==
  ASSUME IInv, [Next]_vars
  PROVE  Group'
<1>t. TypeOK /\ NCalls \in Nat /\ started \in Nat /\ started <= NCalls /\ base \in Nat /\ base <= started
  BY Numbers DEF TypeOK
<1>g. Group
  BY DEF IInv
<1>1. CASE Round
  <2>1. /\ UNCHANGED <<inFlight, running, failed>> /\ pc \in {"classify", "commit"}
        /\ (base' = started /\ groupMode' = mode[started + 1]) \/ UNCHANGED <<base, groupMode>>
    BY <1>1, Rounds
  <2>2. inFlight \subseteq (base' + 1) .. started
    <3>1. CASE pc = "classify"
      BY <3>1 DEF IInv, Boundaries
    <3>2. CASE pc = "commit"
      BY <1>1, <1>g, <3>2 DEF Round, BeginGroup, Refill, Group
    <3> QED
      BY <2>1, <3>1, <3>2
  <2>3. \A call \in (base' + 1) .. started : startMode[call] = groupMode'
    BY <1>g, <1>t, <2>1 DEF Group
  <2>4. CASE StartsNext
    <3>1. /\ started' = started + 1 /\ pc' = "prepare"
          /\ startMode' = [startMode EXCEPT ![started + 1] = mode[started + 1]]
          /\ mode[started + 1] = groupMode' /\ started + 1 \in Calls
          /\ groupMode' = "exclusive" => started = base'
      BY <1>t, <2>4 DEF StartsNext, StartCall, Calls
    <3>2. base' \in Nat /\ base' <= started
      BY <1>t, <2>1
    <3>a. started' = started + 1
      BY <3>1
    <3>b. (base' + 1) .. started' = ((base' + 1) .. started) \union {started'}
      BY <1>t, <3>2, <3>a, OneMore
    <3>3. ASSUME NEW call \in (base' + 1) .. started' PROVE startMode'[call] = groupMode'
      <4>1. CASE call = started'
        BY <1>t, <3>1, <4>1 DEF TypeOK
      <4>2. CASE call # started'
        <5>1. call \in (base' + 1) .. started
          BY <3>b, <4>2
        <5>2. call \in Calls
          BY <1>t, <3>2, <5>1, Within DEF Calls
        <5> QED
          BY <1>t, <2>3, <3>1, <4>2, <5>1, <5>2 DEF TypeOK
      <4> QED
        BY <4>1, <4>2
    <3>4. inFlight' \subseteq (base' + 1) .. started'
      BY <2>1, <2>2, <3>b
    <3>5. groupMode' = "exclusive" => started' <= base' + 1
      <4> SUFFICES ASSUME groupMode' = "exclusive" PROVE started' <= base' + 1
        OBVIOUS
      <4>1. started = base'
        BY <3>1
      <4>2. started + 1 <= started + 1
        BY <1>t
      <4> QED
        BY <3>a, <4>1, <4>2
    <3>6. started' > base'
      BY <1>t, <3>2, <3>a
    <3> QED
      BY <3>3, <3>4, <3>5, <3>6 DEF Group
  <2>5. CASE WaitsForOne
    BY <1>g, <2>1, <2>5 DEF Group, WaitsForOne
  <2>6. CASE EndsGroup
    <3>1. UNCHANGED <<started, startMode>> /\ pc' \in {"returned", "classify"}
      BY <2>6, GroupEnd
    <3>2. groupMode' = "exclusive" => started <= base' + 1
      BY <1>g, <1>t, <2>1 DEF Group
    <3> QED
      BY <2>1, <2>2, <2>3, <3>1, <3>2 DEF Group
  <2> QED
    BY <1>1, <2>4, <2>5, <2>6, Rounds
<1>2. CASE PrepareFails \/ CommitFails \/ Rethrow \/ Commit \/ (Refill /\ failed)
  <2>1. /\ UNCHANGED <<base, groupMode, started, inFlight, startMode>>
        /\ pc' \in {"drain", "thrown"} \/ pc' = pc
    BY <1>2 DEF PrepareFails, CommitFails, Rethrow, Commit, Refill, Fail
  <2> QED
    BY <1>g, <2>1 DEF Group
<1>3. ASSUME NEW dispatches \in BOOLEAN, Prepared(dispatches) PROVE Group'
  <2>1. /\ UNCHANGED <<base, groupMode, started, startMode>> /\ pc = "prepare" /\ pc' = "commit"
        /\ inFlight' \subseteq inFlight \union {started}
    BY <1>3 DEF Prepared
  <2>2. started \in (base + 1) .. started
    BY <1>g, <1>t, <2>1 DEF Group
  <2> QED
    BY <1>g, <2>1, <2>2 DEF Group
<1>4. ASSUME NEW call \in Calls, Race(call) PROVE Group'
  BY <1>4, <1>g DEF Race, Unraced, Group
<1>5. ASSUME UNCHANGED <<base, groupMode, started, inFlight, startMode, pc>> PROVE Group'
  BY <1>5, <1>g DEF Group
<1>6. ASSUME NEW call \in Calls, NEW ok \in BOOLEAN, DispatchSettles(call, ok) PROVE Group'
  BY <1>5, <1>6 DEF DispatchSettles
<1>7. ASSUME NEW call \in Calls, Reclassify(call) PROVE Group'
  BY <1>5, <1>7 DEF Reclassify
<1>8. CASE Abort \/ UNCHANGED vars
  BY <1>5, <1>8 DEF Abort, vars
<1> QED
  BY <1>1, <1>2, <1>3, <1>4, <1>6, <1>7, <1>8, Steps

(* Every step leaves the pool empty between groups and after the step. *)
LEMMA BoundariesStep ==
  ASSUME IInv, [Next]_vars
  PROVE  Boundaries'
<1>t. TypeOK /\ NCalls \in Nat /\ started \in Nat /\ started <= NCalls
  BY Numbers DEF TypeOK
<1>b. Boundaries
  BY DEF IInv
<1>1. CASE Round
  <2>1. UNCHANGED <<inFlight, running, failed>>
    BY <1>1, Rounds
  <2>2. CASE StartsNext \/ WaitsForOne
    <3>1. pc' \in {"prepare", "race"}
      BY <2>2 DEF StartsNext, StartCall, WaitsForOne
    <3> QED
      BY <3>1 DEF Boundaries
  <2>3. CASE EndsGroup
    <3>1. inFlight = {} /\ ~failed /\ running = {} /\ committed = started
      BY <2>3 DEF EndsGroup
    <3>2. started' = started /\ pc' \in {"returned", "classify"}
      BY <2>3, GroupEnd
    <3>3. pc' = "classify" => started # NCalls /\ committed' = committed
      BY <2>3, GroupEnd DEF logVars, committed
    <3> QED
      BY <1>t, <2>1, <3>1, <3>2, <3>3 DEF Boundaries
  <2> QED
    BY <1>1, <2>2, <2>3, Rounds
<1>2. CASE PrepareFails \/ CommitFails \/ Commit \/ (Refill /\ failed)
  <2>1. pc' \in {"drain", "commit"}
    BY <1>2 DEF PrepareFails, CommitFails, Commit, Refill, Fail
  <2> QED
    BY <2>1 DEF Boundaries
<1>3. CASE Rethrow
  BY <1>3, <1>t DEF Rethrow, Drained, Boundaries, TypeOK
<1>4. ASSUME NEW dispatches \in BOOLEAN, Prepared(dispatches) PROVE Boundaries'
  BY <1>4 DEF Prepared, Boundaries
<1>5. ASSUME NEW call \in Calls, Race(call) PROVE Boundaries'
  <2>1. pc' \in {"drain", "commit"}
    BY <1>5 DEF Race
  <2> QED
    BY <2>1 DEF Boundaries
<1>6. ASSUME NEW call \in Calls, NEW ok \in BOOLEAN, DispatchSettles(call, ok) PROVE Boundaries'
  <2>1. call \in running /\ call \in inFlight /\ pc' = pc
    BY <1>6, <1>t DEF DispatchSettles, TypeOK
  <2>2. pc \notin {"classify", "returned", "thrown"}
    BY <1>b, <2>1 DEF Boundaries
  <2> QED
    BY <2>1, <2>2 DEF Boundaries
<1>7. ASSUME UNCHANGED <<started, inFlight, running, failed, pc, resultLog>> PROVE Boundaries'
  BY <1>7, <1>b DEF Boundaries, committed
<1>8. ASSUME NEW call \in Calls, Reclassify(call) PROVE Boundaries'
  BY <1>7, <1>8 DEF Reclassify, logVars
<1>9. CASE Abort \/ UNCHANGED vars
  BY <1>7, <1>9 DEF Abort, vars, logVars
<1> QED
  BY <1>1, <1>2, <1>3, <1>4, <1>5, <1>6, <1>8, <1>9, Steps

(* The pool is finite. *)
LEMMA PoolFinite ==
  ASSUME TypeOK
  PROVE  IsFiniteSet(inFlight) /\ Cardinality(inFlight) \in Nat
<1>1. inFlight \in SUBSET (1 .. started) /\ 1 \in Int /\ started \in Int
  BY SchedulerAssumption DEF TypeOK
<1>2. IsFiniteSet(1 .. started)
  BY <1>1, FS_Interval
<1>3. IsFiniteSet(inFlight)
  BY <1>1, <1>2, FS_Subset
<1> QED
  BY <1>3, FS_CardinalityType

(* Every step keeps the pool under its cap. *)
LEMMA PoolStep ==
  ASSUME IInv, [Next]_vars
  PROVE  Pool'
<1>t. /\ TypeOK /\ Pool /\ MaxParallel \in Nat
      /\ IsFiniteSet(inFlight) /\ Cardinality(inFlight) \in Nat
  BY SchedulerAssumption, PoolFinite DEF IInv
<1>1. CASE Round
  <2>1. UNCHANGED inFlight
    BY <1>1, Rounds
  <2>2. CASE StartsNext
    BY <1>t, <2>1, <2>2 DEF StartsNext, PoolHasRoom, Pool
  <2>3. CASE WaitsForOne
    BY <1>t, <2>1, <2>3 DEF WaitsForOne, Pool
  <2>4. CASE EndsGroup
    <3>1. pc' \in {"returned", "classify"}
      BY <2>4, GroupEnd
    <3> QED
      BY <1>t, <2>1, <3>1 DEF Pool
  <2> QED
    BY <1>1, <2>2, <2>3, <2>4, Rounds
<1>2. CASE PrepareFails \/ CommitFails \/ Rethrow \/ Commit \/ (Refill /\ failed)
  <2>1. UNCHANGED inFlight /\ pc' # "prepare"
    BY <1>2 DEF PrepareFails, CommitFails, Rethrow, Commit, Refill, Fail
  <2> QED
    BY <1>t, <2>1 DEF Pool
<1>3. ASSUME NEW dispatches \in BOOLEAN, Prepared(dispatches) PROVE Pool'
  <2>1. /\ pc = "prepare" /\ pc' = "commit"
        /\ inFlight' = inFlight \union {started} \/ inFlight' = inFlight
    BY <1>3 DEF Prepared
  <2>2. Cardinality(inFlight \union {started}) <= Cardinality(inFlight) + 1
    BY <1>t, FS_AddElement
  <2>3. Cardinality(inFlight \union {started}) \in Nat
    BY <1>t, FS_AddElement, FS_CardinalityType
  <2>4. Cardinality(inFlight) < MaxParallel
    BY <1>t, <2>1 DEF Pool
  <2>5. CASE inFlight' = inFlight \union {started}
    <3>1. Cardinality(inFlight \union {started}) <= MaxParallel
      BY <1>t, <2>2, <2>3, <2>4
    <3> QED
      BY <2>1, <2>5, <3>1 DEF Pool
  <2>6. CASE inFlight' = inFlight
    BY <1>t, <2>1, <2>6 DEF Pool
  <2> QED
    BY <2>1, <2>5, <2>6
<1>4. ASSUME NEW call \in Calls, Race(call) PROVE Pool'
  <2>1. inFlight' = inFlight \ {call} /\ pc' # "prepare"
    BY <1>4 DEF Race, Unraced
  <2>2. Cardinality(inFlight \ {call}) <= Cardinality(inFlight)
    BY <1>t, FS_RemoveElement
  <2>3. Cardinality(inFlight \ {call}) \in Nat
    BY <1>t, FS_RemoveElement, FS_CardinalityType
  <2>4. Cardinality(inFlight \ {call}) <= MaxParallel
    BY <1>t, <2>2, <2>3 DEF Pool
  <2> QED
    BY <2>1, <2>4 DEF Pool
<1>5. ASSUME UNCHANGED <<inFlight, pc>> PROVE Pool'
  BY <1>5, <1>t DEF Pool
<1>6. ASSUME NEW call \in Calls, NEW ok \in BOOLEAN, DispatchSettles(call, ok) PROVE Pool'
  BY <1>5, <1>6 DEF DispatchSettles
<1>7. ASSUME NEW call \in Calls, Reclassify(call) PROVE Pool'
  BY <1>5, <1>7 DEF Reclassify
<1>8. CASE Abort \/ UNCHANGED vars
  BY <1>5, <1>8 DEF Abort, vars
<1> QED
  BY <1>1, <1>2, <1>3, <1>4, <1>6, <1>7, <1>8, Steps

--------------------------------------------------------------------------------
(* The invariant *)

(* A step begins with nothing started and nothing recorded. *)
LEMMA InitIInv ==
  Init => IInv
<1> SUFFICES ASSUME Init PROVE IInv
  OBVIOUS
<1>0. NCalls \in Nat /\ NCalls > 0 /\ MaxParallel \in Nat /\ MaxParallel > 0 /\ MaxReclass \in Nat
  BY SchedulerAssumption
<1>1. callLog = <<>> /\ resultLog = <<>> /\ committed = 0 /\ started = 0 /\ base = 0
  BY DEF Init, committed
<1>2. TypeOK
  <2>1. signal \in BOOLEAN /\ aborted \in BOOLEAN /\ failed \in BOOLEAN
    BY DEF Init
  <2>2. startMode \in [Calls -> Modes] /\ mode \in [Calls -> Modes]
    BY DEF Init
  <2> QED
    BY <1>0, <1>1, <2>1, <2>2 DEF Init, TypeOK, Modes
<1>3. Work
  BY <1>1 DEF Init, Work
<1>4. Logs
  BY <1>1 DEF Init, Logs, ModelOrder, ReturnAnswersEveryCall
<1>5. Group
  BY <1>1 DEF Init, Group
<1>6. Boundaries
  BY <1>0, <1>1 DEF Init, Boundaries
<1>7. Pool
  BY <1>0, FS_EmptySet DEF Init, Pool
<1> QED
  BY <1>2, <1>3, <1>4, <1>5, <1>6, <1>7 DEF IInv

(* Every reachable state of the scheduler satisfies the invariant. *)
LEMMA InvariantIInv ==
  Spec => []IInv
<1>1. IInv /\ [Next]_vars => IInv'
  BY TypeStep, WorkStep, LogsStep, GroupStep, BoundariesStep, PoolStep DEF IInv
<1> QED
  BY <1>1, InitIInv, PTL DEF Spec

--------------------------------------------------------------------------------
(* What the scheduler promises *)

(* The state of the scheduler keeps its types, its counters their bounds. *)
THEOREM TypeCorrect ==
  Spec => []TypeOK
<1>1. IInv => TypeOK
  BY DEF IInv
<1> QED
  BY <1>1, InvariantIInv, PTL

(* executeToolCalls records calls and results in model order, for any number *)
(* of calls and whatever order their tools settle in.                        *)
THEOREM LogsInModelOrder ==
  Spec => []ModelOrder
<1>1. IInv => ModelOrder
  BY DEF IInv, Logs
<1> QED
  BY <1>1, InvariantIInv, PTL

(* When executeToolCalls returns, every call of the message has its result. *)
THEOREM EveryCallAnswered ==
  Spec => []ReturnAnswersEveryCall
<1>1. IInv => ReturnAnswersEveryCall
  BY DEF IInv, Logs
<1> QED
  BY <1>1, InvariantIInv, PTL

(* When executeToolCalls returns or throws, every dispatched tool has settled. *)
THEOREM NothingLeftRunning ==
  Spec => []NothingRunsBehind
<1>1. IInv => NothingRunsBehind
  BY DEF IInv, TypeOK, Boundaries, NothingRunsBehind, Over
<1> QED
  BY <1>1, InvariantIInv, PTL

(* A call that runGroup started as exclusive has no other call at work beside *)
(* it, although the registry may reclassify any call while the group runs.    *)
THEOREM ExclusiveAlone ==
  Spec => []ExclusiveRunsAlone
<1>1. IInv => ExclusiveRunsAlone
  <2> SUFFICES ASSUME IInv, NEW call \in Busy, startMode[call] = "exclusive",
                      NEW other \in Busy
               PROVE  other = call
    BY DEF ExclusiveRunsAlone
  <2>1. TypeOK /\ Group /\ started \in Nat /\ base \in Nat
    BY Numbers DEF IInv, TypeOK
  <2>2. Busy \subseteq (base + 1) .. started
    <3>1. running \subseteq (base + 1) .. started
      BY <2>1 DEF TypeOK, Group
    <3>2. pc = "prepare" => started \in (base + 1) .. started
      BY <2>1 DEF Group
    <3> QED
      BY <3>1, <3>2 DEF Busy
  <2>3. call \in (base + 1) .. started /\ other \in (base + 1) .. started
    BY <2>2
  <2>4. started <= base + 1
    BY <2>1, <2>3 DEF Group
  <2> QED
    BY <2>1, <2>3, <2>4
<1> QED
  BY <1>1, InvariantIInv, PTL

(* fillPool never has more than maxParallelToolCalls calls at work, counting *)
(* the one whose preparation it awaits.                                      *)
THEOREM CapHolds ==
  Spec => []CapRespected
<1>1. IInv => CapRespected
  <2> SUFFICES ASSUME IInv PROVE Cardinality(Busy) <= MaxParallel
    BY DEF CapRespected
  <2>1. /\ TypeOK /\ Pool /\ MaxParallel \in Nat
        /\ IsFiniteSet(inFlight) /\ Cardinality(inFlight) \in Nat
    BY PoolFinite, SchedulerAssumption DEF IInv
  <2>2. CASE pc = "prepare"
    <3>1. Busy \subseteq inFlight \union {started}
      BY <2>1, <2>2 DEF Busy, TypeOK
    <3>2. /\ IsFiniteSet(inFlight \union {started})
          /\ Cardinality(inFlight \union {started}) <= Cardinality(inFlight) + 1
      BY <2>1, FS_AddElement
    <3>3. Cardinality(inFlight \union {started}) \in Nat
      BY <3>2, FS_CardinalityType
    <3>4. Cardinality(Busy) <= Cardinality(inFlight \union {started})
      BY <3>1, <3>2, FS_Subset
    <3>5. Cardinality(Busy) \in Nat
      BY <3>1, <3>2, FS_Subset, FS_CardinalityType
    <3>6. Cardinality(inFlight) < MaxParallel
      BY <2>1, <2>2 DEF Pool
    <3> QED
      BY <2>1, <3>2, <3>3, <3>4, <3>5, <3>6
  <2>3. CASE pc # "prepare"
    <3>1. Busy \subseteq inFlight
      BY <2>1, <2>3 DEF Busy, TypeOK
    <3>2. Cardinality(Busy) <= Cardinality(inFlight) /\ Cardinality(Busy) \in Nat
      BY <2>1, <3>1, FS_Subset, FS_CardinalityType
    <3> QED
      BY <2>1, <3>2 DEF Pool
  <2> QED
    BY <2>2, <2>3
<1> QED
  BY <1>1, InvariantIInv, PTL

(* Whatever order the tools settle in, and whatever the registry and the     *)
(* abort signal do meanwhile, a step's history can be replayed and its pool  *)
(* holds what it may hold.                                                   *)
THEOREM StepIsSafe ==
  Spec => []StepSafe
BY TypeCorrect, LogsInModelOrder, EveryCallAnswered, NothingLeftRunning, ExclusiveAlone, CapHolds,
   PTL DEF StepSafe

(* Once the step's signal has fired, runGroup records no call as started and *)
(* dispatches no tool: every await between the abort and a start rechecks it. *)
THEOREM AbortStartsNothing ==
  Spec => NoStartAfterAbort
<1> DEFINE Quiescent == started' # started \/ ~(running' \subseteq running) => ~signal
<1>1. IInv /\ [Next]_vars => [Quiescent]_vars
  <2> SUFFICES ASSUME IInv, [Next]_vars PROVE Quiescent
    OBVIOUS
  <2>1. CASE Round
    <3>1. running' = running
      BY <2>1, Rounds
    <3>2. CASE StartsNext
      BY <3>2 DEF StartsNext
    <3>3. CASE WaitsForOne
      BY <3>1, <3>3 DEF WaitsForOne
    <3>4. CASE EndsGroup
      BY <3>1, <3>4, GroupEnd
    <3> QED
      BY <2>1, <3>2, <3>3, <3>4, Rounds
  <2>2. CASE PrepareFails \/ CommitFails \/ Rethrow \/ Commit \/ (Refill /\ failed)
    BY <2>2 DEF PrepareFails, CommitFails, Rethrow, Commit, Refill
  <2>3. ASSUME NEW dispatches \in BOOLEAN, Prepared(dispatches) PROVE Quiescent
    BY <2>3 DEF Prepared
  <2>4. ASSUME NEW call \in Calls, Race(call) PROVE Quiescent
    BY <2>4 DEF Race
  <2>5. ASSUME NEW call \in Calls, NEW ok \in BOOLEAN, DispatchSettles(call, ok) PROVE Quiescent
    BY <2>5 DEF DispatchSettles
  <2>6. ASSUME NEW call \in Calls, Reclassify(call) PROVE Quiescent
    BY <2>6 DEF Reclassify
  <2>7. CASE Abort \/ UNCHANGED vars
    BY <2>7 DEF Abort, vars
  <2> QED
    BY <2>1, <2>2, <2>3, <2>4, <2>5, <2>6, <2>7, Steps
<1>2. Spec => [][Quiescent]_vars
  BY <1>1, InvariantIInv, PTL DEF Spec
<1> QED
  BY <1>2 DEF NoStartAfterAbort

--------------------------------------------------------------------------------
(* The registry of jobs *)

JobTyping == JobStore!TypeOK /\ IsFiniteSet(store)

(* A settlement is announced as it happens, or never. *)
Announced ==
  \A job \in Jobs :
    /\ announced[job] \in {0, 1} /\ (announced[job] = 1 => JobStore!Over(job))
    /\ JobStore!Over(job) /\ announced[job] = 0 => closed

(* A job that nobody claimed is marked reported for a wait, and only once it is *)
(* over: the wait that resumes finds the outcome it was resolved for.           *)
Noticed ==
  \A job \in reported :
    \/ job \in claimed
    \/ /\ JobStore!Over(job)
       /\ \E wait \in JobWaits : target[wait] = job /\ (phase[wait] = "resolved" \/ wait \in sawEnd)

(* What the store holds has been started, and it holds what is not over. *)
Stored ==
  \A job \in Jobs : (job \in store => status[job] # "absent") /\ (JobStore!Live(job) => job \in store)

(* From the first moment of its teardown an owner gets no further job: what it *)
(* still has is what the teardown waits for.                                   *)
TornDown ==
  \A o \in JobStore!Owners, job \in Jobs :
    /\ scope[o] # "live" /\ (o = NoOwner \/ owner[job] = o)
    /\ job \in store \/ JobStore!Live(job)
    => scope[o] = "disposing" /\ job \in closing[o]

JobInv == JobTyping /\ Announced /\ Noticed /\ Stored /\ TornDown /\ JobStore!LimitRespected

(* Names of the standard modules as an instance sees them. *)
LEMMA SameSets ==
  /\ \A S : JobStore!Cardinality(S) = Cardinality(S)
  /\ \A S : JobStore!IsFiniteSet(S) <=> IsFiniteSet(S)
BY DEF JobStore!Cardinality, Cardinality, JobStore!IsFiniteSet, IsFiniteSet

LEMMA JobSteps ==
  ASSUME JobStore!Next \/ UNCHANGED jobVars
  PROVE  \/ \E job \in Jobs : JobStore!Kill(job) \/ JobStore!Read(job)
         \/ \E job \in Jobs, o \in JobStore!Owners : JobStore!Start(job, o)
         \/ \E job \in Jobs, result \in JobStore!Outcomes : JobStore!ProducerSettles(job, result)
         \/ \E wait \in JobWaits :
              \/ JobStore!Wait(wait) \/ JobStore!WaitTimeout(wait)
              \/ JobStore!WaitAbort(wait) \/ JobStore!WaitResumes(wait)
         \/ \E o \in JobStore!Owners, throwers \in SUBSET Jobs : JobStore!Dispose(o, throwers)
         \/ \E o \in JobStore!Owners : JobStore!Disposed(o)
         \/ UNCHANGED jobVars
BY DEF JobStore!Next

LEMMA JobTypingStep == JobInv /\ (JobStore!Next \/ UNCHANGED jobVars) => JobTyping'
<1> SUFFICES ASSUME JobTyping, Stored, JobStore!Next \/ UNCHANGED jobVars PROVE JobTyping'
  BY DEF JobInv
<1> USE DEF JobTyping, JobStore!TypeOK, JobStore!waitVars, JobStore!scopeVars, JobStore!jobVars,
            JobStore!Outcomes
<1>1. ASSUME NEW job \in Jobs, JobStore!Kill(job) PROVE JobTyping'
  BY <1>1 DEF JobStore!Kill
<1>2. ASSUME NEW job \in Jobs, JobStore!Read(job) PROVE JobTyping'
  BY <1>2 DEF JobStore!Read
<1>3. ASSUME NEW job \in Jobs, NEW o \in JobStore!Owners, JobStore!Start(job, o) PROVE JobTyping'
  <2>1. IsFiniteSet(store')
    BY <1>3, FS_AddElement DEF JobStore!Start
  <2> QED
    BY <1>3, <2>1 DEF JobStore!Start
<1>4. ASSUME NEW job \in Jobs, NEW result \in JobStore!Outcomes, JobStore!ProducerSettles(job, result)
      PROVE  JobTyping'
  <2>1. CASE JobStore!Settle({job}, result, status, reported)
    BY <1>4, <2>1 DEF JobStore!ProducerSettles, JobStore!Settle
  <2>2. CASE UNCHANGED <<status, reported, phase, announced>>
    BY <1>4, <2>2 DEF JobStore!ProducerSettles
  <2> QED
    BY <1>4, <2>1, <2>2 DEF JobStore!ProducerSettles
<1>5. ASSUME NEW wait \in JobWaits, JobStore!Wait(wait) PROVE JobTyping'
  BY <1>5 DEF JobStore!Wait
<1>6. ASSUME NEW wait \in JobWaits, JobStore!WaitTimeout(wait) PROVE JobTyping'
  BY <1>6 DEF JobStore!WaitTimeout
<1>7. ASSUME NEW wait \in JobWaits, JobStore!WaitAbort(wait) PROVE JobTyping'
  BY <1>7 DEF JobStore!WaitAbort, JobStore!AbortUncounts
<1>8. ASSUME NEW wait \in JobWaits, JobStore!WaitResumes(wait) PROVE JobTyping'
  BY <1>8 DEF JobStore!WaitResumes
<1>9. ASSUME NEW o \in JobStore!Owners, NEW throwers \in SUBSET Jobs, JobStore!Dispose(o, throwers)
      PROVE  JobTyping'
  BY <1>9 DEF JobStore!Dispose, JobStore!Settle, JobStore!ForceFailed
<1>10. ASSUME NEW o \in JobStore!Owners, JobStore!Disposed(o) PROVE JobTyping'
  <2>1. IsFiniteSet(store') /\ store' \subseteq Jobs
    BY <1>10, FS_Subset DEF JobStore!Disposed
  <2> QED
    BY <1>10, <2>1 DEF JobStore!Disposed
<1>11. CASE UNCHANGED jobVars
  BY <1>11 DEF jobVars
<1> QED
  BY <1>1, <1>2, <1>3, <1>4, <1>5, <1>6, <1>7, <1>8, <1>9, <1>10, <1>11, JobSteps

LEMMA AnnouncedStep == JobInv /\ (JobStore!Next \/ UNCHANGED jobVars) => Announced'
<1> SUFFICES ASSUME JobTyping, Announced, JobStore!Next \/ UNCHANGED jobVars PROVE Announced'
  BY DEF JobInv
<1> USE DEF JobTyping, JobStore!TypeOK, JobStore!waitVars, JobStore!scopeVars, JobStore!jobVars,
            JobStore!Outcomes, JobStore!Over
<1>a. UNCHANGED <<status, announced, closed>> => Announced'
  BY DEF Announced
<1>1. ASSUME NEW job \in Jobs, JobStore!Kill(job) PROVE Announced'
  BY <1>1 DEF JobStore!Kill, Announced
<1>2. ASSUME NEW job \in Jobs, NEW o \in JobStore!Owners, JobStore!Start(job, o) PROVE Announced'
  BY <1>2 DEF JobStore!Start, Announced
<1>3. ASSUME NEW job \in Jobs, NEW result \in JobStore!Outcomes, JobStore!ProducerSettles(job, result)
      PROVE  Announced'
  <2>1. CASE ~JobStore!Over(job) /\ JobStore!Settle({job}, result, status, reported)
    BY <1>3, <2>1 DEF JobStore!ProducerSettles, JobStore!Settle, Announced
  <2>2. CASE UNCHANGED <<status, reported, phase, announced>>
    BY <1>3, <1>a, <2>2 DEF JobStore!ProducerSettles
  <2> QED
    BY <1>3, <2>1, <2>2 DEF JobStore!ProducerSettles, JobStore!Unsettled
<1>4. ASSUME NEW o \in JobStore!Owners, NEW throwers \in SUBSET Jobs, JobStore!Dispose(o, throwers)
      PROVE  Announced'
  <2> DEFINE cancelled == {job \in Jobs : JobStore!Covers(o, job) /\ ~JobStore!Over(job)}
  <2>1. /\ throwers \subseteq cancelled /\ closed' = (closed \/ o = NoOwner)
        /\ status' = [job \in Jobs |-> IF job \in throwers THEN "failed"
                                       ELSE IF job \in cancelled THEN "stopping" ELSE status[job]]
        /\ announced' = [job \in Jobs |-> IF job \in throwers /\ ~closed THEN announced[job] + 1
                                          ELSE announced[job]]
    BY <1>4 DEF JobStore!Dispose, JobStore!Settle, JobStore!ForceFailed, JobStore!Service
  <2> QED
    BY <2>1 DEF Announced
<1>5. ASSUME \/ \E job \in Jobs : JobStore!Read(job)
             \/ \E wait \in JobWaits : JobStore!Wait(wait) \/ JobStore!WaitTimeout(wait)
             \/ \E wait \in JobWaits : JobStore!WaitAbort(wait) \/ JobStore!WaitResumes(wait)
             \/ \E o \in JobStore!Owners : JobStore!Disposed(o)
             \/ UNCHANGED jobVars
      PROVE  Announced'
  BY <1>5, <1>a DEF JobStore!Read, JobStore!Wait, JobStore!WaitTimeout, JobStore!WaitAbort,
                    JobStore!WaitResumes, JobStore!Disposed, jobVars
<1> QED
  BY <1>1, <1>2, <1>3, <1>4, <1>5, JobSteps

(* The wait that a settlement is reported for. *)
LEMMA SettleNoticed ==
  ASSUME JobTyping, NEW jobs \in SUBSET Jobs, NEW result, NEW status0, NEW reported0,
         JobStore!Settle(jobs, result, status0, reported0),
         NEW job \in jobs, \E wait \in counted : target[wait] = job
  PROVE  \E wait \in JobWaits : target[wait] = job /\ phase'[wait] = "resolved"
<1>1. PICK wait \in counted : target[wait] = job
  OBVIOUS
<1>2. wait \in JobWaits /\ phase[wait] \in {"waiting", "resolved"}
  BY DEF JobTyping, JobStore!TypeOK
<1> QED
  BY <1>1, <1>2 DEF JobStore!Settle

LEMMA NoticedStep == JobInv /\ (JobStore!Next \/ UNCHANGED jobVars) => Noticed'
<1> SUFFICES ASSUME JobTyping, Noticed, JobStore!Next \/ UNCHANGED jobVars PROVE Noticed'
  BY DEF JobInv
<1> USE DEF JobTyping, JobStore!TypeOK, JobStore!waitVars, JobStore!scopeVars, JobStore!jobVars,
            JobStore!Outcomes, JobStore!Over
<1>1. ASSUME NEW job \in Jobs, JobStore!Kill(job) \/ JobStore!Read(job) PROVE Noticed'
  BY <1>1 DEF JobStore!Kill, JobStore!Read, Noticed
<1>2. ASSUME NEW job \in Jobs, NEW o \in JobStore!Owners, JobStore!Start(job, o) PROVE Noticed'
  BY <1>2 DEF JobStore!Start, Noticed
<1>3. ASSUME NEW job \in Jobs, NEW result \in JobStore!Outcomes, JobStore!ProducerSettles(job, result)
      PROVE  Noticed'
  <2>1. CASE ~JobStore!Over(job) /\ JobStore!Settle({job}, result, status, reported)
    <3>1. /\ status' = [status EXCEPT ![job] = result] /\ UNCHANGED <<claimed, target, sawEnd>>
          /\ \A wait \in JobWaits : phase[wait] = "resolved" => phase'[wait] = "resolved"
          /\ \A j \in reported' : j \in reported \/ (j = job /\ \E wait \in counted : target[wait] = job)
      BY <1>3, <2>1 DEF JobStore!ProducerSettles, JobStore!Settle
    <3>2. (\E wait \in counted : target[wait] = job) =>
            \E wait \in JobWaits : target[wait] = job /\ phase'[wait] = "resolved"
      BY <2>1, SettleNoticed
    <3> QED
      BY <3>1, <3>2 DEF Noticed
  <2>2. CASE UNCHANGED <<status, reported, phase, announced>>
    BY <1>3, <2>2 DEF JobStore!ProducerSettles, Noticed
  <2> QED
    BY <1>3, <2>1, <2>2 DEF JobStore!ProducerSettles, JobStore!Unsettled
<1>4. ASSUME NEW wait \in JobWaits, JobStore!Wait(wait) PROVE Noticed'
  BY <1>4 DEF JobStore!Wait, Noticed
<1>5. ASSUME NEW wait \in JobWaits, JobStore!WaitTimeout(wait) \/ JobStore!WaitAbort(wait) PROVE Noticed'
  BY <1>5 DEF JobStore!WaitTimeout, JobStore!WaitAbort, Noticed
<1>6. ASSUME NEW wait \in JobWaits, JobStore!WaitResumes(wait) PROVE Noticed'
  BY <1>6 DEF JobStore!WaitResumes, Noticed
<1>7. ASSUME NEW o \in JobStore!Owners, NEW throwers \in SUBSET Jobs, JobStore!Dispose(o, throwers)
      PROVE  Noticed'
  <2> DEFINE cancelled == {job \in Jobs : JobStore!Covers(o, job) /\ ~JobStore!Over(job)}
  <2>1. /\ throwers \subseteq cancelled /\ claimed' = claimed \union cancelled
        /\ UNCHANGED <<target, sawEnd>>
        /\ status' = [job \in Jobs |-> IF job \in throwers THEN "failed"
                                       ELSE IF job \in cancelled THEN "stopping" ELSE status[job]]
        /\ reported' \subseteq reported \union cancelled
        /\ \A wait \in JobWaits : phase[wait] = "resolved" => phase'[wait] = "resolved"
    BY <1>7 DEF JobStore!Dispose, JobStore!Settle, JobStore!ForceFailed
  <2> QED
    BY <2>1 DEF Noticed
<1>8. ASSUME (\E o \in JobStore!Owners : JobStore!Disposed(o)) \/ UNCHANGED jobVars PROVE Noticed'
  BY <1>8 DEF JobStore!Disposed, Noticed, jobVars
<1> QED
  BY <1>1, <1>2, <1>3, <1>4, <1>5, <1>6, <1>7, <1>8, JobSteps

(* Which jobs a step leaves unfinished: those that were, but for a start. *)
LEMMA LiveShrinks ==
  ASSUME JobTyping, Stored, JobStore!Next \/ UNCHANGED jobVars,
         ~\E job \in Jobs, o \in JobStore!Owners : JobStore!Start(job, o)
  PROVE  /\ \A job \in Jobs : JobStore!Live(job)' => JobStore!Live(job)
         /\ \A job \in Jobs : status[job] # "absent" => status'[job] # "absent"
         /\ store' \subseteq store /\ UNCHANGED owner
<1> USE DEF JobTyping, JobStore!TypeOK, JobStore!waitVars, JobStore!scopeVars, JobStore!jobVars,
            JobStore!Outcomes, JobStore!Over, JobStore!Live
<1>1. ASSUME NEW job \in Jobs, JobStore!Kill(job)
      PROVE  \A j \in Jobs : JobStore!Live(j)' => JobStore!Live(j)
  BY <1>1 DEF JobStore!Kill, Stored
<1>2. ASSUME NEW job \in Jobs, JobStore!Kill(job)
      PROVE  /\ \A j \in Jobs : status[j] # "absent" => status'[j] # "absent"
             /\ UNCHANGED <<store, owner>>
  BY <1>2 DEF JobStore!Kill
<1>3. ASSUME NEW job \in Jobs, NEW result \in JobStore!Outcomes, JobStore!ProducerSettles(job, result)
      PROVE  /\ \A j \in Jobs : status'[j] = status[j] \/ status'[j] \in JobStore!Outcomes
             /\ UNCHANGED <<store, owner>>
  BY <1>3 DEF JobStore!ProducerSettles, JobStore!Settle
<1>4. ASSUME NEW o \in JobStore!Owners, NEW throwers \in SUBSET Jobs, JobStore!Dispose(o, throwers)
      PROVE  /\ \A job \in Jobs :
                  \/ status'[job] = status[job]
                  \/ status'[job] = "failed"
                  \/ job \in store /\ ~JobStore!Over(job) /\ status'[job] = "stopping"
             /\ UNCHANGED <<store, owner>>
  <2> DEFINE cancelled == {job \in Jobs : JobStore!Covers(o, job) /\ ~JobStore!Over(job)}
  <2>1. /\ throwers \subseteq cancelled /\ UNCHANGED <<store, owner>>
        /\ status' = [job \in Jobs |-> IF job \in throwers THEN "failed"
                                       ELSE IF job \in cancelled THEN "stopping" ELSE status[job]]
    BY <1>4 DEF JobStore!Dispose, JobStore!Settle, JobStore!ForceFailed
  <2>2. \A job \in cancelled : job \in store /\ ~JobStore!Over(job)
    BY DEF JobStore!Covers
  <2> HIDE DEF cancelled
  <2> QED
    BY <2>1, <2>2
<1>5. ASSUME NEW o \in JobStore!Owners, JobStore!Disposed(o)
      PROVE  UNCHANGED <<status, owner>> /\ store' \subseteq store
  BY <1>5 DEF JobStore!Disposed
<1>6. ASSUME \/ \E job \in Jobs : JobStore!Read(job)
             \/ \E wait \in JobWaits : JobStore!Wait(wait) \/ JobStore!WaitTimeout(wait)
             \/ \E wait \in JobWaits : JobStore!WaitAbort(wait) \/ JobStore!WaitResumes(wait)
             \/ UNCHANGED jobVars
      PROVE  UNCHANGED <<status, store, owner>>
  BY <1>6 DEF JobStore!Read, JobStore!Wait, JobStore!WaitTimeout, JobStore!WaitAbort,
              JobStore!WaitResumes, jobVars
<1>7. CASE \E job \in Jobs : JobStore!Kill(job)
  BY <1>1, <1>2, <1>7
<1>8. CASE \E job \in Jobs, result \in JobStore!Outcomes : JobStore!ProducerSettles(job, result)
  BY <1>3, <1>8
<1>9. CASE \E o \in JobStore!Owners, throwers \in SUBSET Jobs : JobStore!Dispose(o, throwers)
  BY <1>4, <1>9 DEF Stored
<1>10. CASE \E o \in JobStore!Owners : JobStore!Disposed(o)
  BY <1>5, <1>10
<1> QED
  BY <1>6, <1>7, <1>8, <1>9, <1>10, JobSteps

LEMMA StoredStep == JobInv /\ (JobStore!Next \/ UNCHANGED jobVars) => Stored'
<1> SUFFICES ASSUME JobInv, JobStore!Next \/ UNCHANGED jobVars PROVE Stored'
  OBVIOUS
<1> USE DEF JobInv
<1>1. ASSUME NEW job \in Jobs, NEW o \in JobStore!Owners, JobStore!Start(job, o) PROVE Stored'
  BY <1>1 DEF JobStore!Start, Stored, JobTyping, JobStore!TypeOK, JobStore!Live
<1>2. ASSUME NEW o \in JobStore!Owners, JobStore!Disposed(o) PROVE Stored'
  <2>1. /\ UNCHANGED <<status, owner>> /\ scope[o] = "disposing"
        /\ \A job \in closing[o] : JobStore!Over(job)
        /\ store' = IF o = NoOwner THEN {} ELSE store \ closing[o]
    BY <1>2 DEF JobStore!Disposed, JobStore!Awaits, JobStore!Service
  <2>2. \A job \in Jobs : JobStore!Over(job) => ~JobStore!Live(job)
    BY DEF JobStore!Over, JobStore!Live, JobStore!Outcomes
  <2>3. ASSUME NEW job \in Jobs, JobStore!Live(job) PROVE job \in store /\ job \notin closing[o] /\ o # NoOwner
    <3>1. job \in store /\ job \notin closing[o]
      BY <2>1, <2>2, <2>3 DEF Stored
    <3>2. o # NoOwner
      BY <2>1, <2>3, <3>1 DEF TornDown
    <3> QED
      BY <3>1, <3>2
  <2>4. \A job \in Jobs : JobStore!Live(job)' <=> JobStore!Live(job)
    BY <2>1 DEF JobStore!Live
  <2> QED
    BY <2>1, <2>3, <2>4 DEF Stored
<1>3. ASSUME ~\E job \in Jobs, o \in JobStore!Owners : JobStore!Start(job, o), UNCHANGED store PROVE Stored'
  BY <1>3, LiveShrinks DEF Stored
<1>4. ASSUME ~\E o \in JobStore!Owners : JobStore!Disposed(o),
             ~\E job \in Jobs, o \in JobStore!Owners : JobStore!Start(job, o)
      PROVE  UNCHANGED store
  BY <1>4, JobSteps DEF JobStore!Kill, JobStore!Read, JobStore!ProducerSettles, JobStore!Wait,
       JobStore!WaitTimeout, JobStore!WaitAbort, JobStore!WaitResumes, JobStore!Dispose, jobVars,
       JobStore!jobVars
<1> QED
  BY <1>1, <1>2, <1>3, <1>4

LEMMA TornDownStep == JobInv /\ (JobStore!Next \/ UNCHANGED jobVars) => TornDown'
<1> SUFFICES ASSUME JobInv, JobStore!Next \/ UNCHANGED jobVars PROVE TornDown'
  OBVIOUS
<1> USE DEF JobInv
<1>1. ASSUME NEW job \in Jobs, NEW o \in JobStore!Owners, JobStore!Start(job, o) PROVE TornDown'
  <2>1. /\ status[job] = "absent" /\ scope[o] = "live" /\ scope[NoOwner] = "live"
        /\ status' = [status EXCEPT ![job] = "running"] /\ owner' = [owner EXCEPT ![job] = o]
        /\ store' = store \union {job} /\ UNCHANGED <<scope, closing>>
    BY <1>1 DEF JobStore!Start, JobStore!Service, JobStore!scopeVars
  <2>2. \A j \in Jobs \ {job} : /\ owner'[j] = owner[j] /\ (j \in store' <=> j \in store)
                                /\ JobStore!Live(j)' <=> JobStore!Live(j)
    BY <2>1 DEF JobTyping, JobStore!TypeOK, JobStore!Live
  <2>3. owner'[job] = o
    BY <2>1 DEF JobTyping, JobStore!TypeOK
  <2> QED
    BY <2>1, <2>2, <2>3 DEF TornDown
<1>2. ASSUME NEW o \in JobStore!Owners, NEW throwers \in SUBSET Jobs, JobStore!Dispose(o, throwers)
      PROVE  TornDown'
  <2>1. /\ scope' = [scope EXCEPT ![o] = "disposing"]
        /\ closing' = [closing EXCEPT ![o] = {job \in Jobs : JobStore!Covers(o, job)}]
        /\ UNCHANGED <<owner, store>>
    BY <1>2 DEF JobStore!Dispose
  <2>2. \A job \in Jobs : JobStore!Live(job)' => JobStore!Live(job) /\ job \in store
    BY <1>2, LiveShrinks DEF JobStore!Dispose, JobStore!Start, Stored
  <2>3. \A job \in Jobs : job \in store' \/ JobStore!Live(job)' => job \in store
    BY <2>1, <2>2
  <2> QED
    BY <2>1, <2>3 DEF TornDown, JobStore!Covers, JobStore!Service, JobTyping, JobStore!TypeOK
<1>3. ASSUME NEW o \in JobStore!Owners, JobStore!Disposed(o) PROVE TornDown'
  <2>1. /\ UNCHANGED <<status, owner, closing>> /\ scope' = [scope EXCEPT ![o] = "gone"]
        /\ scope[o] = "disposing"
        /\ \A job \in closing[o] : JobStore!Over(job)
        /\ store' = IF o = NoOwner THEN {} ELSE store \ closing[o]
    BY <1>3 DEF JobStore!Disposed, JobStore!Awaits, JobStore!Service
  <2>2. \A job \in Jobs : /\ JobStore!Over(job) => ~JobStore!Live(job)
                          /\ JobStore!Live(job)' <=> JobStore!Live(job)
    BY <2>1 DEF JobStore!Over, JobStore!Live, JobStore!Outcomes
  <2>3. ASSUME NEW job \in Jobs, o = NoOwner \/ owner[job] = o PROVE job \notin store' /\ ~JobStore!Live(job)
    BY <2>1, <2>2, <2>3 DEF TornDown
  <2>4. \A job \in Jobs : job \in store' => job \in store
    BY <2>1
  <2> QED
    BY <2>1, <2>2, <2>3, <2>4 DEF TornDown, JobTyping, JobStore!TypeOK
<1>4. ASSUME ~\E job \in Jobs, o \in JobStore!Owners : JobStore!Start(job, o), UNCHANGED <<scope, closing>>
      PROVE  TornDown'
  BY <1>4, LiveShrinks DEF TornDown
<1>5. ASSUME ~\E o \in JobStore!Owners : JobStore!Disposed(o),
             ~\E job \in Jobs, o \in JobStore!Owners : JobStore!Start(job, o),
             ~\E o \in JobStore!Owners, throwers \in SUBSET Jobs : JobStore!Dispose(o, throwers)
      PROVE  UNCHANGED <<scope, closing>>
  BY <1>5, JobSteps DEF JobStore!Kill, JobStore!Read, JobStore!ProducerSettles, JobStore!Wait,
       JobStore!WaitTimeout, JobStore!WaitAbort, JobStore!WaitResumes, jobVars, JobStore!scopeVars
<1> QED
  BY <1>1, <1>2, <1>3, <1>4, <1>5

LEMMA LimitStep ==
  JobInv /\ (JobStore!Next \/ UNCHANGED jobVars) => (JobStore!LimitRespected)'
<1> SUFFICES ASSUME JobInv, JobStore!Next \/ UNCHANGED jobVars, NEW o \in JobStore!Owners
             PROVE  Cardinality(JobStore!Active(o)') <= Limit
  BY SameSets, Zenon DEF JobStore!LimitRespected, JobStore!Active
<1> USE SameSets DEF JobInv, JobStore!Active
<1>0. /\ IsFiniteSet(JobStore!Active(o)) /\ Cardinality(JobStore!Active(o)) <= Limit
      /\ Cardinality(JobStore!Active(o)) \in Nat /\ Limit \in Nat
  <2>1. IsFiniteSet(JobStore!Active(o))
    BY FS_Subset DEF JobTyping
  <2> QED
    <3>1. Cardinality(JobStore!Active(o)) <= Limit
      BY DEF JobStore!LimitRespected
    <3> QED
      BY <2>1, <3>1, FS_CardinalityType, JobBounds DEF JobStore!RegistryAssumption
<1>1. ASSUME NEW job \in Jobs, NEW p \in JobStore!Owners, JobStore!Start(job, p)
      PROVE  Cardinality(JobStore!Active(o)') <= Limit
  <2>1. /\ status[job] = "absent" /\ Cardinality(JobStore!Active(p)) < Limit
        /\ status' = [status EXCEPT ![job] = "running"] /\ owner' = [owner EXCEPT ![job] = p]
        /\ store' = store \union {job}
    BY <1>1 DEF JobStore!Start
  <2>2. \A j \in Jobs \ {job} : owner'[j] = owner[j] /\ (JobStore!Live(j)' <=> JobStore!Live(j))
    BY <2>1 DEF JobTyping, JobStore!TypeOK, JobStore!Live
  <2>3. owner'[job] = p /\ job \notin store /\ store' \subseteq Jobs
    BY <2>1 DEF JobTyping, JobStore!TypeOK, Stored
  <2>4. CASE o = p
    <3>1. JobStore!Active(o)' \subseteq JobStore!Active(o) \union {job}
      BY <2>1, <2>2, <2>3
    <3>2. /\ IsFiniteSet(JobStore!Active(o) \union {job})
          /\ Cardinality(JobStore!Active(o) \union {job}) = Cardinality(JobStore!Active(o)) + 1
      BY <1>0, <2>3, FS_AddElement
    <3>3. Cardinality(JobStore!Active(o)') <= Cardinality(JobStore!Active(o) \union {job})
      BY <3>1, <3>2, FS_Subset
    <3>4. Cardinality(JobStore!Active(o)') \in Nat
      BY <3>1, <3>2, FS_Subset, FS_CardinalityType
    <3> QED
      BY <1>0, <2>1, <2>4, <3>2, <3>3, <3>4
  <2>5. CASE o # p
    <3>1. JobStore!Active(o)' = JobStore!Active(o)
      BY <2>1, <2>2, <2>3, <2>5
    <3> QED
      BY <1>0, <3>1
  <2> QED
    BY <2>4, <2>5
<1>2. ASSUME ~\E job \in Jobs, p \in JobStore!Owners : JobStore!Start(job, p)
      PROVE  Cardinality(JobStore!Active(o)') <= Limit
  <2>1. JobStore!Active(o)' \subseteq JobStore!Active(o)
    BY <1>2, LiveShrinks DEF JobTyping, JobStore!TypeOK
  <2>2. /\ IsFiniteSet(JobStore!Active(o)')
        /\ Cardinality(JobStore!Active(o)') <= Cardinality(JobStore!Active(o))
    BY <1>0, <2>1, FS_Subset
  <2>3. Cardinality(JobStore!Active(o)') \in Nat
    BY <2>2, FS_CardinalityType
  <2> QED
    BY <1>0, <2>2, <2>3
<1> QED
  BY <1>1, <1>2

LEMMA JobInit == JobStore!Init => JobInv
<1> SUFFICES ASSUME JobStore!Init PROVE JobInv
  OBVIOUS
<1> USE DEF JobStore!Init
<1>1. JobTyping
  <2>1. IsFiniteSet(store)
    BY FS_EmptySet
  <2>2. /\ status \in [Jobs -> {"absent"}] /\ owner \in [Jobs -> JobStore!Owners]
        /\ announced \in [Jobs -> Nat] /\ closing \in [JobStore!Owners -> SUBSET Jobs]
    BY DEF JobStore!Owners
  <2>3. /\ phase \in [JobWaits -> {"unused"}] /\ target \in [JobWaits -> Jobs]
        /\ scope \in [JobStore!Owners -> {"live"}] /\ closed \in BOOLEAN
    OBVIOUS
  <2> QED
    BY <2>1, <2>2, <2>3 DEF JobTyping, JobStore!TypeOK
<1>2. Announced /\ Noticed /\ Stored /\ TornDown
  BY DEF Announced, Noticed, Stored, TornDown, JobStore!Over, JobStore!Outcomes, JobStore!Live
<1>3. JobStore!LimitRespected
  <2>1. ASSUME NEW o \in JobStore!Owners
        PROVE  {job \in store : owner[job] = o /\ JobStore!Live(job)} = {}
    OBVIOUS
  <2>2. Cardinality({}) = 0 /\ Limit \in Nat
    BY FS_EmptySet, JobBounds DEF JobStore!RegistryAssumption
  <2> QED
    BY <2>1, <2>2, SameSets, JobBounds DEF JobStore!LimitRespected, JobStore!RegistryAssumption
<1> QED
  BY <1>1, <1>2, <1>3 DEF JobInv

LEMMA JobsAreSafe == JobInv => JobStore!JobsSafe
<1> SUFFICES ASSUME JobInv PROVE JobStore!JobsSafe
  OBVIOUS
<1> USE DEF JobInv
<1>1. JobStore!AnnouncedOnce
  BY DEF Announced, JobStore!AnnouncedOnce
<1>2. JobStore!NoticeNotSwallowed
  BY DEF Noticed, JobStore!NoticeNotSwallowed
<1>3. JobStore!DisposedLeavesNothing
  BY DEF TornDown, JobStore!DisposedLeavesNothing, JobStore!Service
<1> QED
  BY <1>1, <1>2, <1>3 DEF JobTyping, JobStore!JobsSafe

LEMMA JobInvStep == JobInv /\ (JobStore!Next \/ UNCHANGED jobVars) => JobInv'
BY JobTypingStep, AnnouncedStep, NoticedStep, StoredStep, TornDownStep, LimitStep DEF JobInv

(* However settlements, waits, kills, reads and teardowns interleave: a job is *)
(* announced once, no notice is swallowed by a wait that gave up, an owner      *)
(* keeps to its limit, and a disposed owner leaves no job behind: the run's     *)
(* JobsHold, for any jobs, owners, waits and limit.                             *)
THEOREM JobsAlwaysHold == MCSpec => []JobsHold
<1>1. MCInit => JobInv
  BY JobInit DEF MCInit
<1>2. JobInv /\ [MCNext]_<<part, vars, codeVars, askVars, jobVars>> => JobInv'
  BY JobInvStep DEF MCNext
<1>3. JobInv => JobsHold
  BY JobsAreSafe DEF JobsHold
<1> QED
  BY <1>1, <1>2, <1>3, PTL DEF MCSpec

--------------------------------------------------------------------------------
(* The dispatch of a program's calls *)

Places == {"off", "ready", "prepare", "commit", "backlog", "asleep"}

CodeTyping ==
  /\ registry \in [Code!Calls -> Code!Modes] /\ codeStartMode \in [Code!Calls -> Code!Modes]
  /\ codeStarted \in Nat /\ taken \in Nat /\ submitted \in Nat
  /\ codeStarted <= taken /\ taken <= submitted /\ submitted <= CodeCalls
  /\ codeRunning \subseteq codeInFlight /\ codeInFlight \subseteq 1..codeStarted
  /\ settled \subseteq 1..codeStarted /\ codeRunning \cap settled = {}
  /\ answers \in [Code!Calls -> {"none", "value", "discarded", "rejected"}]
  /\ codePc \in Places /\ run \in {"program", "draining", "closed"}
  /\ barrier \in BOOLEAN /\ codeAborted \in BOOLEAN

(* The calls are committed in the order in which they were started. *)
Lined ==
  /\ commits \in Seq(Nat) /\ commitQueue \in Seq(Nat)
  /\ Len(commits) + Len(commitQueue) = codeStarted
  /\ \A i \in 1..Len(commits) : commits[i] = i
  /\ \A i \in 1..Len(commitQueue) : commitQueue[i] = Len(commits) + i
  /\ codePc \in {"commit", "backlog"} => Len(commits) # 0
  /\ codePc = "prepare" => Len(commitQueue) # 0

(* A started call's body runs or its outcome is parked, once its policy is over. *)
Pooled ==
  /\ \A c \in 1..codeStarted :
       c \in codeRunning \/ c \in settled \/ (codePc = "prepare" /\ c = codeStarted)
  /\ 1..Len(commits) \subseteq settled
  /\ codePc = "prepare" => codeStarted \notin codeRunning \union settled

(* The first of the calls between the start of a policy and the end of a commit: *)
(* they are First..codeStarted.                                                   *)
First == IF codePc \in {"commit", "backlog"} THEN Len(commits) ELSE Len(commits) + 1

(* The barrier is up for the one exclusive call among them. *)
Single ==
  /\ \A c \in First..codeStarted : codeStartMode[c] = "exclusive" =>
       barrier /\ c = First /\ c = codeStarted
  /\ barrier => First <= codeStarted /\ codeStartMode[codeStarted] = "exclusive"

Crowd ==
  /\ Cardinality(codeInFlight) <= CodeParallel
  /\ codePc = "prepare" => Cardinality(codeInFlight) < CodeParallel
  /\ Cardinality(logging) <= CodeParallel + 1
  /\ codePc # "backlog" => Cardinality(logging) <= CodeParallel

Resting ==
  /\ ~codeAborted => taken = codeStarted
  /\ codePc = "asleep" => codeInFlight # {}
  /\ codePc = "off" => taken = submitted /\ commitQueue = <<>> /\ codeInFlight = {}
  /\ run = "closed" => codePc = "off" /\ logging = {}

(* The last call whose commit has been completed. *)
Committed == IF codePc = "commit" THEN Len(commits) - 1 ELSE Len(commits)

(* The program has the answers, and the log or its backlog the events, of the *)
(* calls that were committed; the calls that never started were refused.      *)
Heard ==
  /\ logging \union settleLog = 1..Committed
  /\ \A c \in Code!Calls :
       /\ c <= Committed => answers[c] \in {"value", "discarded"}
       /\ codeStarted < c /\ c <= taken => answers[c] = "rejected"

CodeInv == CodeTyping /\ Lined /\ Pooled /\ Single /\ Crowd /\ Resting /\ Heard

LEMMA SameCounts ==
  /\ \A S : Code!Cardinality(S) = Cardinality(S)
  /\ \A S : Code!IsFiniteSet(S) <=> IsFiniteSet(S)
BY DEF Code!Cardinality, Cardinality, Code!IsFiniteSet, IsFiniteSet

LEMMA CodeSteps ==
  ASSUME Code!Next \/ UNCHANGED codeVars
  PROVE  \/ Code!Commits \/ Code!Abandons \/ Code!Starts \/ Code!Rests \/ Code!PrepareEnds
         \/ Code!CommitEnds \/ Code!BacklogClears
         \/ Code!Submit \/ Code!Abort \/ Code!RunEnds \/ Code!Closes
         \/ \E c \in Code!Calls : Code!BodySettles(c) \/ Code!FlightEnds(c)
         \/ \E c \in Code!Calls : Code!LogEnds(c) \/ Code!Reclassify(c)
         \/ UNCHANGED codeVars
BY DEF Code!Next, Code!Lane

(* What a commit that begins and a call that starts make of the two queues. *)
LEMMA CommitBegins ==
  ASSUME CodeTyping, Lined, Code!Commits
  PROVE  /\ commits' \in Seq(Nat) /\ commitQueue' \in Seq(Nat)
         /\ Len(commits') = Len(commits) + 1 /\ Len(commitQueue') = Len(commitQueue) - 1
         /\ \A i \in 1..Len(commits') : commits'[i] = i
         /\ \A i \in 1..Len(commitQueue') : commitQueue'[i] = Len(commits') + i
         /\ Len(commits) \in Nat /\ Len(commitQueue) \in Nat \ {0}
         /\ Len(commits) + 1 \in settled
<1>1. commitQueue # <<>> /\ Head(commitQueue) \in settled
      /\ commitQueue' = Tail(commitQueue) /\ commits' = Append(commits, Head(commitQueue))
  BY DEF Code!Commits, Code!Due
<1>2. Len(commits) \in Nat /\ Len(commitQueue) \in Nat \ {0}
  BY <1>1, LenProperties, EmptySeq DEF Lined
<1>3. Head(commitQueue) = Len(commits) + 1
  BY <1>1, <1>2 DEF Lined
<1>4. /\ commitQueue' \in Seq(Nat) /\ Len(commitQueue') = Len(commitQueue) - 1
      /\ \A i \in 1..Len(commitQueue') : commitQueue'[i] = commitQueue[i + 1]
  BY <1>1, <1>2, HeadTailProperties DEF Lined
<1>5. \A i \in 1..Len(commitQueue') : commitQueue'[i] = Len(commits) + 1 + i
  BY <1>2, <1>4 DEF Lined
<1>6. /\ commits' \in Seq(Nat) /\ Len(commits') = Len(commits) + 1
      /\ \A i \in 1..Len(commits) : commits'[i] = commits[i]
      /\ commits'[Len(commits) + 1] = Len(commits) + 1
  BY <1>1, <1>2, <1>3, AppendProperties DEF Lined
<1>7. ASSUME NEW i \in 1..Len(commits')
      PROVE  commits'[i] = i
  <2>1. i \in 1..Len(commits) \/ i = Len(commits) + 1
    BY <1>2, <1>6
  <2>2. \A k \in 1..Len(commits) : commits[k] = k
    BY DEF Lined
  <2> QED
    BY <1>6, <2>1, <2>2
<1> QED
  BY <1>1, <1>2, <1>3, <1>4, <1>5, <1>6, <1>7

LEMMA CallStarts ==
  ASSUME CodeTyping, Lined, Resting, Code!Starts
  PROVE  /\ commitQueue' \in Seq(Nat) /\ Len(commitQueue') = Len(commitQueue) + 1
         /\ \A i \in 1..Len(commitQueue') : commitQueue'[i] = Len(commits) + i
         /\ Len(commits) \in Nat /\ Len(commitQueue) \in Nat
         /\ codeStarted' = codeStarted + 1 /\ taken = codeStarted /\ taken' = taken + 1
         /\ taken + 1 \in Code!Calls /\ ~codeAborted
<1>1. /\ commitQueue' = Append(commitQueue, taken + 1) /\ ~codeAborted /\ taken < submitted
      /\ codeStarted' = codeStarted + 1 /\ taken' = taken + 1
  BY DEF Code!Starts, Code!MayStart
<1>2. taken = codeStarted /\ taken + 1 \in Code!Calls /\ taken + 1 \in Nat
  <2>1. taken = codeStarted
    BY <1>1 DEF Resting
  <2>2. taken \in Nat /\ submitted \in Nat /\ submitted <= CodeCalls /\ CodeCalls \in Nat
    BY CodeBounds DEF CodeTyping, Code!CodeDispatchAssumption
  <2> QED
    BY <1>1, <2>1, <2>2 DEF Code!Calls
<1>3. Len(commits) \in Nat /\ Len(commitQueue) \in Nat
  BY LenProperties DEF Lined
<1>4. /\ commitQueue' \in Seq(Nat) /\ Len(commitQueue') = Len(commitQueue) + 1
      /\ \A i \in 1..Len(commitQueue) : commitQueue'[i] = commitQueue[i]
      /\ commitQueue'[Len(commitQueue) + 1] = taken + 1
  BY <1>1, <1>2, <1>3, AppendProperties DEF Lined
<1>5. ASSUME NEW i \in 1..Len(commitQueue')
      PROVE  commitQueue'[i] = Len(commits) + i
  <2>1. i \in 1..Len(commitQueue) \/ i = Len(commitQueue) + 1
    BY <1>3, <1>4
  <2>2. /\ \A k \in 1..Len(commitQueue) : commitQueue[k] = Len(commits) + k
        /\ Len(commits) + Len(commitQueue) = codeStarted
    BY DEF Lined
  <2>3. CASE i \in 1..Len(commitQueue)
    BY <1>4, <2>2, <2>3
  <2>4. CASE i = Len(commitQueue) + 1
    BY <1>2, <1>3, <1>4, <2>2, <2>4
  <2> QED
    BY <2>1, <2>3, <2>4
<1> QED
  BY <1>1, <1>2, <1>3, <1>4, <1>5

LEMMA CodeTypingStep ==
  ASSUME CodeTyping, Lined, Pooled, Resting, Code!Next \/ UNCHANGED codeVars
  PROVE  CodeTyping'
<1>0. /\ CodeCalls \in Nat /\ codeStarted \in Nat /\ taken \in Nat /\ submitted \in Nat
      /\ Code!Calls = 1..CodeCalls /\ Code!Modes = {"parallel", "exclusive"}
  BY CodeBounds DEF CodeTyping, Code!CodeDispatchAssumption, Code!Calls, Code!Modes
<1>1. CASE Code!Commits
  BY <1>1 DEF CodeTyping, Places, Code!Commits, Code!env, Code!queues, Code!pool
<1>2. CASE Code!Abandons
  <2>1. taken' = taken + 1 /\ taken + 1 \in Code!Calls /\ taken < submitted
    BY <1>0, <1>2 DEF CodeTyping, Code!Abandons
  <2>2. answers' \in [Code!Calls -> {"none", "value", "discarded", "rejected"}]
    BY <1>2, <2>1 DEF CodeTyping, Code!Abandons
  <2> QED
    BY <1>0, <1>2, <2>1, <2>2 DEF CodeTyping, Code!Abandons, Code!env, Code!pool
<1>3. CASE Code!Starts
  <2>1. /\ codeStarted' = codeStarted + 1 /\ taken' = codeStarted + 1 /\ taken < submitted
        /\ taken = codeStarted /\ taken + 1 \in Code!Calls
    BY <1>3, CallStarts DEF Code!Starts
  <2>2. registry[taken + 1] \in Code!Modes /\ barrier' \in BOOLEAN
    BY <1>3, <2>1 DEF CodeTyping, Code!Starts, Code!Opens
  <2>3. codeStartMode' \in [Code!Calls -> Code!Modes] /\ codePc' \in Places
    BY <1>3, <2>1, <2>2 DEF CodeTyping, Code!Starts, Places
  <2>4. 1..codeStarted \subseteq 1..codeStarted'
    BY <1>0, <2>1
  <2> QED
    BY <1>0, <1>3, <2>1, <2>2, <2>3, <2>4 DEF CodeTyping, Code!Starts, Code!env, Code!pool
<1>4. CASE Code!Rests
  BY <1>4 DEF CodeTyping, Places, Code!Rests, Code!env, Code!queues, Code!pool
<1>5. CASE Code!PrepareEnds
  <2>1. codeStarted \in 1..codeStarted
    <3>1. Len(commitQueue) # 0 /\ Len(commits) \in Nat /\ Len(commitQueue) \in Nat
      BY <1>5, LenProperties DEF Lined, Code!PrepareEnds
    <3>2. Len(commits) + Len(commitQueue) = codeStarted
      BY DEF Lined
    <3> QED
      BY <1>0, <3>1, <3>2
  <2> QED
    BY <1>5, <2>1 DEF CodeTyping, Pooled, Places, Code!PrepareEnds, Code!env, Code!queues
<1>6. CASE Code!CommitEnds
  <2>1. answers' \in [Code!Calls -> {"none", "value", "discarded", "rejected"}]
    BY <1>6 DEF CodeTyping, Code!CommitEnds
  <2> QED
    BY <1>6, <2>1 DEF CodeTyping, Places, Code!CommitEnds, Code!env, Code!queues, Code!pool
<1>7. CASE Code!BacklogClears
  BY <1>7 DEF CodeTyping, Places, Code!BacklogClears, Code!env, Code!queues, Code!pool
<1>8. CASE Code!Submit
  BY <1>0, <1>8 DEF CodeTyping, Places, Code!Submit, Code!Woken, Code!env, Code!pool
<1>9. CASE Code!Abort \/ Code!RunEnds \/ Code!Closes
  BY <1>9 DEF CodeTyping, Code!Abort, Code!RunEnds, Code!Closes, Code!env, Code!queues, Code!pool
<1>10. CASE \E c \in Code!Calls : Code!BodySettles(c) \/ Code!FlightEnds(c)
  BY <1>10 DEF CodeTyping, Places, Code!BodySettles, Code!FlightEnds, Code!Woken, Code!env, Code!queues
<1>11. CASE \E c \in Code!Calls : Code!LogEnds(c) \/ Code!Reclassify(c)
  <2> PICK c \in Code!Calls : Code!LogEnds(c) \/ Code!Reclassify(c)
    BY <1>11
  <2>1. registry' \in [Code!Calls -> Code!Modes]
    <3>1. CASE Code!LogEnds(c)
      BY <3>1 DEF CodeTyping, Code!LogEnds, Code!env
    <3>2. CASE Code!Reclassify(c)
      <4>1. (CHOOSE m \in Code!Modes : m # registry[c]) \in Code!Modes
        BY <1>0
      <4> QED
        BY <3>2, <4>1 DEF CodeTyping, Code!Reclassify
    <3> QED
      BY <3>1, <3>2
  <2> QED
    BY <2>1 DEF CodeTyping, Code!LogEnds, Code!Reclassify, Code!env, Code!queues, Code!pool
<1>12. CASE UNCHANGED codeVars
  BY <1>12 DEF CodeTyping, codeVars
<1> QED
  BY CodeSteps, <1>1, <1>2, <1>3, <1>4, <1>5, <1>6, <1>7, <1>8, <1>9, <1>10, <1>11, <1>12

LEMMA LinedStep ==
  ASSUME CodeTyping, Lined, Resting, Code!Next \/ UNCHANGED codeVars
  PROVE  Lined'
<1>0. codeStarted \in Nat /\ Len(commits) \in Nat /\ Len(commitQueue) \in Nat
  BY LenProperties DEF CodeTyping, Lined
<1>1. CASE Code!Commits
  <2>1. codeStarted' = codeStarted /\ codePc' = "commit"
    BY <1>1 DEF Code!Commits, Code!queues
  <2>2. Len(commits') + Len(commitQueue') = codeStarted' /\ Len(commits') # 0
    <3>1. Len(commits') = Len(commits) + 1 /\ Len(commitQueue') = Len(commitQueue) - 1
      BY <1>1, CommitBegins
    <3>2. Len(commits) + Len(commitQueue) = codeStarted
      BY DEF Lined
    <3> QED
      BY <1>0, <2>1, <3>1, <3>2
  <2> QED
    BY <1>1, <2>1, <2>2, CommitBegins DEF Lined
<1>2. CASE Code!Starts
  <2>1. commits' = commits /\ codePc' = "prepare"
    BY <1>2 DEF Code!Starts
  <2>2. Len(commits') + Len(commitQueue') = codeStarted' /\ Len(commitQueue') # 0
    <3>1. Len(commitQueue') = Len(commitQueue) + 1 /\ codeStarted' = codeStarted + 1
      BY <1>2, CallStarts
    <3>2. Len(commits) + Len(commitQueue) = codeStarted
      BY DEF Lined
    <3> QED
      BY <1>0, <2>1, <3>1, <3>2
  <2>3. /\ commitQueue' \in Seq(Nat)
        /\ \A i \in 1..Len(commitQueue') : commitQueue'[i] = Len(commits) + i
    BY <1>2, CallStarts
  <2> QED
    BY <2>1, <2>2, <2>3 DEF Lined
<1>3. CASE Code!Abandons \/ Code!Rests \/ Code!PrepareEnds \/ Code!CommitEnds \/ Code!BacklogClears
  BY <1>3 DEF Lined, Code!Abandons, Code!Rests, Code!PrepareEnds, Code!CommitEnds,
              Code!BacklogClears, Code!queues
<1>4. CASE Code!Submit \/ Code!Abort \/ Code!RunEnds \/ Code!Closes
  BY <1>4 DEF Lined, Code!Submit, Code!Abort, Code!RunEnds, Code!Closes, Code!Woken, Code!queues
<1>5. CASE \E c \in Code!Calls : Code!BodySettles(c) \/ Code!FlightEnds(c)
  BY <1>5 DEF Lined, Code!BodySettles, Code!FlightEnds, Code!Woken, Code!queues
<1>6. CASE \E c \in Code!Calls : Code!LogEnds(c) \/ Code!Reclassify(c)
  BY <1>6 DEF Lined, Code!LogEnds, Code!Reclassify, Code!queues
<1>7. CASE UNCHANGED codeVars
  BY <1>7 DEF Lined, codeVars
<1> QED
  BY CodeSteps, <1>1, <1>2, <1>3, <1>4, <1>5, <1>6, <1>7

LEMMA PooledStep ==
  ASSUME CodeTyping, Lined, Pooled, Resting, Code!Next \/ UNCHANGED codeVars
  PROVE  Pooled'
<1>0. codeStarted \in Nat /\ Len(commits) \in Nat /\ Len(commitQueue) \in Nat
  BY LenProperties DEF CodeTyping, Lined
<1>1. CASE Code!Commits
  <2>1. /\ codePc = "ready" /\ codePc' = "commit" /\ codeStarted' = codeStarted
        /\ settled' = settled /\ codeRunning' = codeRunning
    BY <1>1 DEF Code!Commits, Code!queues, Code!pool
  <2>2. Len(commits') = Len(commits) + 1 /\ Len(commits) + 1 \in settled
    BY <1>1, CommitBegins
  <2>3. 1..Len(commits') \subseteq settled
    BY <1>0, <2>2 DEF Pooled
  <2> QED
    BY <2>1, <2>3 DEF Pooled
<1>2. CASE Code!Starts
  <2>1. /\ codePc = "ready" /\ codePc' = "prepare" /\ codeStarted' = codeStarted + 1
        /\ settled' = settled /\ codeRunning' = codeRunning /\ commits' = commits
    BY <1>2 DEF Code!Starts, Code!pool
  <2>2. settled \subseteq 1..codeStarted /\ codeRunning \subseteq 1..codeStarted
    BY DEF CodeTyping
  <2>3. codeStarted' \notin codeRunning \union settled
    BY <1>0, <2>1, <2>2
  <2>4. \A c \in 1..codeStarted' : c \in 1..codeStarted \/ c = codeStarted'
    BY <1>0, <2>1
  <2> QED
    BY <2>1, <2>3, <2>4 DEF Pooled
<1>3. CASE Code!PrepareEnds
  BY <1>3 DEF Pooled, Code!PrepareEnds, Code!queues
<1>4. CASE Code!Abandons \/ Code!Rests \/ Code!CommitEnds \/ Code!BacklogClears
  BY <1>4 DEF Pooled, Code!Abandons, Code!Rests, Code!CommitEnds, Code!BacklogClears,
              Code!queues, Code!pool
<1>5. CASE Code!Submit \/ Code!Abort \/ Code!RunEnds \/ Code!Closes
  BY <1>5 DEF Pooled, Code!Submit, Code!Abort, Code!RunEnds, Code!Closes, Code!Woken,
              Code!queues, Code!pool
<1>6. CASE \E c \in Code!Calls : Code!BodySettles(c) \/ Code!FlightEnds(c)
  BY <1>6 DEF Pooled, Code!BodySettles, Code!FlightEnds, Code!Woken, Code!queues
<1>7. CASE \E c \in Code!Calls : Code!LogEnds(c) \/ Code!Reclassify(c)
  BY <1>7 DEF Pooled, Code!LogEnds, Code!Reclassify, Code!queues, Code!pool
<1>8. CASE UNCHANGED codeVars
  BY <1>8 DEF Pooled, codeVars
<1> QED
  BY CodeSteps, <1>1, <1>2, <1>3, <1>4, <1>5, <1>6, <1>7, <1>8

(* With nothing in flight the lane has nothing left to commit. *)
LEMMA QuietIsCommitted ==
  ASSUME CodeTyping, Lined, Pooled, codePc = "ready", ~Code!Due, codeInFlight = {}
  PROVE  commitQueue = <<>> /\ Len(commits) = codeStarted /\ First = codeStarted + 1
<1>1. codeStarted \in Nat /\ Len(commits) \in Nat /\ Len(commitQueue) \in Nat
  BY LenProperties DEF CodeTyping, Lined
<1>2. commitQueue = <<>>
  <2> SUFFICES ASSUME commitQueue # <<>> PROVE FALSE
    OBVIOUS
  <2>1. Len(commitQueue) # 0 /\ Head(commitQueue) = commitQueue[1]
    BY EmptySeq DEF Lined
  <2>2. Head(commitQueue) = Len(commits) + 1 /\ Len(commits) + 1 \in 1..codeStarted
    BY <1>1, <2>1 DEF Lined
  <2>3. Len(commits) + 1 \in settled
    BY <2>2 DEF Pooled, CodeTyping
  <2> QED
    BY <2>2, <2>3 DEF Code!Due
<1>3. Len(commitQueue) = 0
  BY <1>2
<1> QED
  BY <1>1, <1>2, <1>3 DEF Lined, First

LEMMA SingleStep ==
  ASSUME CodeTyping, Lined, Pooled, Single, Resting, Code!Next \/ UNCHANGED codeVars
  PROVE  Single'
<1>0. codeStarted \in Nat /\ Len(commits) \in Nat /\ First \in Nat
  BY LenProperties DEF CodeTyping, Lined, First
<1>1. CASE Code!Commits
  <2>1. /\ codePc = "ready" /\ codePc' = "commit" /\ codeStarted' = codeStarted
        /\ barrier' = barrier /\ codeStartMode' = codeStartMode
    BY <1>1 DEF Code!Commits, Code!queues
  <2>2. First' = First
    BY <1>1, <2>1, CommitBegins DEF First
  <2> QED
    BY <2>1, <2>2 DEF Single
<1>2. CASE Code!Starts
  <2>1. /\ codePc = "ready" /\ codePc' = "prepare" /\ commits' = commits /\ ~Code!Due
        /\ Code!HasRoom(registry[taken + 1]) /\ barrier' = Code!Opens(registry[taken + 1])
        /\ codeStartMode' = [codeStartMode EXCEPT ![taken + 1] = registry[taken + 1]]
    BY <1>2 DEF Code!Starts
  <2>2. taken = codeStarted /\ codeStarted' = codeStarted + 1 /\ taken + 1 \in Code!Calls
    BY <1>2, CallStarts
  <2>3. First' = First
    BY <2>1 DEF First
  <2>4. ~barrier /\ (barrier' <=> registry[taken + 1] = "exclusive")
    BY <2>1 DEF Code!HasRoom, Code!Opens
  <2>5. codeStartMode'[codeStarted'] = registry[taken + 1]
    BY <2>1, <2>2 DEF CodeTyping
  <2>6. \A c \in First..codeStarted : codeStartMode'[c] # "exclusive"
    <3> SUFFICES ASSUME NEW c \in First..codeStarted PROVE codeStartMode'[c] # "exclusive"
      OBVIOUS
    <3>1. codeStartMode[c] # "exclusive"
      BY <2>4 DEF Single
    <3>2. c # taken + 1
      BY <1>0, <2>2
    <3>3. c \in Code!Calls
      <4>1. CodeCalls \in Nat /\ codeStarted + 1 <= CodeCalls /\ 1 <= First
        BY <1>0, <2>1, <2>2, CodeBounds DEF First, Code!Calls, Code!CodeDispatchAssumption
      <4> QED
        BY <1>0, <4>1 DEF Code!Calls
    <3> QED
      BY <2>1, <3>1, <3>2, <3>3 DEF CodeTyping
  <2>7. registry[taken + 1] = "exclusive" => First = codeStarted'
    <3> SUFFICES ASSUME registry[taken + 1] = "exclusive" PROVE First = codeStarted'
      OBVIOUS
    <3>1. codeInFlight = {}
      BY <2>1 DEF Code!HasRoom
    <3> QED
      BY <2>1, <2>2, <3>1, QuietIsCommitted
  <2>8. \A c \in First'..codeStarted' : c \in First..codeStarted \/ c = codeStarted'
    BY <1>0, <2>2, <2>3
  <2>9. First <= codeStarted'
    BY <1>0, <2>2 DEF Lined, First
  <2> QED
    BY <2>3, <2>4, <2>5, <2>6, <2>7, <2>8, <2>9 DEF Single
<1>3. CASE Code!BacklogClears
  <2>1. /\ codePc = "backlog" /\ codePc' = "ready" /\ commits' = commits
        /\ codeStarted' = codeStarted /\ codeStartMode' = codeStartMode
        /\ barrier' = (barrier /\ ~Code!Lifts(Code!Committing))
    BY <1>3 DEF Code!BacklogClears, Code!queues
  <2>2. First = Len(commits) /\ First' = First + 1 /\ Code!Committing = First
    <3>1. Len(commits) # 0
      BY <2>1 DEF Lined
    <3> QED
      BY <1>0, <2>1, <3>1 DEF Lined, First, Code!Committing
  <2>3. CASE barrier
    <3>1. First <= codeStarted /\ codeStartMode[codeStarted] = "exclusive"
      BY <2>3 DEF Single
    <3>2. First = codeStarted
      BY <1>0, <3>1 DEF Single
    <3>3. ~barrier'
      BY <2>1, <2>2, <3>1, <3>2 DEF Code!Lifts
    <3> QED
      BY <1>0, <2>1, <2>2, <3>2, <3>3 DEF Single
  <2>4. CASE ~barrier
    <3>1. \A c \in First..codeStarted : codeStartMode[c] # "exclusive"
      BY <2>4 DEF Single
    <3> QED
      <4>1. ~barrier'
        BY <2>1, <2>4
      <4>2. First'..codeStarted' \subseteq First..codeStarted
        BY <1>0, <2>1, <2>2
      <4> QED
        BY <2>1, <3>1, <4>1, <4>2 DEF Single
  <2> QED
    BY <2>3, <2>4
<1>4. CASE Code!Abandons \/ Code!Rests \/ Code!PrepareEnds \/ Code!CommitEnds
  BY <1>4 DEF Single, First, Code!Abandons, Code!Rests, Code!PrepareEnds, Code!CommitEnds,
              Code!queues
<1>5. CASE Code!Submit \/ Code!Abort \/ Code!RunEnds \/ Code!Closes
  BY <1>5 DEF Single, First, Code!Submit, Code!Abort, Code!RunEnds, Code!Closes, Code!Woken,
              Code!queues
<1>6. CASE \E c \in Code!Calls : Code!BodySettles(c) \/ Code!FlightEnds(c)
  BY <1>6 DEF Single, First, Code!BodySettles, Code!FlightEnds, Code!Woken, Code!queues
<1>7. CASE \E c \in Code!Calls : Code!LogEnds(c) \/ Code!Reclassify(c)
  BY <1>7 DEF Single, First, Code!LogEnds, Code!Reclassify, Code!queues
<1>8. CASE UNCHANGED codeVars
  BY <1>8 DEF Single, First, codeVars
<1> QED
  BY CodeSteps, <1>1, <1>2, <1>3, <1>4, <1>5, <1>6, <1>7, <1>8

LEMMA CodeSetsFinite ==
  ASSUME CodeTyping, Lined, Heard
  PROVE  /\ IsFiniteSet(codeInFlight) /\ Cardinality(codeInFlight) \in Nat
         /\ IsFiniteSet(logging) /\ Cardinality(logging) \in Nat
         /\ CodeParallel \in Nat \ {0}
<1>1. codeStarted \in Nat /\ Len(commits) \in Nat /\ (codePc = "commit" => Len(commits) # 0)
  BY LenProperties DEF CodeTyping, Lined
<1>2. Committed \in Nat
  BY <1>1 DEF Committed
<1>3. IsFiniteSet(1..codeStarted) /\ IsFiniteSet(1..Committed)
  BY <1>1, <1>2, FS_Interval
<1>4. codeInFlight \subseteq 1..codeStarted /\ logging \subseteq 1..Committed
  BY DEF CodeTyping, Heard
<1> QED
  BY <1>3, <1>4, FS_Subset, FS_CardinalityType, CodeBounds DEF Code!CodeDispatchAssumption

LEMMA CrowdStep ==
  ASSUME CodeTyping, Lined, Crowd, Resting, Heard, Code!Next \/ UNCHANGED codeVars
  PROVE  Crowd'
<1>0. /\ IsFiniteSet(codeInFlight) /\ Cardinality(codeInFlight) \in Nat
      /\ IsFiniteSet(logging) /\ Cardinality(logging) \in Nat
      /\ CodeParallel \in Nat \ {0}
  BY CodeSetsFinite
<1>1. CASE Code!Starts
  <2>1. /\ codePc' = "prepare" /\ codeInFlight' = codeInFlight /\ logging' = logging
        /\ codePc = "ready" /\ Code!HasRoom(registry[taken + 1])
    BY <1>1 DEF Code!Starts, Code!pool, Code!logs
  <2>2. Cardinality(codeInFlight) < CodeParallel
    <3>1. CASE codeInFlight = {}
      BY <1>0, <3>1, FS_EmptySet
    <3>2. CASE codeInFlight # {}
      BY <2>1, <3>2, SameCounts DEF Code!HasRoom
    <3> QED
      BY <3>1, <3>2
  <2> QED
    BY <2>1, <2>2 DEF Crowd
<1>2. CASE Code!PrepareEnds
  <2>1. /\ codePc = "prepare" /\ codePc' = "ready" /\ logging' = logging
        /\ codeInFlight' = codeInFlight \union {codeStarted}
    BY <1>2 DEF Code!PrepareEnds, Code!logs
  <2>2. Cardinality(codeInFlight') <= CodeParallel
    <3>1. Cardinality(codeInFlight) < CodeParallel
      BY <2>1 DEF Crowd
    <3>2. Cardinality(codeInFlight') = Cardinality(codeInFlight)
            \/ Cardinality(codeInFlight') = Cardinality(codeInFlight) + 1
      BY <1>0, <2>1, FS_AddElement
    <3> QED
      BY <1>0, <3>1, <3>2
  <2> QED
    BY <2>1, <2>2 DEF Crowd
<1>3. CASE Code!CommitEnds
  <2>1. /\ codePc = "commit" /\ codePc' = "backlog" /\ codeInFlight' = codeInFlight
        /\ logging' = logging \union {Code!Committing}
    BY <1>3 DEF Code!CommitEnds, Code!pool
  <2>2. Cardinality(logging) <= CodeParallel
    BY <2>1 DEF Crowd
  <2>3. Cardinality(logging') = Cardinality(logging)
          \/ Cardinality(logging') = Cardinality(logging) + 1
    BY <1>0, <2>1, FS_AddElement
  <2>4. Cardinality(logging') <= CodeParallel + 1
    BY <1>0, <2>2, <2>3
  <2> QED
    BY <2>1, <2>4 DEF Crowd
<1>4. CASE Code!BacklogClears
  <2>1. /\ codePc' = "ready" /\ codeInFlight' = codeInFlight /\ logging' = logging
        /\ Cardinality(logging) <= CodeParallel
    BY <1>4, SameCounts DEF Code!BacklogClears, Code!BacklogFits, Code!pool, Code!logs
  <2> QED
    BY <2>1 DEF Crowd
<1>5. CASE Code!Commits \/ Code!Abandons \/ Code!Rests
  BY <1>5 DEF Crowd, Code!Commits, Code!Abandons, Code!Rests, Code!pool, Code!logs
<1>6. CASE Code!Submit \/ Code!Abort \/ Code!RunEnds \/ Code!Closes
  BY <1>6 DEF Crowd, Code!Submit, Code!Abort, Code!RunEnds, Code!Closes, Code!Woken,
              Code!pool, Code!logs
<1>7. CASE \E c \in Code!Calls :
             Code!BodySettles(c) \/ Code!FlightEnds(c) \/ Code!LogEnds(c) \/ Code!Reclassify(c)
  <2>1. /\ codeInFlight' \subseteq codeInFlight /\ logging' \subseteq logging
        /\ codePc' = codePc \/ codePc' = "ready"
    BY <1>7 DEF Code!BodySettles, Code!FlightEnds, Code!LogEnds, Code!Reclassify, Code!Woken,
                Code!pool, Code!logs
  <2>2. /\ Cardinality(codeInFlight') \in Nat /\ Cardinality(logging') \in Nat
        /\ Cardinality(codeInFlight') <= Cardinality(codeInFlight)
        /\ Cardinality(logging') <= Cardinality(logging)
    BY <1>0, <2>1, FS_Subset, FS_CardinalityType
  <2>3. logging' # logging => codePc' = codePc
    BY <1>7 DEF Code!BodySettles, Code!FlightEnds, Code!LogEnds, Code!Reclassify, Code!logs
  <2>4. codePc' = codePc \/ (codePc = "asleep" /\ codePc' = "ready")
    BY <1>7 DEF Code!BodySettles, Code!FlightEnds, Code!LogEnds, Code!Reclassify, Code!Woken
  <2> QED
    BY <1>0, <2>2, <2>4 DEF Crowd
<1>8. CASE UNCHANGED codeVars
  BY <1>8 DEF Crowd, codeVars
<1> QED
  BY CodeSteps, <1>1, <1>2, <1>3, <1>4, <1>5, <1>6, <1>7, <1>8

LEMMA RestingStep ==
  ASSUME CodeTyping, Lined, Pooled, Single, Resting, Code!Next \/ UNCHANGED codeVars
  PROVE  Resting'
<1>1. CASE Code!Rests
  <2>1. /\ codePc = "ready" /\ ~Code!Due /\ codeAborted' = codeAborted /\ run' = run
        /\ taken' = taken /\ submitted' = submitted /\ codeStarted' = codeStarted
        /\ codeInFlight' = codeInFlight /\ commitQueue' = commitQueue
        /\ codePc' = IF taken = submitted /\ commitQueue = <<>> /\ codeInFlight = {}
                     THEN "off" ELSE "asleep"
        /\ taken < submitted => ~codeAborted /\ ~Code!HasRoom(registry[taken + 1])
    BY <1>1 DEF Code!Rests, Code!MayStart, Code!queues, Code!pool
  <2>2. codePc' = "asleep" => codeInFlight # {}
    <3> SUFFICES ASSUME codePc' = "asleep", codeInFlight = {} PROVE FALSE
      OBVIOUS
    <3>1. commitQueue = <<>> /\ First = codeStarted + 1
      BY <2>1, QuietIsCommitted
    <3>2. taken < submitted
      BY <2>1, <3>1 DEF CodeTyping
    <3>3. ~barrier
      BY <3>1 DEF Single, CodeTyping
    <3>4. Code!HasRoom(registry[taken + 1])
      <4>1. CodeParallel \in Nat \ {0}
        BY CodeBounds DEF Code!CodeDispatchAssumption
      <4>2. Code!Cardinality(codeInFlight) < CodeParallel
        BY <4>1, FS_EmptySet, SameCounts
      <4> QED
        BY <3>3, <4>2 DEF Code!HasRoom
    <3> QED
      BY <2>1, <3>2, <3>4
  <2>3. run # "closed"
    BY <2>1 DEF Resting
  <2> QED
    BY <2>1, <2>2, <2>3 DEF Resting
<1>2. CASE Code!Starts
  <2>1. taken' = codeStarted' /\ codePc' = "prepare" /\ codePc = "ready" /\ run' = run
    BY <1>2, CallStarts DEF Code!Starts
  <2> QED
    BY <2>1 DEF Resting
<1>3. CASE Code!Commits \/ Code!Abandons \/ Code!PrepareEnds \/ Code!CommitEnds \/ Code!BacklogClears
  BY <1>3 DEF Resting, Code!Commits, Code!Abandons, Code!PrepareEnds, Code!CommitEnds,
              Code!BacklogClears, Code!MayStart, Code!queues
<1>4. CASE Code!Submit \/ Code!Abort \/ Code!RunEnds
  BY <1>4 DEF Resting, Code!Submit, Code!Abort, Code!RunEnds, Code!Woken, Code!queues,
              Code!pool, Code!logs
<1>5. CASE Code!Closes
  BY <1>5 DEF Resting, Code!Closes, Code!Drained, Code!queues, Code!pool, Code!logs
<1>6. CASE \E c \in Code!Calls : Code!BodySettles(c) \/ Code!FlightEnds(c)
  BY <1>6 DEF Resting, CodeTyping, Code!BodySettles, Code!FlightEnds, Code!Woken, Code!queues,
              Code!logs
<1>7. CASE \E c \in Code!Calls : Code!LogEnds(c) \/ Code!Reclassify(c)
  BY <1>7 DEF Resting, Code!LogEnds, Code!Reclassify, Code!queues, Code!pool, Code!logs
<1>8. CASE UNCHANGED codeVars
  BY <1>8 DEF Resting, codeVars
<1> QED
  BY CodeSteps, <1>1, <1>2, <1>3, <1>4, <1>5, <1>6, <1>7, <1>8

LEMMA HeardStep ==
  ASSUME CodeTyping, Lined, Pooled, Resting, Heard, Code!Next \/ UNCHANGED codeVars
  PROVE  Heard'
<1>0. /\ codeStarted \in Nat /\ taken \in Nat /\ Len(commits) \in Nat /\ Committed \in Nat
      /\ Committed <= Len(commits) /\ Len(commits) <= codeStarted /\ codeStarted <= taken
      /\ codePc \in {"commit", "backlog"} => Len(commits) # 0
  <2>1. /\ codeStarted \in Nat /\ taken \in Nat /\ Len(commits) \in Nat
        /\ Len(commitQueue) \in Nat /\ codeStarted <= taken
        /\ codePc \in {"commit", "backlog"} => Len(commits) # 0
    BY LenProperties DEF CodeTyping, Lined
  <2> QED
    BY <2>1 DEF Lined, Committed
<1>1. CASE Code!Commits
  <2>1. /\ codePc = "ready" /\ codePc' = "commit" /\ codeStarted' = codeStarted
        /\ taken' = taken /\ answers' = answers /\ logging' = logging /\ settleLog' = settleLog
    BY <1>1 DEF Code!Commits, Code!queues, Code!logs
  <2>2. Committed' = Committed
    BY <1>0, <1>1, <2>1, CommitBegins DEF Committed
  <2> QED
    BY <2>1, <2>2 DEF Heard
<1>2. CASE Code!Starts
  <2>1. /\ codePc = "ready" /\ codePc' = "prepare" /\ commits' = commits
        /\ answers' = answers /\ logging' = logging /\ settleLog' = settleLog
        /\ codeStarted' = taken' /\ taken' \in Nat
    BY <1>0, <1>2, CallStarts DEF Code!Starts, Code!logs
  <2>2. Committed' = Committed
    BY <2>1 DEF Committed
  <2>3. \A c \in Code!Calls : ~(codeStarted' < c /\ c <= taken')
    BY <2>1, CodeBounds DEF Code!Calls, Code!CodeDispatchAssumption
  <2> QED
    BY <2>1, <2>2, <2>3 DEF Heard
<1>3. CASE Code!Abandons
  <2>1. /\ codePc' = codePc /\ commits' = commits /\ codeStarted' = codeStarted
        /\ logging' = logging /\ settleLog' = settleLog /\ taken' = taken + 1
        /\ answers' = [answers EXCEPT ![taken + 1] = "rejected"]
    BY <1>3 DEF Code!Abandons, Code!logs
  <2>2. Committed' = Committed
    BY <2>1 DEF Committed
  <2>3. ASSUME NEW c \in Code!Calls
        PROVE  /\ c <= Committed' => answers'[c] \in {"value", "discarded"}
               /\ codeStarted' < c /\ c <= taken' => answers'[c] = "rejected"
    <3>1. c \in Nat /\ c \in DOMAIN answers
      BY CodeBounds DEF Code!Calls, Code!CodeDispatchAssumption, CodeTyping
    <3>2. CASE c = taken + 1
      BY <1>0, <2>1, <2>2, <3>1, <3>2
    <3>3. CASE c # taken + 1
      BY <1>0, <2>1, <2>2, <3>1, <3>3 DEF Heard
    <3> QED
      BY <3>2, <3>3
  <2> QED
    BY <2>1, <2>2, <2>3 DEF Heard
<1>4. CASE Code!CommitEnds
  <2>1. /\ codePc = "commit" /\ codePc' = "backlog" /\ commits' = commits
        /\ codeStarted' = codeStarted /\ taken' = taken /\ settleLog' = settleLog
        /\ logging' = logging \union {Code!Committing}
        /\ answers' = [answers EXCEPT ![Code!Committing] =
                         IF codeAborted THEN "discarded" ELSE "value"]
    BY <1>4 DEF Code!CommitEnds, Code!queues
  <2>2. /\ Code!Committing = Len(commits) /\ Committed' = Len(commits)
        /\ Committed = Len(commits) - 1
    BY <1>0, <2>1 DEF Lined, Committed, Code!Committing
  <2>3. logging' \union settleLog' = 1..Committed'
    <3>1. logging \union settleLog = 1..Committed
      BY DEF Heard
    <3>2. 1..Len(commits) = (1..(Len(commits) - 1)) \union {Len(commits)}
      BY <1>0, <2>1
    <3> QED
      BY <2>1, <2>2, <3>1, <3>2
  <2>4. ASSUME NEW c \in Code!Calls
        PROVE  /\ c <= Committed' => answers'[c] \in {"value", "discarded"}
               /\ codeStarted' < c /\ c <= taken' => answers'[c] = "rejected"
    <3>1. c \in Nat /\ c \in DOMAIN answers
      BY CodeBounds DEF Code!Calls, Code!CodeDispatchAssumption, CodeTyping
    <3>2. CASE c = Len(commits)
      BY <1>0, <2>1, <2>2, <3>1, <3>2
    <3>3. CASE c # Len(commits)
      BY <1>0, <2>1, <2>2, <3>1, <3>3 DEF Heard
    <3> QED
      BY <3>2, <3>3
  <2> QED
    BY <2>3, <2>4 DEF Heard
<1>5. CASE Code!Rests \/ Code!PrepareEnds \/ Code!BacklogClears
  <2>1. /\ codePc \notin {"commit"} /\ codePc' \notin {"commit"} /\ commits' = commits
        /\ codeStarted' = codeStarted /\ taken' = taken /\ settleLog' = settleLog
        /\ logging' = logging /\ answers' = answers
    BY <1>5 DEF Code!Rests, Code!PrepareEnds, Code!BacklogClears, Code!queues, Code!logs
  <2> QED
    BY <2>1 DEF Heard, Committed
<1>6. CASE Code!Submit \/ Code!Abort \/ Code!RunEnds \/ Code!Closes
  BY <1>6 DEF Heard, Committed, Code!Submit, Code!Abort, Code!RunEnds, Code!Closes, Code!Woken,
              Code!queues, Code!logs
<1>7. CASE \E c \in Code!Calls : Code!BodySettles(c) \/ Code!FlightEnds(c)
  BY <1>7 DEF Heard, Committed, Code!BodySettles, Code!FlightEnds, Code!Woken, Code!queues,
              Code!logs
<1>8. CASE \E c \in Code!Calls : Code!LogEnds(c) \/ Code!Reclassify(c)
  BY <1>8 DEF Heard, Committed, Code!LogEnds, Code!Reclassify, Code!queues, Code!logs
<1>9. CASE UNCHANGED codeVars
  BY <1>9 DEF Heard, Committed, codeVars
<1> QED
  BY CodeSteps, <1>1, <1>2, <1>3, <1>4, <1>5, <1>6, <1>7, <1>8, <1>9

LEMMA CodeInit == Code!Init => CodeInv
<1> SUFFICES ASSUME Code!Init PROVE CodeInv
  OBVIOUS
<1>1. /\ codeStarted = 0 /\ taken = 0 /\ submitted = 0 /\ commits = <<>> /\ commitQueue = <<>>
      /\ settled = {} /\ codeRunning = {} /\ codeInFlight = {} /\ logging = {} /\ settleLog = {}
      /\ codePc = "off" /\ run = "program" /\ barrier = FALSE /\ codeAborted = FALSE
      /\ registry \in [Code!Calls -> Code!Modes] /\ codeStartMode = registry
      /\ answers = [c \in Code!Calls |-> "none"]
  BY DEF Code!Init
<1>2. /\ Len(commits) = 0 /\ Len(commitQueue) = 0 /\ First = 1 /\ Committed = 0
      /\ Code!Calls = 1..CodeCalls /\ CodeCalls \in Nat \ {0} /\ CodeParallel \in Nat \ {0}
  BY <1>1, CodeBounds DEF First, Committed, Code!Calls, Code!CodeDispatchAssumption
<1>3. CodeTyping
  <2>1. answers \in [Code!Calls -> {"none", "value", "discarded", "rejected"}]
    BY <1>1
  <2>2. barrier \in BOOLEAN /\ codeAborted \in BOOLEAN
    BY <1>1
  <2>3. codePc \in Places
    BY <1>1 DEF Places
  <2> QED
    BY <1>1, <1>2, <2>1, <2>2, <2>3 DEF CodeTyping
<1>4. Lined
  BY <1>1, <1>2 DEF Lined
<1>5. Pooled /\ Single
  BY <1>1, <1>2 DEF Pooled, Single
<1>6. Crowd
  <2>1. Cardinality(codeInFlight) = 0 /\ Cardinality(logging) = 0
    BY <1>1, FS_EmptySet
  <2> QED
    BY <1>1, <1>2, <2>1 DEF Crowd
<1>7. Resting
  BY <1>1 DEF Resting
<1>8. Heard
  BY <1>1, <1>2 DEF Heard
<1> QED
  BY <1>3, <1>4, <1>5, <1>6, <1>7, <1>8 DEF CodeInv

LEMMA CodeInvStep == CodeInv /\ (Code!Next \/ UNCHANGED codeVars) => CodeInv'
BY CodeTypingStep, LinedStep, PooledStep, SingleStep, CrowdStep, RestingStep, HeardStep DEF CodeInv

(* The open calls are those from the first to the last that was started. *)
LEMMA OpenIsTheRest ==
  ASSUME CodeInv
  PROVE  Code!Open = First..codeStarted
<1> USE DEF CodeInv
<1>1. /\ codeStarted \in Nat /\ Len(commits) \in Nat
      /\ codePc \in {"commit", "backlog"} => Len(commits) # 0
      /\ \A i \in 1..Len(commits) : commits[i] = i
  BY LenProperties DEF CodeTyping, Lined
<1>2. ASSUME NEW c \in 1..codeStarted
      PROVE  (c \in First..codeStarted) <=>
             \A i \in 1..Len(commits) : commits[i] = c =>
               i = Len(commits) /\ codePc \in {"commit", "backlog"}
  <2>1. CASE c \in 1..Len(commits)
    <3>1. commits[c] = c
      BY <1>1, <2>1
    <3> QED
      BY <1>1, <2>1, <3>1 DEF First
  <2>2. CASE c \notin 1..Len(commits)
    <3>1. \A i \in 1..Len(commits) : commits[i] # c
      BY <1>1, <2>2
    <3> QED
      BY <1>1, <2>2, <3>1 DEF First
  <2> QED
    BY <2>1, <2>2
<1>3. First..codeStarted \subseteq 1..codeStarted
  BY <1>1 DEF First
<1> QED
  BY <1>2, <1>3 DEF Code!Open

LEMMA DispatchIsSafe == CodeInv => Code!DispatchSafe
<1> SUFFICES ASSUME CodeInv PROVE Code!DispatchSafe
  OBVIOUS
<1> USE DEF CodeInv
<1>0. /\ codeStarted \in Nat /\ taken \in Nat /\ submitted \in Nat
      /\ Len(commits) \in Nat /\ Len(commitQueue) \in Nat
      /\ Len(commits) + Len(commitQueue) = codeStarted
      /\ CodeCalls \in Nat /\ Committed <= Len(commits) /\ Committed \in Nat
  <2>1. /\ codeStarted \in Nat /\ taken \in Nat /\ submitted \in Nat
        /\ Len(commits) \in Nat /\ Len(commitQueue) \in Nat /\ CodeCalls \in Nat
        /\ Len(commits) + Len(commitQueue) = codeStarted
        /\ codePc = "commit" => Len(commits) # 0
    BY LenProperties, CodeBounds DEF CodeTyping, Lined, Code!CodeDispatchAssumption
  <2> QED
    BY <2>1 DEF Committed
<1>1. Code!TypeOK
  <2>1. UNION {codeRunning, codeInFlight, settled, logging, settleLog} \subseteq 1..codeStarted
    <3>1. 1..Committed \subseteq 1..codeStarted
      BY <1>0
    <3> QED
      BY <3>1 DEF CodeTyping, Heard
  <2>2. commits \o commitQueue = [i \in 1..codeStarted |-> i]
    <3>1. /\ commits \o commitQueue \in Seq(Nat)
          /\ Len(commits \o commitQueue) = codeStarted
          /\ \A i \in 1..Len(commits) + Len(commitQueue) :
               (commits \o commitQueue)[i] =
                 IF i <= Len(commits) THEN commits[i] ELSE commitQueue[i - Len(commits)]
      BY <1>0, ConcatProperties DEF Lined
    <3>2. ASSUME NEW i \in 1..codeStarted
          PROVE  (commits \o commitQueue)[i] = i
      <4>1. CASE i <= Len(commits)
        BY <1>0, <3>1, <4>1 DEF Lined
      <4>2. CASE i > Len(commits)
        <5>1. i - Len(commits) \in 1..Len(commitQueue)
          BY <1>0, <4>2
        <5>2. commitQueue[i - Len(commits)] = Len(commits) + (i - Len(commits))
          BY <5>1 DEF Lined
        <5> QED
          BY <1>0, <3>1, <4>2, <5>2
      <4> QED
        BY <1>0, <4>1, <4>2
    <3>3. commits \o commitQueue = [i \in 1..codeStarted |-> (commits \o commitQueue)[i]]
      <4>1. commits \o commitQueue \in [1..codeStarted -> Nat]
        BY <3>1, LenProperties
      <4> QED
        BY <4>1
    <3> QED
      BY <3>2, <3>3
  <2>3. \A i \in 1..Len(commits) : commits[i] \in settled
    BY DEF Lined, Pooled
  <2> QED
    BY <2>1, <2>2, <2>3 DEF CodeTyping, Code!TypeOK
<1>2. Code!ExclusiveAlone
  <2> SUFFICES ASSUME NEW c \in Code!Open, codeStartMode[c] = "exclusive"
               PROVE  Code!Open = {c}
    BY DEF Code!ExclusiveAlone
  <2>1. c = First /\ c = codeStarted
    BY OpenIsTheRest DEF Single
  <2> QED
    BY <1>0, <2>1, OpenIsTheRest
<1>3. Code!ResourcesBounded
  BY SameCounts DEF Crowd, Code!ResourcesBounded
<1>4. Code!SleepsOnWork
  BY DEF Resting, Code!SleepsOnWork
<1>5. Code!ClosedIsComplete
  <2> SUFFICES ASSUME run = "closed"
               PROVE  /\ codeRunning = {} /\ codeInFlight = {} /\ commitQueue = <<>>
                      /\ settleLog = 1..codeStarted
                      /\ \A c \in 1..submitted : answers[c] # "none"
                      /\ \A c \in 1..submitted : answers[c] = "rejected" <=> c > codeStarted
    BY DEF Code!ClosedIsComplete
  <2>1. /\ codePc = "off" /\ logging = {} /\ commitQueue = <<>> /\ codeInFlight = {}
        /\ taken = submitted
    BY DEF Resting
  <2>2. Len(commits) = codeStarted /\ Committed = codeStarted
    <3>1. Len(commitQueue) = 0
      BY <2>1
    <3> QED
      BY <1>0, <2>1, <3>1 DEF Committed
  <2>3. settleLog = 1..codeStarted
    BY <2>1, <2>2 DEF Heard
  <2>4. ASSUME NEW c \in 1..submitted
        PROVE  answers[c] # "none" /\ (answers[c] = "rejected" <=> c > codeStarted)
    <3>1. c \in Code!Calls
      BY <1>0 DEF CodeTyping, Code!Calls
    <3>2. CASE c <= codeStarted
      BY <1>0, <2>2, <3>1, <3>2 DEF Heard
    <3>3. CASE codeStarted < c
      BY <1>0, <2>1, <3>1, <3>3 DEF Heard
    <3> QED
      BY <1>0, <3>2, <3>3
  <2> QED
    BY <2>1, <2>3, <2>4 DEF CodeTyping
<1> QED
  BY <1>1, <1>2, <1>3, <1>4, <1>5 DEF Code!DispatchSafe

(* However a program's calls are submitted, settled, reclassified or aborted:  *)
(* an exclusive call is alone, the pools keep to their size, the lane sleeps    *)
(* only on a call that will wake it, and a closed run has answered every call   *)
(* and logged every start's end: the run's DispatchHolds, for any bounds.       *)
THEOREM DispatchAlwaysHolds == MCSpec => []DispatchHolds
<1>1. MCInit => CodeInv
  BY CodeInit DEF MCInit
<1>2. CodeInv /\ [MCNext]_<<part, vars, codeVars, askVars, jobVars>> => CodeInv'
  BY CodeInvStep DEF MCNext
<1>3. CodeInv => DispatchHolds
  BY DispatchIsSafe DEF DispatchHolds
<1> QED
  BY <1>1, <1>2, <1>3, PTL DEF MCSpec

--------------------------------------------------------------------------------
(* What an abort, and an outcome, put an end to *)

LEMMA NothingStartsAborted ==
  ASSUME CodeInv, codeAborted, Code!Next \/ UNCHANGED codeVars
  PROVE  /\ codeStarted' = codeStarted
         /\ \A c \in Code!Calls : answers'[c] = "value" => answers[c] = "value"
<1>1. answers \in [Code!Calls -> {"none", "value", "discarded", "rejected"}]
  BY DEF CodeInv, CodeTyping
<1>2. CASE Code!Abandons
  BY <1>1, <1>2 DEF Code!Abandons
<1>3. CASE Code!Starts
  BY <1>3 DEF Code!Starts, Code!MayStart
<1>4. CASE Code!CommitEnds
  BY <1>1, <1>4 DEF Code!CommitEnds, Code!queues
<1>5. CASE Code!Commits \/ Code!Rests \/ Code!PrepareEnds \/ Code!BacklogClears
  BY <1>5 DEF Code!Commits, Code!Rests, Code!PrepareEnds, Code!BacklogClears, Code!queues
<1>6. CASE Code!Submit \/ Code!Abort \/ Code!RunEnds \/ Code!Closes
  BY <1>6 DEF Code!Submit, Code!Abort, Code!RunEnds, Code!Closes, Code!queues
<1>7. CASE \E c \in Code!Calls :
             Code!BodySettles(c) \/ Code!FlightEnds(c) \/ Code!LogEnds(c) \/ Code!Reclassify(c)
  BY <1>7 DEF Code!BodySettles, Code!FlightEnds, Code!LogEnds, Code!Reclassify, Code!queues
<1>8. CASE UNCHANGED codeVars
  BY <1>8 DEF codeVars
<1> QED
  BY CodeSteps, <1>2, <1>3, <1>4, <1>5, <1>6, <1>7, <1>8

LEMMA OutcomeStays ==
  ASSUME JobInv, JobStore!Next \/ UNCHANGED jobVars, NEW j \in Jobs, JobStore!Over(j)
  PROVE  status'[j] = status[j]
<1>1. status \in [Jobs -> {"absent", "running", "stopping"} \union JobStore!Outcomes]
  BY DEF JobInv, JobTyping, JobStore!TypeOK
<1>2. status[j] \notin {"absent", "running", "stopping"}
  BY DEF JobStore!Over, JobStore!Outcomes
<1>3. ASSUME NEW job \in Jobs, JobStore!Kill(job) \/ JobStore!Read(job)
      PROVE  status'[j] = status[j]
  BY <1>1, <1>3 DEF JobStore!Kill, JobStore!Read
<1>4. ASSUME NEW job \in Jobs, NEW o \in JobStore!Owners, JobStore!Start(job, o)
      PROVE  status'[j] = status[j]
  BY <1>1, <1>2, <1>4 DEF JobStore!Start
<1>5. ASSUME NEW job \in Jobs, NEW result \in JobStore!Outcomes,
             JobStore!ProducerSettles(job, result)
      PROVE  status'[j] = status[j]
  BY <1>5 DEF JobStore!ProducerSettles, JobStore!Settle, JobStore!Unsettled
<1>6. ASSUME NEW wait \in JobWaits,
             \/ JobStore!Wait(wait) \/ JobStore!WaitTimeout(wait)
             \/ JobStore!WaitAbort(wait) \/ JobStore!WaitResumes(wait)
      PROVE  status'[j] = status[j]
  BY <1>6 DEF JobStore!Wait, JobStore!WaitTimeout, JobStore!WaitAbort, JobStore!WaitResumes,
              JobStore!jobVars
<1>7. ASSUME NEW o \in JobStore!Owners, NEW throwers \in SUBSET Jobs, JobStore!Dispose(o, throwers)
      PROVE  status'[j] = status[j]
  BY <1>7 DEF JobStore!Dispose, JobStore!Settle, JobStore!ForceFailed
<1>8. ASSUME NEW o \in JobStore!Owners, JobStore!Disposed(o)
      PROVE  status'[j] = status[j]
  BY <1>8 DEF JobStore!Disposed
<1>9. CASE UNCHANGED jobVars
  BY <1>9 DEF jobVars
<1> QED
  BY JobSteps, <1>3, <1>4, <1>5, <1>6, <1>7, <1>8, <1>9

(* After an abort no tool starts, in a step or in a program, and no program  *)
(* gets a value; the first outcome of a job is never overwritten: the run's  *)
(* AbortedStaysQuiet, for any bounds.                                        *)
THEOREM AbortedStaysQuietAlways == MCSpec => AbortedStaysQuiet
<1> DEFINE Sleeps == codeAborted =>
                       /\ codeStarted' = codeStarted
                       /\ \A c \in Code!Calls : answers'[c] = "value" => answers[c] = "value"
           Stays == \A job \in Jobs : JobStore!Over(job) => status'[job] = status[job]
<1>1. MCInit => Init /\ CodeInv /\ JobInv
  BY CodeInit, JobInit DEF MCInit
<1>2. ASSUME CodeInv, JobInv, [MCNext]_<<part, vars, codeVars, askVars, jobVars>>
      PROVE  CodeInv' /\ JobInv' /\ [Next]_vars /\ Sleeps /\ Stays
  <2>1. /\ Code!Next \/ UNCHANGED codeVars
        /\ JobStore!Next \/ UNCHANGED jobVars
        /\ Next \/ UNCHANGED vars
    BY <1>2 DEF MCNext
  <2>2. CodeInv' /\ JobInv'
    BY <1>2, <2>1, CodeInvStep, JobInvStep
  <2>3. Sleeps
    BY <1>2, <2>1, NothingStartsAborted
  <2>4. Stays
    BY <1>2, <2>1, OutcomeStays
  <2> QED
    BY <2>1, <2>2, <2>3, <2>4
<1>3. MCSpec => Spec
  BY <1>1, <1>2, PTL DEF MCSpec, Spec
<1>4. MCSpec => [][Sleeps]_Code!vars /\ [][Stays]_JobStore!vars
  BY <1>1, <1>2, PTL DEF MCSpec
<1> QED
  BY <1>3, <1>4, AbortStartsNothing DEF AbortedStaysQuiet, Code!NothingAfterAbort,
     JobStore!FirstOutcomeWins

--------------------------------------------------------------------------------
(* The questions of a turn *)

AuditEvents == {Asking!Asked(id) : id \in Asking!Ids} \union {Asking!Decided(id) : id \in Asking!Ids}

AskTyping ==
  /\ log \in Seq(AuditEvents) /\ turn \in {"open", "ended"}
  /\ at \in [Askers -> {"free", "asking", "settled", "over"}]
  /\ asks \in [Askers -> 0..2] /\ outcome \in [Askers -> Asking!Outcomes]
  /\ queued \subseteq Asking!Ids /\ askAnswers \subseteq [ask : Asking!Ids, outcome : Asking!Outcomes]
  /\ pending \subseteq [ask : Asking!Ids, id : Asking!Ids] /\ askAborted \subseteq Askers
  /\ gateway \in {"up", "deaf", "gone"} /\ policy \in {"ask", "never"}
  /\ switches \in 0..Switches
  /\ allowed \subseteq Asking!Ids /\ ran \subseteq Asking!Ids

(* The question was asked and its decision logged. *)
Closed(id) ==
  \/ id[2] < asks[id[1]]
  \/ id[2] = asks[id[1]] /\ at[id[1]] \in {"free", "over"}

(* The log holds what was asked, and the decision of a closed question behind it. *)
Logged ==
  /\ \A i \in 1..Len(log), id \in Asking!Ids :
       /\ log[i] = Asking!Asked(id) =>
            /\ id[2] <= asks[id[1]]
            /\ Closed(id) => \E j \in 1..Len(log) : i < j /\ log[j] = Asking!Decided(id)
       /\ log[i] = Asking!Decided(id) => Closed(id)
  /\ \A i, j \in 1..Len(log) : log[i] = log[j] => i = j

(* A call has a question while it asks; none of its calls asks in an ended turn. *)
Standing ==
  /\ \A c \in Askers : at[c] \in {"asking", "settled"} => asks[c] # 0
  /\ turn = "ended" => \A c \in Askers : at[c] = "over"

(* A question is the last of its call, and in one place: with its microtask, *)
(* with the gateway or with its answer; a prompt stands for the question     *)
(* that its call asks now.                                                   *)
Placed ==
  /\ \A t \in queued :
       /\ t = Asking!Last(t[1]) /\ at[t[1]] # "free"
       /\ t[1] \notin askAborted => at[t[1]] = "asking"
       /\ \A p \in pending : p.ask # t
       /\ \A a \in askAnswers : a.ask # t
  /\ \A p \in pending :
       /\ p.id = p.ask /\ p.ask = Asking!Last(p.ask[1]) /\ at[p.ask[1]] = "asking"
       /\ p.ask[1] \notin askAborted /\ gateway # "gone"
       /\ \A a \in askAnswers : a.ask # p.ask
  /\ \A a \in askAnswers :
       /\ a.ask = Asking!Last(a.ask[1]) /\ at[a.ask[1]] # "free"
       /\ \A b \in askAnswers : a.ask = b.ask => a = b

(* A grant on its way to a call is what a person allowed, and nothing else of *)
(* that question is left.                                                     *)
Granted ==
  /\ \A a \in askAnswers : a.outcome = "allowed-once" => a.ask \in allowed
  /\ \A c \in Askers : at[c] = "settled" /\ outcome[c] = "allowed-once" =>
       /\ Asking!Last(c) \in allowed /\ Asking!Last(c) \notin queued
       /\ \A a \in askAnswers : a.ask # Asking!Last(c)
  /\ ran \subseteq allowed

AskInv == AskTyping /\ Logged /\ Standing /\ Placed /\ Granted

LEMMA AskSteps ==
  ASSUME Asking!Next \/ UNCHANGED askVars
  PROVE  \/ \E c \in Askers : Asking!Ask(c) \/ Asking!LogDecision(c)
         \/ \E c \in Askers : Asking!CallEnds(c) \/ Asking!Abort(c)
         \/ \E a \in askAnswers : Asking!Resolve(a)
         \/ \E id \in queued : Asking!Dispatch(id)
         \/ \E p \in pending, result \in {"allowed-once", "rejected"} : Asking!Respond(p, result)
         \/ Asking!TurnEnds \/ Asking!Unlisten \/ Asking!Sweep \/ Asking!SetPolicy
         \/ UNCHANGED askVars
BY DEF Asking!Next

(* Questions are pairs of a call and a number, and their events are two each. *)
LEMMA Questions ==
  /\ \A id \in Asking!Ids : id[1] \in Askers /\ id[2] \in 1..2 /\ id = <<id[1], id[2]>>
  /\ \A c \in Askers, k \in 1..2 : <<c, k>> \in Asking!Ids
  /\ \A id \in Asking!Ids : Asking!Asked(id) \in AuditEvents /\ Asking!Decided(id) \in AuditEvents
  /\ \A e \in AuditEvents : \E id \in Asking!Ids : e = Asking!Asked(id) \/ e = Asking!Decided(id)
  /\ \A d, e : /\ Asking!Asked(d) # Asking!Decided(e)
               /\ Asking!Asked(d) = Asking!Asked(e) => d = e
               /\ Asking!Decided(d) = Asking!Decided(e) => d = e
<1>1. \A d, e : /\ Asking!Asked(d) # Asking!Decided(e)
                /\ Asking!Asked(d) = Asking!Asked(e) => d = e
                /\ Asking!Decided(d) = Asking!Decided(e) => d = e
  <2> SUFFICES ASSUME NEW d, NEW e
               PROVE  /\ Asking!Asked(d) # Asking!Decided(e)
                      /\ Asking!Asked(d) = Asking!Asked(e) => d = e
                      /\ Asking!Decided(d) = Asking!Decided(e) => d = e
    OBVIOUS
  <2>1. /\ Asking!Asked(d).type = "asked" /\ Asking!Asked(d).id = d
        /\ Asking!Decided(d).type = "decided" /\ Asking!Decided(d).id = d
        /\ Asking!Decided(e).type = "decided" /\ Asking!Decided(e).id = e
        /\ Asking!Asked(e).id = e
    BY DEF Asking!Asked, Asking!Decided
  <2> QED
    BY <2>1
<1>2. /\ \A id \in Asking!Ids : id[1] \in Askers /\ id[2] \in 1..2 /\ id = <<id[1], id[2]>>
      /\ \A c \in Askers, k \in 1..2 : <<c, k>> \in Asking!Ids
  BY DEF Asking!Ids
<1>3. /\ \A id \in Asking!Ids : Asking!Asked(id) \in AuditEvents /\ Asking!Decided(id) \in AuditEvents
      /\ \A e \in AuditEvents : \E id \in Asking!Ids : e = Asking!Asked(id) \/ e = Asking!Decided(id)
  BY DEF AuditEvents
<1> QED
  BY <1>1, <1>2, <1>3

(* The gateway claims no question but the one it was asked. *)
LEMMA ClaimsItsOwn ==
  ASSUME AskTyping, Logged, Placed, NEW id \in queued, id[1] \notin askAborted,
         Asking!Claim(id) # 0
  PROVE  log[Asking!Claim(id)].id = id
<1> DEFINE open(i) == /\ log[i].type = "asked" /\ id[1] = log[i].id[1]
                      /\ \A j \in i .. Len(log) : log[j] # Asking!Decided(log[i].id)
                      /\ \A p \in pending : p.id # log[i].id
           found == {i \in DOMAIN log : open(i)}
<1>1. Asking!Claim(id) = IF found = {} THEN 0 ELSE CHOOSE i \in found : \A j \in found : j <= i
  BY DEF Asking!Claim, Asking!SameCall
<1>2. DOMAIN log = 1..Len(log) /\ Len(log) \in Nat /\ \A i \in 1..Len(log) : log[i] \in AuditEvents
  BY LenProperties DEF AskTyping
<1>3. id \in Asking!Ids /\ id = Asking!Last(id[1]) /\ at[id[1]] = "asking" /\ id[1] \in Askers
  BY Questions DEF AskTyping, Placed
<1>4. ASSUME NEW i \in found
      PROVE  i \in 1..Len(log) /\ log[i] = Asking!Asked(id)
  <2>1. /\ i \in 1..Len(log) /\ log[i].type = "asked" /\ id[1] = log[i].id[1]
        /\ \A j \in i .. Len(log) : log[j] # Asking!Decided(log[i].id)
    BY <1>2
  <2>2. PICK e \in Asking!Ids : log[i] = Asking!Asked(e) \/ log[i] = Asking!Decided(e)
    BY <1>2, <2>1, Questions
  <2>3. log[i] = Asking!Asked(e) /\ log[i].id = e
    BY <2>1, <2>2 DEF Asking!Asked, Asking!Decided
  <2>4. ~Closed(e)
    <3> SUFFICES ASSUME Closed(e) PROVE FALSE
      OBVIOUS
    <3>1. PICK j \in 1..Len(log) : i < j /\ log[j] = Asking!Decided(e)
      BY <2>1, <2>3 DEF Logged
    <3>2. j \in i..Len(log)
      BY <1>2, <2>1, <3>1
    <3> QED
      BY <2>1, <2>3, <3>1, <3>2
  <2>5. e[2] <= asks[id[1]] /\ e[1] = id[1]
    BY <2>1, <2>3 DEF Logged
  <2>6. e[2] \in 1..2 /\ asks[id[1]] \in 0..2 /\ e = <<e[1], e[2]>>
    BY <1>3, Questions DEF AskTyping
  <2>7. e[2] = asks[id[1]]
    BY <2>4, <2>5, <2>6 DEF Closed
  <2>8. e = id
    BY <1>3, <2>5, <2>6, <2>7 DEF Asking!Last
  <2> QED
    BY <2>1, <2>3, <2>8
<1>5. found # {}
  BY <1>1
<1>6. PICK i \in found : TRUE
  BY <1>5
<1>7. \A j \in found : j = i
  BY <1>4, <1>6 DEF Logged
<1>8. i \in Nat
  BY <1>2, <1>4, <1>6
<1> HIDE DEF found
<1>9. (CHOOSE k \in found : \A j \in found : j <= k) = i
  <2>1. \E k \in found : \A j \in found : j <= k
    <3>1. i <= i
      BY <1>8
    <3>2. \A j \in found : j <= i
      BY <1>7, <3>1, Zenon
    <3> QED
      BY <1>6, <3>2, Zenon
  <2>2. (CHOOSE k \in found : \A j \in found : j <= k) \in found
    BY <2>1, Zenon
  <2> QED
    BY <1>7, <2>2, Zenon
<1>10. Asking!Claim(id) = i
  BY <1>1, <1>5, <1>9
<1> QED
  BY <1>4, <1>6, <1>10 DEF Asking!Asked

LEMMA AskTypingStep ==
  ASSUME AskTyping, Logged, Standing, Placed, Asking!Next \/ UNCHANGED askVars
  PROVE  AskTyping'
<1>1. ASSUME NEW c \in Askers, Asking!Ask(c)
      PROVE  AskTyping'
  <2>1. /\ asks[c] < 2 /\ asks' = [asks EXCEPT ![c] = @ + 1]
        /\ log' = Append(log, Asking!Asked(Asking!Last(c)'))
        /\ turn' = turn /\ askAnswers' = askAnswers /\ pending' = pending /\ gateway' = gateway
        /\ askAborted' = askAborted /\ policy' = policy /\ switches' = switches
        /\ allowed' = allowed /\ ran' = ran
        /\ queued' = queued \/ queued' = queued \union {Asking!Last(c)'}
        /\ at' = [at EXCEPT ![c] = "settled"] \/ at' = [at EXCEPT ![c] = "asking"]
        /\ outcome' = [outcome EXCEPT ![c] = "cancelled"]
             \/ outcome' = [outcome EXCEPT ![c] = "rejected"]
    BY <1>1, Zenon DEF Asking!Ask, Asking!people
  <2>2. asks' \in [Askers -> 0..2] /\ asks'[c] \in 1..2
    BY <2>1 DEF AskTyping
  <2>3. Asking!Last(c)' \in Asking!Ids
    BY <2>2, Questions DEF Asking!Last
  <2>4. log' \in Seq(AuditEvents)
    BY <2>1, <2>3, Questions, AppendProperties DEF AskTyping
  <2>5. /\ at' \in [Askers -> {"free", "asking", "settled", "over"}]
        /\ outcome' \in [Askers -> Asking!Outcomes]
    BY <2>1 DEF AskTyping, Asking!Outcomes
  <2> QED
    BY <2>1, <2>2, <2>3, <2>4, <2>5 DEF AskTyping
<1>2. ASSUME NEW c \in Askers, Asking!LogDecision(c)
      PROVE  AskTyping'
  <2>1. /\ at[c] = "settled" /\ log' = Append(log, Asking!Decided(Asking!Last(c)))
        /\ at' = [at EXCEPT ![c] = "free"] \/ at' = [at EXCEPT ![c] = "over"]
        /\ ran' = ran \/ ran' = ran \union {Asking!Last(c)}
        /\ UNCHANGED <<turn, asks, outcome, queued, askAnswers, pending, gateway, askAborted,
                       policy, switches, allowed>>
    BY <1>2, Zenon DEF Asking!LogDecision, Asking!people
  <2>2. asks[c] \in 1..2
    BY <2>1 DEF AskTyping, Standing
  <2>3. Asking!Last(c) \in Asking!Ids
    BY <2>2, Questions DEF Asking!Last
  <2>4. log' \in Seq(AuditEvents)
    BY <2>1, <2>3, Questions, AppendProperties DEF AskTyping
  <2> QED
    BY <2>1, <2>3, <2>4 DEF AskTyping
<1>3. ASSUME NEW c \in Askers, Asking!CallEnds(c)
      PROVE  AskTyping'
  BY <1>3 DEF AskTyping, Asking!CallEnds, Asking!audit, Asking!people
<1>4. ASSUME NEW c \in Askers, Asking!Abort(c)
      PROVE  AskTyping'
  <2>1. /\ askAborted' = askAborted \union {c}
        /\ at' = at \/ at' = [at EXCEPT ![c] = "settled"]
        /\ outcome' = outcome \/ outcome' = [outcome EXCEPT ![c] = "cancelled"]
        /\ UNCHANGED <<log, turn, asks, queued, gateway, policy, switches, allowed, ran>>
    BY <1>4, Zenon DEF Asking!Abort, Asking!audit
  <2>2. /\ pending' \subseteq pending
        /\ askAnswers' \subseteq askAnswers \union
             {[ask |-> p.ask, outcome |-> "cancelled"] : p \in pending}
    BY <1>4 DEF Asking!Abort, Asking!Removed
  <2>3. askAnswers' \subseteq [ask : Asking!Ids, outcome : Asking!Outcomes]
    BY <2>2 DEF AskTyping, Asking!Outcomes
  <2> QED
    BY <2>1, <2>2, <2>3 DEF AskTyping, Asking!Outcomes
<1>5. ASSUME NEW a \in askAnswers, Asking!Resolve(a)
      PROVE  AskTyping'
  <2>1. /\ askAnswers' = askAnswers \ {a}
        /\ at' = at \/ at' = [at EXCEPT ![a.ask[1]] = "settled"]
        /\ outcome' = outcome \/ outcome' = [outcome EXCEPT ![a.ask[1]] = a.outcome]
        /\ UNCHANGED <<log, turn, asks, queued, pending, gateway, askAborted, policy, switches,
                       allowed, ran>>
    BY <1>5, Zenon DEF Asking!Resolve, Asking!audit, Asking!people
  <2>2. a.outcome \in Asking!Outcomes
    BY DEF AskTyping
  <2> QED
    BY <2>1, <2>2 DEF AskTyping
<1>6. ASSUME NEW id \in queued, Asking!Dispatch(id)
      PROVE  AskTyping'
  <2>1. /\ queued' = queued \ {id}
        /\ UNCHANGED <<log, turn, at, asks, outcome, gateway, askAborted, policy, switches,
                       allowed, ran>>
    BY <1>6 DEF Asking!Dispatch, Asking!audit, Asking!people
  <2>2. id \in Asking!Ids
    BY DEF AskTyping
  <2>3. \/ /\ id[1] \notin askAborted /\ Asking!Claim(id) # 0 /\ askAnswers' = askAnswers
           /\ pending' = pending \union {[ask |-> id, id |-> log[Asking!Claim(id)].id]}
        \/ /\ pending' = pending
           /\ \E result : askAnswers' = askAnswers \union {[ask |-> id, outcome |-> Asking!Normal(result)]}
    BY <1>6 DEF Asking!Dispatch, Asking!Withdrawn, Asking!Returns
  <2>4. \A result : Asking!Normal(result) \in Asking!Outcomes
    BY DEF Asking!Normal, Asking!Outcomes
  <2>5. pending' \subseteq [ask : Asking!Ids, id : Asking!Ids]
    BY <2>2, <2>3, ClaimsItsOwn DEF AskTyping
  <2>6. askAnswers' \subseteq [ask : Asking!Ids, outcome : Asking!Outcomes]
    BY <2>2, <2>3, <2>4 DEF AskTyping
  <2> QED
    BY <2>1, <2>5, <2>6 DEF AskTyping
<1>7. ASSUME NEW p \in pending, NEW result \in {"allowed-once", "rejected"},
             Asking!Respond(p, result)
      PROVE  AskTyping'
  <2>1. /\ pending' \subseteq pending
        /\ askAnswers' = askAnswers \union {[ask |-> p.ask, outcome |-> result]}
        /\ allowed' = allowed \/ allowed' = allowed \union {p.id}
        /\ UNCHANGED <<log, turn, at, asks, outcome, queued, gateway, askAborted, policy,
                       switches, ran>>
    BY <1>7 DEF Asking!Respond, Asking!Removed, Asking!Returns, Asking!Normal, Asking!Outcomes,
                Asking!audit, Asking!people
  <2>2. p.ask \in Asking!Ids /\ p.id \in Asking!Ids /\ result \in Asking!Outcomes
    BY DEF AskTyping, Asking!Outcomes
  <2> QED
    BY <2>1, <2>2 DEF AskTyping
<1>8. CASE Asking!TurnEnds \/ Asking!Unlisten
  BY <1>8 DEF AskTyping, Asking!TurnEnds, Asking!Unlisten, Asking!audit, Asking!service,
              Asking!people
<1>9. CASE Asking!Sweep
  <2>1. askAnswers' \subseteq [ask : Asking!Ids, outcome : Asking!Outcomes]
    BY <1>9 DEF Asking!Sweep, Asking!Swept, AskTyping, Asking!Outcomes
  <2> QED
    BY <1>9, <2>1 DEF AskTyping, Asking!Sweep, Asking!audit, Asking!people
<1>10. CASE Asking!SetPolicy
  <2>1. switches' \in 0..Switches /\ policy' \in {"ask", "never"}
    BY <1>10, ApprovalBounds DEF AskTyping, Asking!SetPolicy, Asking!ApprovalsAssumption
  <2> QED
    BY <1>10, <2>1 DEF AskTyping, Asking!SetPolicy, Asking!audit, Asking!service
<1>11. CASE UNCHANGED askVars
  BY <1>11 DEF AskTyping, askVars
<1> QED
  BY AskSteps, <1>1, <1>2, <1>3, <1>4, <1>5, <1>6, <1>7, <1>8, <1>9, <1>10, <1>11

(* What a step leaves of the log and of the closed questions. *)
LEMMA LoggedUnchanged ==
  ASSUME AskTyping, Logged, log' = log, asks' = asks,
         \A c \in Askers : at'[c] \in {"free", "over"} <=> at[c] \in {"free", "over"}
  PROVE  Logged'
<1>1. \A id \in Asking!Ids : Closed(id)' <=> Closed(id)
  BY Questions DEF Closed
<1> QED
  BY <1>1 DEF Logged

LEMMA LoggedStep ==
  ASSUME AskTyping, Logged, Standing, Asking!Next \/ UNCHANGED askVars
  PROVE  Logged'
<1>0. Len(log) \in Nat /\ \A i \in 1..Len(log) : log[i] \in AuditEvents
  BY LenProperties DEF AskTyping
<1>1. ASSUME NEW c \in Askers, Asking!Ask(c)
      PROVE  Logged'
  <2>0. PICK new : new = <<c, asks[c] + 1>>
    OBVIOUS
  <2>1. /\ asks[c] < 2 /\ at[c] = "free" /\ asks' = [asks EXCEPT ![c] = @ + 1]
        /\ log' = Append(log, Asking!Asked(Asking!Last(c)'))
        /\ at' = [at EXCEPT ![c] = "settled"] \/ at' = [at EXCEPT ![c] = "asking"]
    BY <1>1, Zenon DEF Asking!Ask
  <2>2. asks[c] \in 0..2 /\ asks'[c] = asks[c] + 1 /\ at'[c] \in {"settled", "asking"}
    BY <2>1 DEF AskTyping
  <2>3. Asking!Last(c)' = new /\ new \in Asking!Ids
    <3>1. Asking!Last(c)' = <<c, asks'[c]>>
      BY DEF Asking!Last
    <3>2. asks[c] + 1 \in 1..2
      BY <2>1, <2>2
    <3>3. <<c, asks[c] + 1>> \in Asking!Ids
      BY <3>2, Questions
    <3> QED
      BY <2>0, <2>2, <3>1, <3>3
  <2>4. /\ Len(log') = Len(log) + 1 /\ log'[Len(log) + 1] = Asking!Asked(new)
        /\ \A i \in 1..Len(log) : log'[i] = log[i]
    BY <2>1, <2>3, Questions, AppendProperties DEF AskTyping
  <2>5. ~Closed(new)'
    BY <2>0, <2>2 DEF Closed
  <2>6. \A id \in Asking!Ids : id[2] <= asks[id[1]] => id # new /\ (Closed(id)' <=> Closed(id))
    <3> SUFFICES ASSUME NEW id \in Asking!Ids, id[2] <= asks[id[1]]
                 PROVE  id # new /\ (Closed(id)' <=> Closed(id))
      OBVIOUS
    <3>1. id[1] \in Askers /\ id[2] \in 1..2
      BY Questions
    <3>2. CASE id[1] = c
      BY <2>0, <2>1, <2>2, <3>1, <3>2 DEF Closed
    <3>3. CASE id[1] # c
      <4>1. asks'[id[1]] = asks[id[1]] /\ at'[id[1]] = at[id[1]]
        BY <2>1, <3>1, <3>3 DEF AskTyping
      <4> QED
        BY <2>0, <3>3, <4>1 DEF Closed
    <3> QED
      BY <3>2, <3>3
  <2>7. \A id \in Asking!Ids : Closed(id) => id[2] <= asks[id[1]]
    <3> SUFFICES ASSUME NEW id \in Asking!Ids, Closed(id) PROVE id[2] <= asks[id[1]]
      OBVIOUS
    <3>1. id[1] \in Askers /\ id[2] \in 1..2
      BY Questions
    <3>2. id[2] \in Nat /\ asks[id[1]] \in Nat
      BY <3>1 DEF AskTyping
    <3> QED
      BY <3>2 DEF Closed
  <2>8. \A id \in Asking!Ids : id[2] <= asks[id[1]] => id[2] <= asks'[id[1]]
    BY <2>1, Questions DEF AskTyping
  <2>9. \A i \in 1..Len(log') : i \in 1..Len(log) \/ i = Len(log) + 1
    BY <1>0, <2>4
  <2>10. ASSUME NEW i \in 1..Len(log'), NEW id \in Asking!Ids
         PROVE  /\ log'[i] = Asking!Asked(id) =>
                     /\ id[2] <= asks'[id[1]]
                     /\ Closed(id)' => \E j \in 1..Len(log') : i < j /\ log'[j] = Asking!Decided(id)
                /\ log'[i] = Asking!Decided(id) => Closed(id)'
    <3>1. CASE i \in 1..Len(log)
      <4>1. log'[i] = Asking!Asked(id) => id[2] <= asks[id[1]]
        BY <2>4, <3>1 DEF Logged
      <4>2. log'[i] = Asking!Decided(id) => Closed(id)'
        BY <2>4, <2>6, <2>7, <3>1 DEF Logged
      <4>3. ASSUME log'[i] = Asking!Asked(id), Closed(id)'
            PROVE  \E j \in 1..Len(log') : i < j /\ log'[j] = Asking!Decided(id)
        <5>1. Closed(id)
          BY <2>6, <4>1, <4>3
        <5>2. PICK j \in 1..Len(log) : i < j /\ log[j] = Asking!Decided(id)
          BY <2>4, <3>1, <4>3, <5>1 DEF Logged
        <5>3. j \in 1..Len(log') /\ log'[j] = log[j]
          BY <1>0, <2>4, <5>2
        <5> QED
          BY <5>2, <5>3
      <4> QED
        BY <2>8, <4>1, <4>2, <4>3
    <3>2. CASE i = Len(log) + 1
      <4>1. log'[i] = Asking!Asked(new)
        BY <2>4, <3>2
      <4>2. new[2] <= asks'[new[1]]
        BY <2>0, <2>2
      <4>3. Asking!Asked(new) # Asking!Decided(id)
            /\ (Asking!Asked(new) = Asking!Asked(id) => id = new)
        BY Questions, Zenon
      <4>4. CASE id = new
        BY <2>5, <4>1, <4>2, <4>3, <4>4
      <4>5. CASE id # new
        BY <4>1, <4>3, <4>5
      <4> QED
        BY <4>4, <4>5
    <3> QED
      BY <2>9, <3>1, <3>2
  <2>11. ASSUME NEW i \in 1..Len(log'), NEW j \in 1..Len(log'), log'[i] = log'[j]
         PROVE  i = j
    <3>1. \A k \in 1..Len(log) : log[k] # Asking!Asked(new)
      BY <2>3, <2>6 DEF Logged
    <3> QED
      BY <2>4, <2>9, <2>11, <3>1 DEF Logged
  <2> QED
    BY <2>10, <2>11 DEF Logged
<1>2. ASSUME NEW c \in Askers, Asking!LogDecision(c)
      PROVE  Logged'
  <2>0. PICK last : last = <<c, asks[c]>>
    OBVIOUS
  <2>1. /\ at[c] = "settled" /\ log' = Append(log, Asking!Decided(last)) /\ asks' = asks
        /\ at' = [at EXCEPT ![c] = "free"] \/ at' = [at EXCEPT ![c] = "over"]
    BY <1>2, <2>0, Zenon DEF Asking!LogDecision, Asking!Last
  <2>2. asks[c] \in 1..2 /\ last \in Asking!Ids /\ at'[c] \in {"free", "over"}
    <3>1. asks[c] \in 1..2 /\ at'[c] \in {"free", "over"}
      BY <2>1 DEF AskTyping, Standing
    <3>2. <<c, asks[c]>> \in Asking!Ids
      BY <3>1, Questions
    <3> QED
      BY <2>0, <3>1, <3>2
  <2>3. /\ Len(log') = Len(log) + 1 /\ log'[Len(log) + 1] = Asking!Decided(last)
        /\ \A i \in 1..Len(log) : log'[i] = log[i]
    BY <2>1, <2>2, Questions, AppendProperties DEF AskTyping
  <2>4. ~Closed(last) /\ Closed(last)'
    BY <2>0, <2>1, <2>2 DEF Closed
  <2>5. \A id \in Asking!Ids : id # last => (Closed(id)' <=> Closed(id))
    <3> SUFFICES ASSUME NEW id \in Asking!Ids, id # last
                 PROVE  Closed(id)' <=> Closed(id)
      OBVIOUS
    <3>1. id[1] \in Askers /\ id[2] \in 1..2 /\ id = <<id[1], id[2]>>
      BY Questions
    <3>2. CASE id[1] = c
      <4>1. id[2] # asks[c]
        BY <2>0, <3>1, <3>2
      <4> QED
        BY <2>1, <3>2, <4>1 DEF Closed
    <3>3. CASE id[1] # c
      BY <2>1, <3>1, <3>3 DEF Closed, AskTyping
    <3> QED
      BY <3>2, <3>3
  <2>6. \A i \in 1..Len(log') : i \in 1..Len(log) \/ i = Len(log) + 1
    BY <1>0, <2>3
  <2>7. 1..Len(log) \subseteq 1..Len(log') /\ Len(log) + 1 \in 1..Len(log')
        /\ \A i \in 1..Len(log) : i < Len(log) + 1
    BY <1>0, <2>3
  <2>8. ASSUME NEW i \in 1..Len(log'), NEW id \in Asking!Ids
        PROVE  /\ log'[i] = Asking!Asked(id) =>
                    /\ id[2] <= asks'[id[1]]
                    /\ Closed(id)' => \E j \in 1..Len(log') : i < j /\ log'[j] = Asking!Decided(id)
               /\ log'[i] = Asking!Decided(id) => Closed(id)'
    <3>1. CASE i \in 1..Len(log)
      <4>1. log'[i] = Asking!Asked(id) => id[2] <= asks'[id[1]]
        BY <2>1, <2>3, <3>1 DEF Logged
      <4>2. log'[i] = Asking!Decided(id) => Closed(id)'
        BY <2>3, <2>4, <2>5, <3>1 DEF Logged
      <4>3. ASSUME log'[i] = Asking!Asked(id), Closed(id)'
            PROVE  \E j \in 1..Len(log') : i < j /\ log'[j] = Asking!Decided(id)
        <5>1. CASE id = last
          BY <2>3, <2>7, <3>1, <5>1
        <5>2. CASE id # last
          <6>1. PICK j \in 1..Len(log) : i < j /\ log[j] = Asking!Decided(id)
            BY <2>3, <2>5, <3>1, <4>3, <5>2 DEF Logged
          <6> QED
            BY <2>3, <2>7, <6>1
        <5> QED
          BY <5>1, <5>2
      <4> QED
        BY <4>1, <4>2, <4>3
    <3>2. CASE i = Len(log) + 1
      <4>1. log'[i] = Asking!Decided(last)
        BY <2>3, <3>2
      <4>2. Asking!Asked(id) # Asking!Decided(last)
            /\ (Asking!Decided(last) = Asking!Decided(id) => id = last)
        BY Questions, Zenon
      <4> QED
        BY <2>4, <4>1, <4>2
    <3> QED
      BY <2>6, <3>1, <3>2
  <2>9. ASSUME NEW i \in 1..Len(log'), NEW j \in 1..Len(log'), log'[i] = log'[j]
        PROVE  i = j
    <3>1. \A k \in 1..Len(log) : log[k] # Asking!Decided(last)
      BY <2>2, <2>4 DEF Logged
    <3> QED
      BY <2>3, <2>6, <2>9, <3>1 DEF Logged
  <2> QED
    BY <2>8, <2>9 DEF Logged
<1>3. ASSUME NEW c \in Askers, Asking!CallEnds(c) \/ Asking!Abort(c)
      PROVE  Logged'
  <2>1. /\ log' = log /\ asks' = asks
        /\ \/ at' = at
           \/ at[c] = "free" /\ at' = [at EXCEPT ![c] = "over"]
           \/ at[c] = "asking" /\ at' = [at EXCEPT ![c] = "settled"]
    BY <1>3, Zenon DEF Asking!CallEnds, Asking!Abort, Asking!audit
  <2>2. \A d \in Askers : at'[d] \in {"free", "over"} <=> at[d] \in {"free", "over"}
    BY <2>1 DEF AskTyping
  <2> QED
    BY <2>1, <2>2, LoggedUnchanged
<1>4. ASSUME NEW a \in askAnswers, Asking!Resolve(a)
      PROVE  Logged'
  <2>1. /\ log' = log /\ asks' = asks
        /\ \/ at' = at
           \/ at[a.ask[1]] = "asking" /\ at' = [at EXCEPT ![a.ask[1]] = "settled"]
    BY <1>4, Zenon DEF Asking!Resolve, Asking!Waits, Asking!audit
  <2>2. \A d \in Askers : at'[d] \in {"free", "over"} <=> at[d] \in {"free", "over"}
    BY <2>1 DEF AskTyping
  <2> QED
    BY <2>1, <2>2, LoggedUnchanged
<1>5. ASSUME \/ \E id \in queued : Asking!Dispatch(id)
             \/ \E p \in pending, result \in {"allowed-once", "rejected"} : Asking!Respond(p, result)
             \/ Asking!TurnEnds \/ Asking!Unlisten \/ Asking!Sweep \/ Asking!SetPolicy
             \/ UNCHANGED askVars
      PROVE  Logged'
  <2>1. log' = log /\ asks' = asks /\ at' = at
    BY <1>5 DEF Asking!Dispatch, Asking!Respond, Asking!TurnEnds, Asking!Unlisten, Asking!Sweep,
                Asking!SetPolicy, askVars, Asking!audit, Asking!service
  <2> QED
    BY <2>1, LoggedUnchanged
<1> QED
  BY AskSteps, <1>1, <1>2, <1>3, <1>4, <1>5

LEMMA StandingStep ==
  ASSUME AskTyping, Standing, Asking!Next \/ UNCHANGED askVars
  PROVE  Standing'
<1>1. ASSUME NEW c \in Askers, Asking!Ask(c)
      PROVE  Standing'
  <2>1. /\ turn' = turn /\ turn = "open" /\ asks' = [asks EXCEPT ![c] = @ + 1]
        /\ at' = [at EXCEPT ![c] = "settled"] \/ at' = [at EXCEPT ![c] = "asking"]
    BY <1>1, Zenon DEF Asking!Ask
  <2>2. \A d \in Askers : at'[d] \in {"asking", "settled"} => asks'[d] # 0
    BY <2>1 DEF AskTyping, Standing
  <2> QED
    BY <2>1, <2>2 DEF Standing
<1>2. ASSUME NEW c \in Askers,
             Asking!LogDecision(c) \/ Asking!CallEnds(c) \/ Asking!Abort(c)
      PROVE  Standing'
  <2>1. /\ turn' = turn /\ asks' = asks /\ at[c] # "over"
        /\ \/ at' = at \/ at' = [at EXCEPT ![c] = "free"] \/ at' = [at EXCEPT ![c] = "over"]
           \/ at[c] = "asking" /\ at' = [at EXCEPT ![c] = "settled"]
    BY <1>2, Zenon DEF Asking!LogDecision, Asking!CallEnds, Asking!Abort, Asking!audit
  <2>2. turn' # "ended"
    BY <2>1 DEF Standing
  <2>3. \A d \in Askers : at'[d] \in {"asking", "settled"} => asks'[d] # 0
    BY <2>1 DEF AskTyping, Standing
  <2> QED
    BY <2>2, <2>3 DEF Standing
<1>3. ASSUME NEW a \in askAnswers, Asking!Resolve(a)
      PROVE  Standing'
  <2>1. a.ask[1] \in Askers
    BY Questions DEF AskTyping
  <2>2. /\ turn' = turn /\ asks' = asks
        /\ \/ at' = at
           \/ at[a.ask[1]] = "asking" /\ at' = [at EXCEPT ![a.ask[1]] = "settled"]
    BY <1>3, Zenon DEF Asking!Resolve, Asking!Waits, Asking!audit
  <2>3. \A d \in Askers : at'[d] \in {"asking", "settled"} => asks'[d] # 0
    BY <2>1, <2>2 DEF AskTyping, Standing
  <2>4. turn' = "ended" => at' = at
    BY <2>1, <2>2 DEF Standing
  <2> QED
    BY <2>2, <2>3, <2>4 DEF Standing
<1>4. CASE Asking!TurnEnds
  BY <1>4 DEF Standing, Asking!TurnEnds, Asking!service
<1>5. ASSUME \/ \E id \in queued : Asking!Dispatch(id)
             \/ \E p \in pending, result \in {"allowed-once", "rejected"} : Asking!Respond(p, result)
             \/ Asking!Unlisten \/ Asking!Sweep \/ Asking!SetPolicy
             \/ UNCHANGED askVars
      PROVE  Standing'
  <2>1. turn' = turn /\ asks' = asks /\ at' = at
    BY <1>5 DEF Asking!Dispatch, Asking!Respond, Asking!Unlisten, Asking!Sweep,
                Asking!SetPolicy, askVars, Asking!audit, Asking!service
  <2> QED
    BY <2>1 DEF Standing
<1> QED
  BY AskSteps, <1>1, <1>2, <1>3, <1>4, <1>5

(* Whose the questions are that are on their way. *)
LEMMA Tokens ==
  ASSUME AskTyping, Placed
  PROVE  /\ \A t \in queued : t[1] \in Askers /\ t = <<t[1], asks[t[1]]>>
         /\ \A p \in pending : p.ask[1] \in Askers /\ p.ask = <<p.ask[1], asks[p.ask[1]]>>
         /\ \A a \in askAnswers : a.ask[1] \in Askers /\ a.ask = <<a.ask[1], asks[a.ask[1]]>>
<1>1. \A id \in Asking!Ids : id[1] \in Askers
  BY Questions
<1>2. /\ \A t \in queued : t \in Asking!Ids
      /\ \A p \in pending : p.ask \in Asking!Ids
      /\ \A a \in askAnswers : a.ask \in Asking!Ids
  BY DEF AskTyping
<1> QED
  BY <1>1, <1>2 DEF Placed, Asking!Last

LEMMA PlacedStep ==
  ASSUME AskTyping, Logged, Placed, Granted, Asking!Next \/ UNCHANGED askVars
  PROVE  Placed'
<1>1. ASSUME NEW c \in Askers, Asking!Ask(c)
      PROVE  Placed'
  <2>0. PICK new : new = <<c, asks[c] + 1>>
    OBVIOUS
  <2>1. /\ at[c] = "free" /\ asks' = [asks EXCEPT ![c] = @ + 1]
        /\ pending' = pending /\ askAnswers' = askAnswers /\ gateway' = gateway
        /\ askAborted' = askAborted
    BY <1>1, Zenon DEF Asking!Ask, Asking!people
  <2>2. \/ at' = [at EXCEPT ![c] = "settled"] /\ queued' = queued
        \/ at' = [at EXCEPT ![c] = "asking"] /\ queued' = queued \union {<<c, asks'[c]>>}
    BY <1>1, Zenon DEF Asking!Ask, Asking!Last
  <2>3. asks'[c] = asks[c] + 1 /\ \A d \in Askers : d # c => asks'[d] = asks[d] /\ at'[d] = at[d]
    BY <2>1, <2>2 DEF AskTyping
  <2>4. /\ \A t \in queued : t[1] # c /\ t # new
        /\ \A p \in pending : p.ask[1] # c /\ p.ask # new
        /\ \A a \in askAnswers : a.ask[1] # c /\ a.ask # new
    BY <2>0, <2>1 DEF Placed
  <2>5. ASSUME NEW t \in queued'
        PROVE  /\ t = Asking!Last(t[1])' /\ at'[t[1]] # "free"
               /\ t[1] \notin askAborted => at'[t[1]] = "asking"
               /\ \A p \in pending : p.ask # t
               /\ \A a \in askAnswers : a.ask # t
    <3>1. CASE t \in queued
      <4>1. t[1] \in Askers /\ t = <<t[1], asks[t[1]]>> /\ t[1] # c
        BY <2>4, <3>1, Tokens
      <4> QED
        BY <2>3, <3>1, <4>1 DEF Placed, Asking!Last
    <3>2. CASE t \notin queued
      <4>1. t = new /\ at' = [at EXCEPT ![c] = "asking"]
        BY <2>0, <2>2, <2>3, <3>2
      <4>2. t[1] = c /\ at'[c] = "asking"
        BY <2>0, <4>1 DEF AskTyping
      <4> QED
        BY <2>0, <2>3, <2>4, <4>1, <4>2 DEF Asking!Last
    <3> QED
      BY <3>1, <3>2
  <2>6. ASSUME NEW p \in pending
        PROVE  /\ p.id = p.ask /\ p.ask = Asking!Last(p.ask[1])' /\ at'[p.ask[1]] = "asking"
               /\ p.ask[1] \notin askAborted /\ gateway # "gone"
               /\ \A a \in askAnswers : a.ask # p.ask
    BY <2>3, <2>4, Tokens DEF Placed, Asking!Last
  <2>7. ASSUME NEW a \in askAnswers
        PROVE  /\ a.ask = Asking!Last(a.ask[1])' /\ at'[a.ask[1]] # "free"
               /\ \A b \in askAnswers : a.ask = b.ask => a = b
    BY <2>3, <2>4, Tokens DEF Placed, Asking!Last
  <2> QED
    BY <2>1, <2>5, <2>6, <2>7 DEF Placed
<1>2. ASSUME NEW c \in Askers, Asking!LogDecision(c)
      PROVE  Placed'
  <2>1. /\ at[c] = "settled" /\ asks' = asks /\ queued' = queued /\ pending' = pending
        /\ askAnswers' = askAnswers /\ gateway' = gateway /\ askAborted' = askAborted
        /\ \/ outcome[c] = "allowed-once" /\ at' = [at EXCEPT ![c] = "free"]
           \/ at' = [at EXCEPT ![c] = "over"]
    BY <1>2, Zenon DEF Asking!LogDecision, Asking!people
  <2>2. \A p \in pending : p.ask[1] # c
    BY <2>1 DEF Placed
  <2>3. \A d \in Askers : d # c => at'[d] = at[d]
    BY <2>1 DEF AskTyping
  <2>4. at'[c] = "free" => /\ \A t \in queued : t[1] # c
                           /\ \A a \in askAnswers : a.ask[1] # c
    <3> SUFFICES ASSUME at'[c] = "free"
                 PROVE  (\A t \in queued : t[1] # c) /\ (\A a \in askAnswers : a.ask[1] # c)
      OBVIOUS
    <3>1. outcome[c] = "allowed-once"
      BY <2>1 DEF AskTyping
    <3>2. <<c, asks[c]>> \notin queued /\ \A a \in askAnswers : a.ask # <<c, asks[c]>>
      BY <2>1, <3>1 DEF Granted, Asking!Last
    <3> QED
      BY <3>2, Tokens
  <2>5. \A t \in queued : t[1] \in Askers /\ (t[1] = c => c \in askAborted)
    BY <2>1, Tokens DEF Placed
  <2>6. \A c1 : Asking!Last(c1)' = Asking!Last(c1)
    BY <2>1 DEF Asking!Last
  <2> QED
    BY <2>1, <2>2, <2>3, <2>4, <2>5, <2>6, Tokens DEF Placed
<1>3. ASSUME NEW c \in Askers, Asking!CallEnds(c)
      PROVE  Placed'
  <2>1. /\ at[c] = "free" /\ asks' = asks /\ queued' = queued /\ pending' = pending
        /\ askAnswers' = askAnswers /\ gateway' = gateway /\ askAborted' = askAborted
        /\ at' = [at EXCEPT ![c] = "over"]
    BY <1>3, Zenon DEF Asking!CallEnds, Asking!people
  <2>2. \A d \in Askers : d # c => at'[d] = at[d]
    BY <2>1 DEF AskTyping
  <2>3. /\ \A t \in queued : t[1] # c
        /\ \A p \in pending : p.ask[1] # c
        /\ \A a \in askAnswers : a.ask[1] # c
    BY <2>1 DEF Placed
  <2>4. \A c1 : Asking!Last(c1)' = Asking!Last(c1)
    BY <2>1 DEF Asking!Last
  <2> QED
    BY <2>1, <2>2, <2>3, <2>4, Tokens DEF Placed
<1>4. ASSUME NEW c \in Askers, Asking!Abort(c)
      PROVE  Placed'
  <2> DEFINE gone == {p.ask : p \in {q \in pending : q.ask[1] = c}}
  <2>1. /\ asks' = asks /\ queued' = queued /\ gateway' = gateway
        /\ askAborted' = askAborted \union {c}
        /\ at' = at \/ at' = [at EXCEPT ![c] = "settled"]
        /\ pending' = {p \in pending : p.ask \notin gone}
        /\ askAnswers' = askAnswers \union {[ask |-> id, outcome |-> "cancelled"] : id \in gone}
    BY <1>4, Zenon DEF Asking!Abort, Asking!Removed
  <2>2. \A d \in Askers : at'[d] = at[d] \/ (d = c /\ at'[d] = "settled")
    BY <2>1 DEF AskTyping
  <2>3. \A p \in pending' : p \in pending /\ p.ask[1] # c
    BY <2>1
  <2>4. \A a \in askAnswers' : \/ a \in askAnswers
                               \/ \E p \in pending : /\ p.ask[1] = c
                                                     /\ a = [ask |-> p.ask, outcome |-> "cancelled"]
    BY <2>1
  <2>5. \A c1 : Asking!Last(c1)' = Asking!Last(c1)
    BY <2>1 DEF Asking!Last
  <2> HIDE DEF gone
  <2>6. ASSUME NEW t \in queued'
        PROVE  /\ t = Asking!Last(t[1])' /\ at'[t[1]] # "free"
               /\ t[1] \notin askAborted' => at'[t[1]] = "asking"
               /\ \A p \in pending' : p.ask # t
               /\ \A a \in askAnswers' : a.ask # t
    <3>1. t[1] \in Askers /\ at'[t[1]] # "free" /\ (t[1] \notin askAborted' => at'[t[1]] = "asking")
      BY <2>1, <2>2, Tokens DEF Placed
    <3>2. \A a \in askAnswers' : a.ask # t
      BY <2>1, <2>4 DEF Placed
    <3> QED
      BY <2>1, <2>3, <2>5, <3>1, <3>2 DEF Placed
  <2>7. ASSUME NEW p \in pending'
        PROVE  /\ p.id = p.ask /\ p.ask = Asking!Last(p.ask[1])' /\ at'[p.ask[1]] = "asking"
               /\ p.ask[1] \notin askAborted' /\ gateway' # "gone"
               /\ \A a \in askAnswers' : a.ask # p.ask
    <3>1. p \in pending /\ p.ask[1] # c /\ p.ask[1] \in Askers
      BY <2>3, Tokens
    <3>2. \A a \in askAnswers' : a.ask # p.ask
      BY <2>4, <3>1 DEF Placed
    <3> QED
      BY <2>1, <2>2, <2>5, <3>1, <3>2 DEF Placed
  <2>8. ASSUME NEW a \in askAnswers'
        PROVE  /\ a.ask = Asking!Last(a.ask[1])' /\ at'[a.ask[1]] # "free"
               /\ \A b \in askAnswers' : a.ask = b.ask => a = b
    <3>1. CASE a \in askAnswers
      <4>1. a.ask[1] \in Askers /\ at'[a.ask[1]] # "free"
        BY <2>2, <3>1, Tokens DEF Placed
      <4>2. \A b \in askAnswers' : a.ask = b.ask => a = b
        BY <2>4, <3>1 DEF Placed
      <4> QED
        BY <2>5, <3>1, <4>1, <4>2 DEF Placed
    <3>2. CASE a \notin askAnswers
      <4>1. PICK p \in pending : p.ask[1] = c /\ a = [ask |-> p.ask, outcome |-> "cancelled"]
        BY <2>4, <3>2
      <4>2. a.ask = p.ask /\ at'[a.ask[1]] # "free"
        BY <2>2, <4>1, Tokens DEF Placed
      <4>3. \A b \in askAnswers' : a.ask = b.ask => a = b
        BY <2>4, <4>1, <4>2 DEF Placed
      <4> QED
        BY <2>5, <4>2, <4>3 DEF Placed
    <3> QED
      BY <3>1, <3>2
  <2> QED
    BY <2>6, <2>7, <2>8 DEF Placed
<1>5. ASSUME NEW a \in askAnswers, Asking!Resolve(a)
      PROVE  Placed'
  <2> DEFINE c == a.ask[1]
  <2>1. /\ asks' = asks /\ queued' = queued /\ gateway' = gateway /\ pending' = pending
        /\ askAborted' = askAborted /\ askAnswers' = askAnswers \ {a}
        /\ \/ at' = at
           \/ a.ask = Asking!Last(c) /\ at' = [at EXCEPT ![c] = "settled"]
    BY <1>5, Zenon DEF Asking!Resolve, Asking!Waits, Asking!people
  <2>2. \A d \in Askers : at'[d] = at[d] \/ (d = c /\ at'[d] = "settled")
    BY <2>1 DEF AskTyping
  <2>3. /\ \A t \in queued : t[1] # c
        /\ \A p \in pending : p.ask[1] # c
    <3>1. a.ask = <<c, asks[c]>>
      BY Tokens
    <3> QED
      BY <3>1, Tokens DEF Placed
  <2>4. \A c1 : Asking!Last(c1)' = Asking!Last(c1)
    BY <2>1 DEF Asking!Last
  <2> HIDE DEF c
  <2>5. ASSUME NEW t \in queued
        PROVE  /\ t = Asking!Last(t[1])' /\ at'[t[1]] # "free"
               /\ t[1] \notin askAborted' => at'[t[1]] = "asking"
    BY <2>1, <2>2, <2>3, <2>4, Tokens DEF Placed
  <2>6. ASSUME NEW p \in pending
        PROVE  p.ask = Asking!Last(p.ask[1])' /\ at'[p.ask[1]] = "asking"
    BY <2>2, <2>3, <2>4, Tokens DEF Placed
  <2>7. ASSUME NEW b \in askAnswers
        PROVE  b.ask = Asking!Last(b.ask[1])' /\ at'[b.ask[1]] # "free"
    BY <2>2, <2>4, Tokens DEF Placed
  <2> QED
    BY <2>1, <2>5, <2>6, <2>7 DEF Placed
<1>6. ASSUME NEW id \in queued, Asking!Dispatch(id)
      PROVE  Placed'
  <2>1. /\ asks' = asks /\ at' = at /\ gateway' = gateway /\ askAborted' = askAborted
        /\ queued' = queued \ {id}
    BY <1>6 DEF Asking!Dispatch, Asking!people
  <2>2. \/ /\ id[1] \notin askAborted /\ Asking!Claim(id) # 0 /\ askAnswers' = askAnswers
           /\ pending' = pending \union {[ask |-> id, id |-> log[Asking!Claim(id)].id]}
           /\ gateway = "up"
        \/ /\ pending' = pending
           /\ \E result : askAnswers' = askAnswers \union {[ask |-> id, outcome |-> result]}
    BY <1>6 DEF Asking!Dispatch, Asking!Withdrawn, Asking!Returns
  <2>3. \A c1 : Asking!Last(c1)' = Asking!Last(c1)
    BY <2>1 DEF Asking!Last
  <2>4. /\ \A p \in pending : p.ask # id
        /\ \A a \in askAnswers : a.ask # id
        /\ id = Asking!Last(id[1]) /\ at[id[1]] # "free"
        /\ id[1] \notin askAborted => at[id[1]] = "asking"
    BY DEF Placed
  <2>5. CASE pending' = pending
             /\ \E result : askAnswers' = askAnswers \union {[ask |-> id, outcome |-> result]}
    <3>1. PICK result : askAnswers' = askAnswers \union {[ask |-> id, outcome |-> result]}
      BY <2>5
    <3>2. \A a \in askAnswers' : a \in askAnswers \/ (a.ask = id /\ a = [ask |-> id, outcome |-> result])
      BY <3>1
    <3>3. \A a \in askAnswers' : \A b \in askAnswers' : a.ask = b.ask => a = b
      BY <2>4, <3>2 DEF Placed
    <3>4. \A a \in askAnswers' : a.ask = Asking!Last(a.ask[1]) /\ at[a.ask[1]] # "free"
      BY <2>4, <3>2 DEF Placed
    <3>5. /\ \A t \in queued' : \A a \in askAnswers' : a.ask # t
          /\ \A p \in pending : \A a \in askAnswers' : a.ask # p.ask
      BY <2>1, <2>4, <3>2 DEF Placed
    <3> QED
      BY <2>1, <2>3, <2>5, <3>3, <3>4, <3>5 DEF Placed
  <2>6. CASE /\ id[1] \notin askAborted /\ Asking!Claim(id) # 0 /\ askAnswers' = askAnswers
             /\ pending' = pending \union {[ask |-> id, id |-> log[Asking!Claim(id)].id]}
             /\ gateway = "up"
    <3>1. pending' = pending \union {[ask |-> id, id |-> id]}
      BY <2>6, ClaimsItsOwn
    <3>2. \A p \in pending' : p \in pending \/ (p.ask = id /\ p.id = id)
      BY <3>1
    <3>3. \A p \in pending' :
             /\ p.id = p.ask /\ p.ask = Asking!Last(p.ask[1]) /\ at[p.ask[1]] = "asking"
             /\ p.ask[1] \notin askAborted /\ gateway # "gone"
             /\ \A a \in askAnswers : a.ask # p.ask
      BY <2>4, <2>6, <3>2 DEF Placed
    <3>4. \A t \in queued' : \A p \in pending' : p.ask # t
      BY <2>1, <3>2 DEF Placed
    <3> QED
      BY <2>1, <2>3, <2>6, <3>3, <3>4 DEF Placed
  <2> QED
    BY <2>2, <2>5, <2>6
<1>7. ASSUME NEW p \in pending, NEW result \in {"allowed-once", "rejected"},
             Asking!Respond(p, result)
      PROVE  Placed'
  <2>1. /\ asks' = asks /\ at' = at /\ gateway' = gateway /\ askAborted' = askAborted
        /\ queued' = queued /\ pending' = {q \in pending : q.ask \notin {p.ask}}
        /\ askAnswers' = askAnswers \union {[ask |-> p.ask, outcome |-> Asking!Normal(result)]}
    BY <1>7 DEF Asking!Respond, Asking!Removed, Asking!Returns, Asking!people
  <2>2. \A c1 : Asking!Last(c1)' = Asking!Last(c1)
    BY <2>1 DEF Asking!Last
  <2>3. \A a \in askAnswers' :
           a \in askAnswers \/ (a.ask = p.ask /\ a = [ask |-> p.ask, outcome |-> Asking!Normal(result)])
    BY <2>1
  <2>4. \A q \in pending' : q \in pending /\ q.ask # p.ask
    BY <2>1
  <2>5. \A a \in askAnswers' : \A b \in askAnswers' : a.ask = b.ask => a = b
    BY <2>3 DEF Placed
  <2>6. \A a \in askAnswers' : a.ask = Asking!Last(a.ask[1]) /\ at[a.ask[1]] # "free"
    BY <2>3 DEF Placed
  <2>7. /\ \A t \in queued : \A a \in askAnswers' : a.ask # t
        /\ \A q \in pending' : \A a \in askAnswers' : a.ask # q.ask
    BY <2>3, <2>4 DEF Placed
  <2> QED
    BY <2>1, <2>2, <2>4, <2>5, <2>6, <2>7 DEF Placed
<1>8. CASE Asking!Sweep
  <2>1. /\ asks' = asks /\ at' = at /\ askAborted' = askAborted /\ queued' = queued
        /\ pending' = {}
        /\ askAnswers' = askAnswers \union {[ask |-> p.ask, outcome |-> "cancelled"] : p \in pending}
    BY <1>8 DEF Asking!Sweep, Asking!Swept, Asking!people
  <2>2. \A c1 : Asking!Last(c1)' = Asking!Last(c1)
    BY <2>1 DEF Asking!Last
  <2>3. \A a \in askAnswers' :
           a \in askAnswers \/ \E p \in pending : a.ask = p.ask /\ a = [ask |-> p.ask, outcome |-> "cancelled"]
    BY <2>1
  <2>4. \A a \in askAnswers' : \A b \in askAnswers' : a.ask = b.ask => a = b
    BY <2>3 DEF Placed
  <2>5. \A a \in askAnswers' : a.ask = Asking!Last(a.ask[1]) /\ at[a.ask[1]] # "free"
    BY <2>3 DEF Placed
  <2>6. \A t \in queued : \A a \in askAnswers' : a.ask # t
    BY <2>3 DEF Placed
  <2> QED
    BY <2>1, <2>2, <2>4, <2>5, <2>6 DEF Placed
<1>9. CASE Asking!TurnEnds \/ Asking!Unlisten \/ Asking!SetPolicy \/ UNCHANGED askVars
  <2>1. /\ asks' = asks /\ at' = at /\ askAborted' = askAborted /\ queued' = queued
        /\ pending' = pending /\ askAnswers' = askAnswers
        /\ gateway' = gateway \/ gateway' = "deaf"
    BY <1>9 DEF Asking!TurnEnds, Asking!Unlisten, Asking!SetPolicy, askVars, Asking!service,
                Asking!people
  <2>2. \A c1 : Asking!Last(c1)' = Asking!Last(c1)
    BY <2>1 DEF Asking!Last
  <2> QED
    BY <2>1, <2>2 DEF Placed
<1> QED
  BY AskSteps, <1>1, <1>2, <1>3, <1>4, <1>5, <1>6, <1>7, <1>8, <1>9

LEMMA GrantedStep ==
  ASSUME AskTyping, Placed, Granted, Asking!Next \/ UNCHANGED askVars
  PROVE  Granted'
<1>1. ASSUME NEW c \in Askers, Asking!Ask(c)
      PROVE  Granted'
  <2>1. /\ asks' = [asks EXCEPT ![c] = @ + 1] /\ askAnswers' = askAnswers
        /\ allowed' = allowed /\ ran' = ran
        /\ \/ outcome' = [outcome EXCEPT ![c] = "cancelled"]
           \/ outcome' = [outcome EXCEPT ![c] = "rejected"]
        /\ queued' = queued \/ queued' = queued \union {<<c, asks'[c]>>}
        /\ at' = [at EXCEPT ![c] = "settled"] \/ at' = [at EXCEPT ![c] = "asking"]
    BY <1>1, Zenon DEF Asking!Ask, Asking!Last
  <2>2. /\ outcome'[c] # "allowed-once"
        /\ \A d \in Askers : d # c => /\ asks'[d] = asks[d] /\ at'[d] = at[d]
                                      /\ outcome'[d] = outcome[d]
    BY <2>1 DEF AskTyping
  <2>3. ASSUME NEW d \in Askers, at'[d] = "settled", outcome'[d] = "allowed-once"
        PROVE  /\ <<d, asks'[d]>> \in allowed /\ <<d, asks'[d]>> \notin queued'
               /\ \A a \in askAnswers : a.ask # <<d, asks'[d]>>
    <3>1. d # c
      BY <2>2, <2>3
    <3>2. <<d, asks[d]>> \in allowed /\ <<d, asks[d]>> \notin queued
          /\ \A a \in askAnswers : a.ask # <<d, asks[d]>>
      BY <2>2, <2>3, <3>1 DEF Granted, Asking!Last
    <3> QED
      BY <2>1, <2>2, <3>1, <3>2
  <2> QED
    BY <2>1, <2>3 DEF Granted, Asking!Last
<1>2. ASSUME NEW c \in Askers, Asking!LogDecision(c)
      PROVE  Granted'
  <2>1. /\ asks' = asks /\ askAnswers' = askAnswers /\ allowed' = allowed /\ queued' = queued
        /\ outcome' = outcome /\ at[c] = "settled"
        /\ at' = [at EXCEPT ![c] = "free"] \/ at' = [at EXCEPT ![c] = "over"]
        /\ \/ ran' = ran
           \/ outcome[c] = "allowed-once" /\ ran' = ran \union {Asking!Last(c)}
    BY <1>2, Zenon DEF Asking!LogDecision
  <2>2. \A d \in Askers : at'[d] = "settled" => at[d] = "settled"
    BY <2>1 DEF AskTyping
  <2>3. ran' \subseteq allowed
    BY <2>1 DEF Granted
  <2>4. \A c1 : Asking!Last(c1)' = Asking!Last(c1)
    BY <2>1 DEF Asking!Last
  <2> QED
    BY <2>1, <2>2, <2>3, <2>4 DEF Granted
<1>3. ASSUME NEW c \in Askers, Asking!CallEnds(c)
      PROVE  Granted'
  <2>1. /\ asks' = asks /\ askAnswers' = askAnswers /\ allowed' = allowed /\ queued' = queued
        /\ outcome' = outcome /\ ran' = ran /\ at' = [at EXCEPT ![c] = "over"]
    BY <1>3, Zenon DEF Asking!CallEnds
  <2>2. \A d \in Askers : at'[d] = "settled" => at[d] = "settled"
    BY <2>1 DEF AskTyping
  <2>3. \A c1 : Asking!Last(c1)' = Asking!Last(c1)
    BY <2>1 DEF Asking!Last
  <2> QED
    BY <2>1, <2>2, <2>3 DEF Granted
<1>4. ASSUME NEW c \in Askers, Asking!Abort(c)
      PROVE  Granted'
  <2> DEFINE gone == {p.ask : p \in {q \in pending : q.ask[1] = c}}
  <2>1. /\ asks' = asks /\ queued' = queued /\ allowed' = allowed /\ ran' = ran
        /\ \/ at' = at /\ outcome' = outcome
           \/ at' = [at EXCEPT ![c] = "settled"] /\ outcome' = [outcome EXCEPT ![c] = "cancelled"]
        /\ askAnswers' = askAnswers \union {[ask |-> id, outcome |-> "cancelled"] : id \in gone}
    BY <1>4, Zenon DEF Asking!Abort
  <2>2. \A d \in Askers : at'[d] = "settled" /\ outcome'[d] = "allowed-once" =>
                            at[d] = "settled" /\ outcome[d] = "allowed-once"
    BY <2>1 DEF AskTyping
  <2>3. \A a \in askAnswers' : \/ a \in askAnswers
                               \/ a.outcome = "cancelled" /\ \E p \in pending : a.ask = p.ask
    BY <2>1
  <2>4. \A p \in pending, d \in Askers : at[d] = "settled" => p.ask # Asking!Last(d)
    BY Tokens DEF Placed, Asking!Last
  <2>5. \A c1 : Asking!Last(c1)' = Asking!Last(c1)
    BY <2>1 DEF Asking!Last
  <2>6. \A a \in askAnswers' : a.outcome = "allowed-once" => a.ask \in allowed
    BY <2>3 DEF Granted
  <2> HIDE DEF gone
  <2>7. ASSUME NEW d \in Askers, at'[d] = "settled", outcome'[d] = "allowed-once"
        PROVE  /\ Asking!Last(d) \in allowed /\ Asking!Last(d) \notin queued
               /\ \A a \in askAnswers' : a.ask # Asking!Last(d)
    <3>1. at[d] = "settled" /\ outcome[d] = "allowed-once"
      BY <2>2, <2>7
    <3>2. \A a \in askAnswers' : a.ask # Asking!Last(d)
      BY <2>3, <2>4, <3>1 DEF Granted
    <3> QED
      BY <3>1, <3>2 DEF Granted
  <2> QED
    BY <2>1, <2>5, <2>6, <2>7 DEF Granted
<1>5. ASSUME NEW a \in askAnswers, Asking!Resolve(a)
      PROVE  Granted'
  <2>0. PICK c : c = a.ask[1]
    OBVIOUS
  <2>1. /\ asks' = asks /\ queued' = queued /\ allowed' = allowed /\ ran' = ran
        /\ askAnswers' = askAnswers \ {a}
        /\ \/ at' = at /\ outcome' = outcome
           \/ /\ a.ask = Asking!Last(c) /\ at' = [at EXCEPT ![c] = "settled"]
              /\ outcome' = [outcome EXCEPT ![c] = a.outcome]
    BY <1>5, <2>0, Zenon DEF Asking!Resolve, Asking!Waits
  <2>2. \A c1 : Asking!Last(c1)' = Asking!Last(c1)
    BY <2>1 DEF Asking!Last
  <2>3. c \in Askers
    BY <2>0, Tokens
  <2>4. ASSUME NEW d \in Askers, at'[d] = "settled", outcome'[d] = "allowed-once"
        PROVE  /\ Asking!Last(d) \in allowed /\ Asking!Last(d) \notin queued
               /\ \A b \in askAnswers' : b.ask # Asking!Last(d)
    <3>1. CASE at[d] = "settled" /\ outcome[d] = "allowed-once"
      BY <2>1, <3>1 DEF Granted
    <3>2. CASE ~(at[d] = "settled" /\ outcome[d] = "allowed-once")
      <4>1. d = c /\ a.ask = Asking!Last(c) /\ a.outcome = "allowed-once"
        BY <2>1, <2>3, <2>4, <3>2 DEF AskTyping
      <4>2. a.ask \in allowed
        BY <4>1 DEF Granted
      <4>3. a.ask \notin queued
        BY DEF Placed
      <4>4. \A b \in askAnswers' : b.ask # a.ask
        BY <2>1 DEF Placed
      <4> QED
        BY <4>1, <4>2, <4>3, <4>4
    <3> QED
      BY <3>1, <3>2
  <2> QED
    BY <2>1, <2>2, <2>4 DEF Granted
<1>6. ASSUME NEW id \in queued, Asking!Dispatch(id)
      PROVE  Granted'
  <2>1. /\ asks' = asks /\ at' = at /\ outcome' = outcome /\ allowed' = allowed /\ ran' = ran
        /\ queued' = queued \ {id}
    BY <1>6 DEF Asking!Dispatch
  <2>2. \/ askAnswers' = askAnswers
        \/ \E result \in {"cancelled", "unavailable", "rogue"} :
             askAnswers' = askAnswers \union {[ask |-> id, outcome |-> Asking!Normal(result)]}
    BY <1>6 DEF Asking!Dispatch, Asking!Returns
  <2>3. \A result \in {"cancelled", "unavailable", "rogue"} : Asking!Normal(result) # "allowed-once"
    BY DEF Asking!Normal, Asking!Outcomes
  <2>4. \A a \in askAnswers' : a \in askAnswers \/ (a.ask = id /\ a.outcome # "allowed-once")
    BY <2>2, <2>3
  <2>5. \A c1 : Asking!Last(c1)' = Asking!Last(c1)
    BY <2>1 DEF Asking!Last
  <2>6. \A a \in askAnswers' : a.outcome = "allowed-once" => a.ask \in allowed
    BY <2>4 DEF Granted
  <2>7. ASSUME NEW d \in Askers, at[d] = "settled", outcome[d] = "allowed-once"
        PROVE  /\ Asking!Last(d) \in allowed /\ Asking!Last(d) \notin queued'
               /\ \A a \in askAnswers' : a.ask # Asking!Last(d)
    <3>1. Asking!Last(d) \in allowed /\ Asking!Last(d) \notin queued
      BY <2>7 DEF Granted
    <3>2. \A a \in askAnswers' : a.ask # Asking!Last(d)
      BY <2>4, <2>7, <3>1 DEF Granted
    <3> QED
      BY <2>1, <3>1, <3>2
  <2> QED
    BY <2>1, <2>5, <2>6, <2>7 DEF Granted
<1>7. ASSUME NEW p \in pending, NEW result \in {"allowed-once", "rejected"},
             Asking!Respond(p, result)
      PROVE  Granted'
  <2>1. /\ asks' = asks /\ at' = at /\ outcome' = outcome /\ queued' = queued /\ ran' = ran
        /\ askAnswers' = askAnswers \union {[ask |-> p.ask, outcome |-> result]}
        /\ allowed \subseteq allowed' /\ (result = "allowed-once" => p.id \in allowed')
    BY <1>7 DEF Asking!Respond, Asking!Returns, Asking!Normal, Asking!Outcomes
  <2>2. \A c1 : Asking!Last(c1)' = Asking!Last(c1)
    BY <2>1 DEF Asking!Last
  <2>3. p.id = p.ask
    BY DEF Placed
  <2>4. \A a \in askAnswers' : a.outcome = "allowed-once" => a.ask \in allowed'
    BY <2>1, <2>3 DEF Granted
  <2>5. \A d \in Askers : at[d] = "settled" => p.ask # Asking!Last(d)
    BY Tokens DEF Placed, Asking!Last
  <2>6. ASSUME NEW d \in Askers, at[d] = "settled", outcome[d] = "allowed-once"
        PROVE  /\ Asking!Last(d) \in allowed' /\ Asking!Last(d) \notin queued
               /\ \A a \in askAnswers' : a.ask # Asking!Last(d)
    BY <2>1, <2>5, <2>6 DEF Granted
  <2>7. ran' \subseteq allowed'
    BY <2>1 DEF Granted
  <2> QED
    BY <2>1, <2>2, <2>4, <2>6, <2>7 DEF Granted
<1>8. CASE Asking!Sweep
  <2>1. /\ asks' = asks /\ at' = at /\ outcome' = outcome /\ queued' = queued /\ ran' = ran
        /\ allowed' = allowed
        /\ askAnswers' = askAnswers \union {[ask |-> p.ask, outcome |-> "cancelled"] : p \in pending}
    BY <1>8 DEF Asking!Sweep, Asking!Swept
  <2>2. \A c1 : Asking!Last(c1)' = Asking!Last(c1)
    BY <2>1 DEF Asking!Last
  <2>3. \A a \in askAnswers' : \/ a \in askAnswers
                               \/ a.outcome = "cancelled" /\ \E p \in pending : a.ask = p.ask
    BY <2>1
  <2>4. \A p \in pending, d \in Askers : at[d] = "settled" => p.ask # Asking!Last(d)
    BY Tokens DEF Placed, Asking!Last
  <2>5. \A a \in askAnswers' : a.outcome = "allowed-once" => a.ask \in allowed
    BY <2>3 DEF Granted
  <2>6. ASSUME NEW d \in Askers, at[d] = "settled", outcome[d] = "allowed-once"
        PROVE  \A a \in askAnswers' : a.ask # Asking!Last(d)
    BY <2>3, <2>4, <2>6 DEF Granted
  <2> QED
    BY <2>1, <2>2, <2>5, <2>6 DEF Granted
<1>9. CASE Asking!TurnEnds \/ Asking!Unlisten \/ Asking!SetPolicy \/ UNCHANGED askVars
  <2>1. /\ asks' = asks /\ at' = at /\ outcome' = outcome /\ queued' = queued
        /\ askAnswers' = askAnswers /\ allowed' = allowed /\ ran' = ran
    BY <1>9 DEF Asking!TurnEnds, Asking!Unlisten, Asking!SetPolicy, askVars, Asking!service
  <2>2. \A c1 : Asking!Last(c1)' = Asking!Last(c1)
    BY <2>1 DEF Asking!Last
  <2> QED
    BY <2>1, <2>2 DEF Granted
<1> QED
  BY AskSteps, <1>1, <1>2, <1>3, <1>4, <1>5, <1>6, <1>7, <1>8, <1>9

LEMMA SameAsks ==
  /\ \A S : Asking!Cardinality(S) = Cardinality(S)
  /\ \A S : Asking!IsFiniteSet(S) <=> IsFiniteSet(S)
BY DEF Asking!Cardinality, Cardinality, Asking!IsFiniteSet, IsFiniteSet

LEMMA AskInit == Asking!Init => AskInv
<1> SUFFICES ASSUME Asking!Init PROVE AskInv
  OBVIOUS
<1>1. /\ log = <<>> /\ turn = "open" /\ queued = {} /\ askAnswers = {} /\ pending = {}
      /\ at = [c \in Askers |-> "free"] /\ asks = [c \in Askers |-> 0]
      /\ outcome = [c \in Askers |-> "unavailable"] /\ gateway = "up" /\ askAborted = {}
      /\ policy = "ask" /\ switches = 0 /\ allowed = {} /\ ran = {}
  BY DEF Asking!Init
<1>2. AskTyping
  <2>1. log \in Seq(AuditEvents)
    BY <1>1, EmptySeq
  <2>2. 0 \in 0..Switches
    BY ApprovalBounds DEF Asking!ApprovalsAssumption
  <2>3. /\ at \in [Askers -> {"free", "asking", "settled", "over"}] /\ asks \in [Askers -> 0..2]
        /\ outcome \in [Askers -> Asking!Outcomes]
    BY <1>1 DEF Asking!Outcomes
  <2> QED
    BY <1>1, <2>1, <2>2, <2>3 DEF AskTyping
<1>3. Logged
  BY <1>1 DEF Logged
<1>4. Standing /\ Placed /\ Granted
  BY <1>1 DEF Standing, Placed, Granted
<1> QED
  BY <1>2, <1>3, <1>4 DEF AskInv

LEMMA AskInvStep == AskInv /\ (Asking!Next \/ UNCHANGED askVars) => AskInv'
BY AskTypingStep, LoggedStep, StandingStep, PlacedStep, GrantedStep DEF AskInv

(* There are as many prompts as questions they stand for. *)
LEMMA OnePromptEach ==
  ASSUME AskTyping, Placed
  PROVE  Cardinality({p.ask : p \in pending}) = Cardinality(pending)
<1> DEFINE prompted == {p.ask : p \in pending}
           prompt == [id \in prompted |-> [ask |-> id, id |-> id]]
<1>1. IsFiniteSet(prompted)
  <2>1. IsFiniteSet(Askers \X (1..2))
    <3>1. IsFiniteSet(Askers)
      BY ApprovalBounds, SameAsks, Zenon DEF Asking!ApprovalsAssumption
    <3>2. IsFiniteSet(1..2)
      <4>1. \A m, n \in Int : IsFiniteSet(m..n)
        BY FS_Interval
      <4>2. 1 \in Int /\ 2 \in Int
        OBVIOUS
      <4> QED
        BY <4>1, <4>2, Zenon
    <3> QED
      BY <3>1, <3>2, FS_Product
  <2>2. prompted \subseteq Askers \X (1..2)
    BY DEF AskTyping, Asking!Ids
  <2> QED
    BY <2>1, <2>2, FS_Subset
<1>2. \A p \in pending : p = [ask |-> p.ask, id |-> p.ask]
  BY DEF AskTyping, Placed
<1>3. prompt \in [prompted -> pending]
  BY <1>2
<1>4. \A d, e \in prompted : prompt[d] = prompt[e] => d = e
  <2>1. \A d \in prompted : prompt[d].ask = d
    OBVIOUS
  <2> QED
    BY <2>1
<1>5. \A p \in pending : \E id \in prompted : prompt[id] = p
  BY <1>2
<1>6. prompt \in Bijection(prompted, pending)
  BY <1>3, <1>4, <1>5 DEF Bijection, Injection, Surjection, IsInjective
<1> QED
  BY <1>1, <1>6, FS_Bijection DEF ExistsBijection

LEMMA ApprovalsAreSafe == AskInv => Asking!ApprovalsSafe
<1> SUFFICES ASSUME AskInv PROVE Asking!ApprovalsSafe
  OBVIOUS
<1> USE DEF AskInv
<1>1. Asking!TypeOK
  BY OnePromptEach, SameAsks DEF AskTyping, AuditEvents, Asking!TypeOK
<1>2. Asking!OwnAnswer
  BY DEF Placed, Granted, Asking!OwnAnswer
<1>3. Asking!NoZombie
  <2> SUFFICES ASSUME NEW p \in pending
               PROVE  /\ at[p.ask[1]] = "asking" /\ p.ask = Asking!Last(p.ask[1])
                      /\ turn = "open" /\ gateway # "gone"
    BY DEF Asking!NoZombie
  <2>1. p.ask[1] \in Askers /\ at[p.ask[1]] = "asking"
    BY Tokens DEF Placed
  <2> QED
    BY <2>1 DEF Placed, Standing, AskTyping
<1>4. Asking!AuditWhole
  <2> SUFFICES ASSUME turn = "ended", NEW i \in DOMAIN log, log[i].type = "asked"
               PROVE  \E j \in DOMAIN log :
                        /\ j > i /\ log[j] = Asking!Decided(log[i].id)
                        /\ \A k \in DOMAIN log \ {j} : log[k] # log[j]
    BY DEF Asking!AuditWhole
  <2>1. DOMAIN log = 1..Len(log) /\ Len(log) \in Nat /\ log[i] \in AuditEvents
    BY LenProperties DEF AskTyping
  <2>2. PICK id \in Asking!Ids : log[i] = Asking!Asked(id)
    <3>1. PICK id \in Asking!Ids : log[i] = Asking!Asked(id) \/ log[i] = Asking!Decided(id)
      BY <2>1, Questions
    <3> QED
      BY <3>1 DEF Asking!Decided
  <2>3. log[i].id = id
    BY <2>2 DEF Asking!Asked
  <2>4. Closed(id)
    <3>1. id[1] \in Askers /\ id[2] \in 1..2
      BY Questions
    <3>2. id[2] <= asks[id[1]] /\ asks[id[1]] \in Nat
      BY <2>1, <2>2, <3>1 DEF Logged, AskTyping
    <3>3. at[id[1]] = "over"
      BY <3>1 DEF Standing
    <3> QED
      BY <3>1, <3>2, <3>3 DEF Closed
  <2>5. PICK j \in 1..Len(log) : i < j /\ log[j] = Asking!Decided(id)
    BY <2>1, <2>2, <2>4 DEF Logged
  <2>6. \A k \in DOMAIN log \ {j} : log[k] # log[j]
    BY <2>1 DEF Logged
  <2>7. j > i
    BY <2>1, <2>5
  <2> QED
    BY <2>1, <2>3, <2>5, <2>6, <2>7
<1> QED
  BY <1>1, <1>2, <1>3, <1>4 DEF Asking!ApprovalsSafe

(* However many calls of a turn ask at once, and whatever people, aborts, the *)
(* policy and an unloaded gateway do meanwhile: a prompt stands for the       *)
(* question its call asks now, a grant is what a person allowed for that      *)
(* question, and an ended turn has logged a decision behind every question:   *)
(* the run's ApprovalsHold, for any calls and any number of switches.         *)
THEOREM ApprovalsAlwaysHold == MCSpec => []ApprovalsHold
<1>1. MCInit => AskInv
  BY AskInit DEF MCInit
<1>2. AskInv /\ [MCNext]_<<part, vars, codeVars, askVars, jobVars>> => AskInv'
  BY AskInvStep DEF MCNext
<1>3. AskInv => ApprovalsHold
  BY ApprovalsAreSafe DEF ApprovalsHold
<1> QED
  BY <1>1, <1>2, <1>3, PTL DEF MCSpec

================================================================================
