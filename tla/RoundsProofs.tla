------------------------------ MODULE RoundsProofs -----------------------------
(***************************************************************************)
(* Proofs about the goal rounds of MCRounds, for any goals, people, bounds *)
(* and compositions around the driver, and about its reminders, for any    *)
(* instants, delays, intervals and bounds.                                 *)
(*                                                                         *)
(* The rounds.  The message of the reservation is in one place (InLine: at *)
(* most once in the inbox; InHand: or claimed by the turn), a reservation  *)
(* left with an idle agent is of an older revision (Resting), and what the *)
(* driver does not know to be stored it is about to check (Stored).        *)
(*                                                                         *)
(* The reminders.  Every prefix of the log is well formed and every event  *)
(* of it follows from the prefix before (Sound), the parties stand where   *)
(* the chain of transactions says (ReminderPlaces), and an occurrence that *)
(* may be sent again was sent at most once for each restart                *)
(* (ReminderRepeats).  What the fold of the log does with one more event   *)
(* is ActiveInAppend.                                                      *)
(***************************************************************************)
EXTENDS MCRounds, FiniteSetTheorems, WellFoundedInduction, TLAPS

Cur == <<goal.rev, goal.rounds>>
Most == CHOOSE n \in Limits : \A m \in Limits : m <= n

Goals == [phase : Phases, rev : 1 .. MaxRev + 1, rounds : Rounds, max : Limits, armed : BOOLEAN]
Attempts == [rev : 0 .. MaxRev + 1, round : Rounds, cancelled : BOOLEAN, stale : BOOLEAN,
             phase : {"none", "queued", "claimed", "admitted"}]

Types ==
  /\ goal \in Goals /\ attempt \in Attempts
  /\ corrupt \in BOOLEAN /\ competing \in BOOLEAN /\ checkpoint \in BOOLEAN
  /\ requested \in BOOLEAN /\ aborted \in BOOLEAN /\ wake \in BOOLEAN /\ barred \in BOOLEAN
  /\ runs \in [Slots -> {"none", "first", "loop", "flush", "stored"}] /\ owner \in {0} \cup Slots
  /\ plugin \in {"on", "closing", "off"}
  /\ turn \in {"idle", "claimed", "downstream", "outer", "step"}
  /\ batch \in Messages /\ inbox \in Seq(Messages) /\ sent \in 0 .. MaxHuman

(* Only people arm the goal, and a reservation is one round. *)
Shaped(a) == /\ a.phase = "none" => a = NoAttempt
             /\ a.phase # "none" => a.round > 0
Shapes == Types /\ (goal.armed => goal.rev <= MaxRev) /\ Shaped(attempt)

(* The queue q beside the reservation a, when the goal's revision is rev. *)
InLine(q, a, rev, armed) ==
  /\ a.rev <= rev
  /\ \A i \in DOMAIN q : IsRound(q[i]) => q[i].rev <= rev /\ (armed /\ q[i].rev = rev => Same(q[i], a))
  /\ \A i, j \in DOMAIN q : Same(q[i], a) /\ Same(q[j], a) => i = j
  /\ a.phase \in {"claimed", "admitted"} => \A i \in DOMAIN q : ~Same(q[i], a)
  /\ \A i \in DOMAIN q : Same(q[i], a) /\ q[i].joined => a.stale

(* The message m the turn holds before its step, beside the reservation a. *)
Held(m, a) == Same(m, a) => a.phase = "claimed" /\ (m.joined => a.stale)
InHand ==
  /\ turn \in {"claimed", "downstream", "outer"} => Held(batch, attempt)
  /\ turn \in {"downstream", "outer"} => Same(batch, attempt)

Resting == turn = "idle" /\ Armed /\ attempt.phase \in {"queued", "claimed"} => attempt.rev < goal.rev

Placed == Listening => InLine(inbox, attempt, goal.rev, Armed) /\ InHand /\ Resting

(* The round reserved in the goal's revision is within its limit. *)
Bounded ==
  Listening /\ attempt.phase \in {"queued", "claimed"} /\ attempt.rev = goal.rev
    => attempt.round <= goal.max

(* The driver's listeners stay until what they let in has entered. *)
Outside ==
  /\ turn \in {"downstream", "outer"} => Listening
  /\ turn = "outer" => ~Fenced /\ (plugin = "closing" => aborted)

Stops == barred /\ Armed /\ Listening => Running /\ aborted

(* What is not known to be stored is being stored, or is to be looked at again *)
(* by the one task under way.                                                  *)
Stored ==
  plugin = "on" /\ Armed /\ saved # Cur =>
    /\ ~checkpoint /\ attempt.phase # "admitted" => owner # 0 /\ runs[owner] = "flush" /\ Quiet
    /\ ~Quiet => /\ owner # 0 /\ runs[owner] \in {"first", "loop"}
                 /\ \A r \in Slots \ {owner} : runs[r] \in {"none", "flush"}

IInv == Shapes /\ Placed /\ Bounded /\ Outside /\ Stops /\ Stored /\ (Fenced => FenceHolds)

--------------------------------------------------------------------------------
(* The ways a step goes *)

LEMMA Bound == Most \in Limits /\ (\A m \in Limits : m <= Most) /\ Most \in Nat /\ Rounds = 0 .. Most
BY GoalRoundsAssumption DEF GoalRoundsAssumption, Most, Rounds

LEMMA TypesAreTypeOK == Types <=> TypeOK
BY DEF Types, TypeOK, Goals, Attempts

(* How a turn ends: the next one starts, the goal is paused, or the agent rests. *)
GoesOn(l, k) ==
  /\ inbox # <<>> /\ ~aborted /\ StartTurn(inbox, l) /\ goal' = k
  /\ UNCHANGED <<competing, checkpoint, requested, runs, owner>>
ToIdle ==
  /\ turn' = "idle" /\ batch' = Human /\ competing' = (competing /\ ~Listening) /\ RequestDrive
  /\ aborted' = FALSE /\ UNCHANGED <<wake, inbox>>
Pauses(k) ==
  /\ Listening /\ ~corrupt /\ k.phase = "active" /\ k.armed
  /\ attempt' = NoAttempt /\ goal' = [Stopped(k, "paused") EXCEPT !.rev = @ + 1] /\ checkpoint' = TRUE
Rests(l, k, g) ==
  /\ attempt' = l /\ goal' = k /\ checkpoint' = (checkpoint \/ g.rev # goal.rev)
  /\ Listening /\ ~corrupt /\ k.phase = "active" /\ k.armed
       => l.phase \notin {"queued", "claimed"} /\ ~l.cancelled

LEMMA Outcomes ==
  ASSUME NEW kind, NEW a, NEW g, Ends(kind, a, g)
  PROVE  \E l \in {a, Aborted(a)}, k \in {g, Disarmed(g)} :
           /\ aborted /\ Listening => l = Aborted(a) /\ (a.phase \notin {"claimed", "admitted"} => k = Disarmed(g))
           /\ GoesOn(l, k) \/ (ToIdle /\ (Pauses(k) \/ Rests(l, k, g)))
<1> DEFINE reason == IF aborted THEN "aborted" ELSE kind
           ours == a.phase \in {"claimed", "admitted"}
           left == IF Listening /\ reason = "aborted" THEN Aborted(a) ELSE a
           kept == IF Listening /\ (reason \in {"max-tokens", "error"} \/ (reason = "aborted" /\ ~ours))
                     THEN Disarmed(g) ELSE g
           pauses == /\ Listening /\ ~corrupt /\ kept.phase = "active" /\ kept.armed
                     /\ left.phase \in {"queued", "claimed"} \/ left.cancelled
<1>1. left \in {a, Aborted(a)} /\ kept \in {g, Disarmed(g)}
  OBVIOUS
<1>2. aborted /\ Listening => left = Aborted(a) /\ (~ours => kept = Disarmed(g))
  OBVIOUS
<1>3. CASE reason \in {"completed", "max-tokens"} /\ inbox # <<>>
  BY <1>1, <1>2, <1>3 DEF Ends, GoesOn
<1>4. CASE ~(reason \in {"completed", "max-tokens"} /\ inbox # <<>>)
  <2>1. ToIdle
    BY <1>4 DEF Ends, ToIdle, IdleEdge
  <2>2. attempt' = (IF pauses THEN NoAttempt ELSE left)
        /\ goal' = (IF pauses THEN [Stopped(kept, "paused") EXCEPT !.rev = @ + 1] ELSE kept)
        /\ checkpoint' = (checkpoint \/ pauses \/ g.rev # goal.rev)
    BY <1>4 DEF Ends
  <2>3. CASE pauses
    BY <1>1, <1>2, <2>1, <2>2, <2>3 DEF Pauses
  <2>4. CASE ~pauses
    BY <1>1, <1>2, <2>1, <2>2, <2>4 DEF Rests
  <2> QED BY <2>3, <2>4
<1> QED BY <1>3, <1>4

(* The goal stopped by its driver, a new revision. *)
Blocked == [Stopped(goal, "blocked") EXCEPT !.rev = @ + 1]

Reasons == {"blocked", "completed", "max-tokens", "error", "aborted"}
Leaves ==
  /\ Running /\ UNCHANGED <<corrupt, plugin, sent, obsVars>>
  /\ \E kind \in Reasons, a \in {attempt, NoAttempt}, g \in {goal, Blocked} :
       /\ a # attempt => turn \in {"claimed", "downstream"} /\ Listening /\ Same(batch, attempt)
       /\ g # goal => Armed /\ Listening /\ a = NoAttempt
       /\ Ends(kind, a, g)

LEMMA LeavesWith ==
  ASSUME NEW kind \in Reasons, NEW a \in {attempt, NoAttempt}, NEW g \in {goal, Blocked}, Ends(kind, a, g),
         a # attempt => turn \in {"claimed", "downstream"} /\ Listening /\ Same(batch, attempt),
         g # goal => Armed /\ Listening /\ a = NoAttempt,
         Running, UNCHANGED <<corrupt, plugin, sent, obsVars>>
  PROVE  Leaves
BY DEF Leaves

Enters ==
  /\ turn = "claimed" /\ ~IsRound(batch) /\ turn' = "step"
  /\ UNCHANGED <<goalVars, driverVars, batch, aborted, wake, inbox, sent, obsVars>>

Admits ==
  /\ turn \in {"claimed", "downstream", "outer"} /\ IsRound(batch) /\ ~aborted
  /\ turn = "claimed" => ~Listening
  /\ turn = "downstream" => Valid
  /\ Admit(attempt)
  /\ UNCHANGED <<competing, checkpoint, requested, runs, owner, plugin, batch, aborted, wake, inbox,
                 sent, obsVars>>

Passes ==
  /\ IsRound(batch) /\ Valid
  /\ \/ turn = "claimed" /\ turn' = "downstream"
     \/ turn = "downstream" /\ turn' = "outer" /\ ~Fenced /\ ~aborted
  /\ UNCHANGED <<goalVars, driverVars, batch, aborted, wake, inbox, sent, obsVars>>

LEMMA TurnSteps ==
  ASSUME Shapes, Placed, Outside, Turn
  PROVE  Leaves \/ Enters \/ Admits \/ Passes \/ WakeUp
<1>0. turn \in {"downstream", "outer"} => Listening /\ Same(batch, attempt) /\ IsRound(batch)
  BY DEF Outside, Placed, InHand, Same
<1>1. CASE Enter
  BY <1>1 DEF Enter, Enters, Admits, driverVars, goalVars, obsVars
<1>2. CASE FirstCheck
  <2>1. CASE Valid
    BY <1>2, <2>1 DEF FirstCheck, Passes, goalVars, driverVars, obsVars
  <2>2. CASE ~Valid
    <3> DEFINE a == IF Same(batch, attempt) THEN NoAttempt ELSE attempt
    <3>1. Ends("blocked", a, goal)
      BY <1>2, <2>2 DEF FirstCheck
    <3>2. a \in {attempt, NoAttempt} /\ (a # attempt => Same(batch, attempt))
      OBVIOUS
    <3>3. Running /\ UNCHANGED <<corrupt, plugin, sent, obsVars>>
      BY <1>2, <2>2 DEF FirstCheck, Running
    <3>4. a # attempt => turn \in {"claimed", "downstream"} /\ Listening /\ Same(batch, attempt)
      BY <1>2, <3>2 DEF FirstCheck
    <3> HIDE DEF a
    <3> QED BY <3>1, <3>2, <3>3, <3>4, LeavesWith DEF Reasons
  <2> QED BY <2>1, <2>2
<1>3. CASE SecondCheck
  BY <1>0, <1>3, LeavesWith DEF SecondCheck, Running, Reasons, Passes, StillValid, Fenced,
     goalVars, driverVars, obsVars, Admits
<1>4. CASE OuterDone
  BY <1>0, <1>4 DEF OuterDone, Admits
<1>5. CASE Rejected
  BY <1>0, <1>5, LeavesWith DEF Reasons, Rejected, Running, Blocked
<1>6. CASE Throws
  BY <1>0, <1>6, LeavesWith DEF Reasons, Throws, Running
<1>7. CASE OutsideEnds
  BY <1>7, LeavesWith DEF Reasons, OutsideEnds, Running
<1>8. CASE AbortSeen
  BY <1>8, LeavesWith DEF Reasons, AbortSeen
<1>9. CASE StepEnds
  BY <1>9, LeavesWith DEF Reasons, StepEnds, Running
<1> QED BY <1>1, <1>2, <1>3, <1>4, <1>5, <1>6, <1>7, <1>8, <1>9 DEF Turn

(* What a pass of the task r does. *)
Stalls(r) ==
  /\ requested' \in {FALSE, requested} /\ runs' = [runs EXCEPT ![r] = "loop"]
  /\ UNCHANGED <<goal, attempt, checkpoint, agentVars>>
Flushes(r) ==
  /\ checkpoint /\ runs[r] \in {"first", "loop"}
  /\ requested' = FALSE /\ checkpoint' = FALSE /\ runs' = [runs EXCEPT ![r] = "flush"]
  /\ UNCHANGED <<goal, attempt, agentVars>>
Accounts(r) ==
  /\ attempt # NoAttempt /\ attempt' = NoAttempt /\ checkpoint' = TRUE /\ requested' = TRUE
  /\ runs' = [runs EXCEPT ![r] = "loop"] /\ UNCHANGED <<goal, agentVars>>
Blocks(r) ==
  /\ Armed /\ goal' = Blocked
  /\ \/ \E second \in Free : runs' = [runs EXCEPT ![r] = "loop", ![second] = "flush"]
     \/ runs' = [runs EXCEPT ![r] = "loop"]
  /\ checkpoint' \in BOOLEAN /\ requested' \in BOOLEAN
  /\ UNCHANGED <<attempt, agentVars>>
Reserves(r) ==
  /\ attempt = NoAttempt /\ Armed /\ ~LimitReached /\ ~checkpoint /\ Reserve
  /\ requested' \in {FALSE, requested} /\ runs' = [runs EXCEPT ![r] = "loop"]
  /\ UNCHANGED <<goal, checkpoint>>

Works(r) ==
  /\ runs[r] \in {"first", "loop", "stored"}
  /\ UNCHANGED <<corrupt, competing, owner, plugin, sent, obsVars>>
  /\ Stalls(r) \/ (Ready /\ (Flushes(r) \/ Accounts(r) \/ Blocks(r) \/ Reserves(r)))

LEMMA Continues ==
  ASSUME NEW r \in Slots, NEW asked \in {FALSE, requested}, requested \in BOOLEAN, ~checkpoint, Continue(r, asked)
  PROVE  Stalls(r) \/ Accounts(r) \/ Blocks(r) \/ Reserves(r)
<1>1. CASE attempt # NoAttempt
  BY <1>1 DEF Continue, Accounts, Settled
<1>2. CASE attempt = NoAttempt /\ ~Armed
  BY <1>2 DEF Continue, Stalls
<1>3. CASE attempt = NoAttempt /\ Armed /\ LimitReached
  BY <1>3 DEF Continue, Blocks, Blocked
<1>4. CASE attempt = NoAttempt /\ Armed /\ ~LimitReached
  BY <1>4 DEF Continue, Reserves
<1> QED BY <1>1, <1>2, <1>3, <1>4

LEMMA TaskSteps ==
  ASSUME Types, Task
  PROVE  \E r \in Slots : Retire(r) \/ Works(r)
<1>1. PICK r \in Slots : Retire(r) \/ Drive(r) \/ Resumes(r)
  BY DEF Task
<1>2. CASE Drive(r)
  BY <1>2, Continues DEF Drive, Works, Stalls, obsVars, Flushes, Types
<1>3. CASE Resumes(r)
  BY <1>3, Continues DEF Resumes, AfterCheckpoint, Types, Works, Stalls, agentVars
<1> QED BY <1>1, <1>2, <1>3

(* A change people make. *)
PeopleAsk ==
  \E g \in Goals :
    /\ Asks(g) /\ g.rounds \in {0, goal.rounds} /\ g.rev = goal.rev
    /\ g.armed => goal.armed \/ g.phase = "active"

LEMMA AsksWith ==
  ASSUME NEW g \in Goals, Asks(g), g.rounds \in {0, goal.rounds}, g.rev = goal.rev,
         g.armed => goal.armed \/ g.phase = "active"
  PROVE  PeopleAsk
BY DEF PeopleAsk

LEMMA PeopleSteps ==
  ASSUME Types, People
  PROVE  Say \/ Cancel \/ PeopleAsk
<1>0. 0 \in Rounds
  BY Bound
<1>1. CASE Create
  <2>1. PICK max \in Limits :
          Asks([goal EXCEPT !.phase = "active", !.rounds = 0, !.max = max, !.armed = TRUE])
    BY <1>1 DEF Create
  <2> DEFINE g == [goal EXCEPT !.phase = "active", !.rounds = 0, !.max = max, !.armed = TRUE]
  <2>2. g \in Goals /\ g.rounds = 0 /\ g.rev = goal.rev /\ g.phase = "active"
    BY <1>0 DEF Types, Goals, Phases
  <2> QED BY <2>1, <2>2, AsksWith
<1>2. CASE Edit
  <2>1. PICK max \in Limits : Asks([goal EXCEPT !.max = max])
    BY <1>2 DEF Edit
  <2> DEFINE g == [goal EXCEPT !.max = max]
  <2>2. g \in Goals /\ g.rounds = goal.rounds /\ g.rev = goal.rev /\ (g.armed => goal.armed)
    BY DEF Types, Goals, Phases
  <2> QED BY <2>1, <2>2, AsksWith
<1>3. CASE Pause \/ Complete \/ Clear
  <2>1. PICK p \in {"paused", "complete", "none"} : Asks(Stopped(goal, p))
    BY <1>3 DEF Pause, Complete, Clear
  <2> DEFINE g == Stopped(goal, p)
  <2>2. g \in Goals /\ g.rounds = goal.rounds /\ g.rev = goal.rev /\ ~g.armed
    BY DEF Stopped, Types, Goals, Phases
  <2> QED BY <2>1, <2>2, AsksWith
<1>4. CASE Resume
  <2> DEFINE g == [goal EXCEPT !.phase = "active", !.armed = TRUE]
  <2>1. Asks(g)
    BY <1>4 DEF Resume
  <2>2. g \in Goals /\ g.rounds = goal.rounds /\ g.rev = goal.rev /\ g.phase = "active"
    BY DEF Types, Goals, Phases
  <2> QED BY <2>1, <2>2, AsksWith
<1> QED BY <1>1, <1>2, <1>3, <1>4 DEF People

(* What a turn leaves behind, with the reservation a and the goal g of its last *)
(* step, and the reservation l and the goal k after its end.                    *)
Left(a, g, l, k) ==
  /\ Running /\ UNCHANGED <<corrupt, plugin, sent, obsVars>>
  /\ a \in {attempt, NoAttempt} /\ g \in {goal, Blocked} /\ l \in {a, Aborted(a)} /\ k \in {g, Disarmed(g)}
  /\ a # attempt => turn \in {"claimed", "downstream"} /\ Listening /\ Same(batch, attempt)
  /\ g # goal => Armed /\ Listening /\ a = NoAttempt
  /\ aborted /\ Listening => l = Aborted(a) /\ (a.phase \notin {"claimed", "admitted"} => k = Disarmed(g))
  /\ GoesOn(l, k) \/ (ToIdle /\ (Pauses(k) \/ Rests(l, k, g)))

LEMMA LeavesAs ==
  ASSUME Leaves
  PROVE  \E a \in {attempt, NoAttempt}, g \in {goal, Blocked} :
           \E l \in {a, Aborted(a)}, k \in {g, Disarmed(g)} : Left(a, g, l, k)
<1>1. PICK kind \in Reasons, a \in {attempt, NoAttempt}, g \in {goal, Blocked} :
        /\ a # attempt => turn \in {"claimed", "downstream"} /\ Listening /\ Same(batch, attempt)
        /\ g # goal => Armed /\ Listening /\ a = NoAttempt
        /\ Ends(kind, a, g)
  BY DEF Leaves
<1>2. PICK l \in {a, Aborted(a)}, k \in {g, Disarmed(g)} :
        /\ aborted /\ Listening => l = Aborted(a) /\ (a.phase \notin {"claimed", "admitted"} => k = Disarmed(g))
        /\ GoesOn(l, k) \/ (ToIdle /\ (Pauses(k) \/ Rests(l, k, g)))
  BY <1>1, Outcomes
<1>3. Left(a, g, l, k)
  BY <1>1, <1>2 DEF Left, Leaves
<1> QED BY <1>3

--------------------------------------------------------------------------------
(* Types *)

LEMMA MessageTypes ==
  /\ Human \in Messages /\ NoAttempt \in Attempts /\ Shaped(NoAttempt)
  /\ 0 \in Rounds /\ Rounds \subseteq Nat
  /\ \A m \in Messages : m.rev \in Nat /\ m.round \in Nat
  /\ \A a \in Attempts : a.rev \in Nat /\ a.round \in Nat
  /\ \A g \in Goals : g.rev \in Nat /\ g.rounds \in Nat /\ g.max \in Nat
<1>1. 0 \in Rounds /\ Rounds \subseteq Nat /\ Limits \subseteq Nat /\ MaxRev \in Nat
  BY Bound, GoalRoundsAssumption DEF GoalRoundsAssumption
<1>2. Human \in Messages /\ NoAttempt \in Attempts /\ Shaped(NoAttempt)
  BY <1>1 DEF Human, Messages, NoAttempt, Attempts, Shaped
<1>3. \A m \in Messages : m.rev \in Nat /\ m.round \in Nat
  <2> SUFFICES ASSUME NEW m \in Messages PROVE m.rev \in Nat /\ m.round \in Nat
    OBVIOUS
  <2>1. m.rev \in 0 .. MaxRev + 1
    BY DEF Messages
  <2>2. m.round \in Rounds
    BY DEF Messages
  <2>3. m.rev \in Nat
    BY <1>1, <2>1
  <2> QED BY <1>1, <2>2, <2>3
<1>4. \A a \in Attempts : a.rev \in Nat /\ a.round \in Nat
  <2> SUFFICES ASSUME NEW a \in Attempts PROVE a.rev \in Nat /\ a.round \in Nat
    OBVIOUS
  <2>1. a.rev \in 0 .. MaxRev + 1
    BY DEF Attempts
  <2>2. a.round \in Rounds
    BY DEF Attempts
  <2>3. a.rev \in Nat
    BY <1>1, <2>1
  <2> QED BY <1>1, <2>2, <2>3
<1>5. \A g \in Goals : g.rev \in Nat /\ g.rounds \in Nat /\ g.max \in Nat
  <2> SUFFICES ASSUME NEW g \in Goals PROVE g.rev \in Nat /\ g.rounds \in Nat /\ g.max \in Nat
    OBVIOUS
  <2>1. g.rev \in 1 .. MaxRev + 1
    BY DEF Goals
  <2>2. g.rounds \in Rounds /\ g.max \in Limits
    BY DEF Goals
  <2>3. g.rev \in Nat
    BY <1>1, <2>1
  <2> QED BY <1>1, <2>2, <2>3
<1> QED BY <1>1, <1>2, <1>3, <1>4, <1>5

LEMMA Claimed ==
  ASSUME NEW q \in Seq(Messages), q # <<>>, NEW a \in Attempts, Shaped(a), StartTurn(q, a)
  PROVE  /\ turn' = "claimed" /\ aborted' = FALSE /\ wake' = FALSE
         /\ batch' \in Messages /\ inbox' \in Seq(Messages) /\ attempt' \in Attempts /\ Shaped(attempt')
<1>1. Head(q) \in Messages /\ Tail(q) \in Seq(Messages)
  OBVIOUS
<1>2. Claims(Head(q), a) \in Attempts /\ Shaped(Claims(Head(q), a))
  BY <1>1, MessageTypes DEF Same, IsRound, Messages, Claims, Attempts, Shaped
<1> QED BY <1>1, <1>2 DEF StartTurn

LEMMA AskedTypes ==
  ASSUME Types, RequestDrive
  PROVE  /\ requested' \in BOOLEAN /\ owner' \in {0} \cup Slots
         /\ runs' \in [Slots -> {"none", "first", "loop", "flush", "stored"}]
<1>1. CASE plugin # "on" \/ owner # 0
  BY <1>1 DEF RequestDrive, Types
<1>2. CASE plugin = "on" /\ owner = 0
  BY <1>2 DEF RequestDrive, Types, Free
<1> QED BY <1>1, <1>2

LEMMA EndTypes ==
  ASSUME Shapes, NEW a, NEW g, NEW l, NEW k, Left(a, g, l, k)
  PROVE  /\ l \in Attempts /\ Shaped(l)
         /\ g \in Goals /\ k \in Goals /\ (g.armed \/ k.armed => goal.armed /\ g.rev <= MaxRev /\ g = goal)
         /\ k.rev = g.rev
<1>1. a \in Attempts /\ Shaped(a)
  BY MessageTypes DEF Left, Shapes, Types
<1>2. l \in Attempts /\ Shaped(l)
  BY <1>1 DEF Left, Aborted, Attempts, Shaped, NoAttempt
<1>3. g \in Goals /\ (g.armed => goal.armed /\ g = goal)
  <2>1. CASE g = goal
    BY <2>1 DEF Shapes, Types
  <2>2. CASE g # goal
    <3>1. g = Blocked /\ goal.armed
      BY <2>2 DEF Left, Armed
    <3>2. goal.rev \in 1 .. MaxRev /\ goal.rev + 1 \in 1 .. MaxRev + 1
      BY <3>1, GoalRoundsAssumption DEF GoalRoundsAssumption, Shapes, Types, Goals
    <3> QED BY <3>1, <3>2 DEF Blocked, Stopped, Shapes, Types, Goals, Phases
  <2> QED BY <2>1, <2>2
<1>4. k \in Goals /\ (k.armed => g.armed) /\ k.rev = g.rev
  BY <1>3 DEF Left, Disarmed, Goals
<1> QED BY <1>2, <1>3, <1>4 DEF Shapes

LEMMA LeavesShapes ==
  ASSUME Shapes, Leaves
  PROVE  Shapes'
<1>1. PICK a \in {attempt, NoAttempt}, g \in {goal, Blocked} :
        \E l \in {a, Aborted(a)}, k \in {g, Disarmed(g)} : Left(a, g, l, k)
  BY LeavesAs
<1>2. PICK l \in {a, Aborted(a)}, k \in {g, Disarmed(g)} : Left(a, g, l, k)
  BY <1>1
<1>3. /\ l \in Attempts /\ Shaped(l)
      /\ g \in Goals /\ k \in Goals /\ (g.armed \/ k.armed => goal.armed /\ g.rev <= MaxRev /\ g = goal)
      /\ k.rev = g.rev
  BY <1>2, EndTypes
<1>4. /\ corrupt' \in BOOLEAN /\ barred' \in BOOLEAN /\ plugin' \in {"on", "closing", "off"} /\ sent' \in 0 .. MaxHuman
  BY <1>2 DEF Left, Shapes, Types, obsVars
<1>5. CASE GoesOn(l, k)
  BY <1>3, <1>4, <1>5, Claimed DEF GoesOn, Shapes, Types
<1>6. CASE ToIdle /\ Pauses(k)
  <2>1. /\ requested' \in BOOLEAN /\ owner' \in {0} \cup Slots
        /\ runs' \in [Slots -> {"none", "first", "loop", "flush", "stored"}]
    BY <1>6, AskedTypes DEF ToIdle, Shapes
  <2>2. goal' \in Goals /\ ~goal'.armed
    <3>1. k.rev \in 1 .. MaxRev /\ k.rev + 1 \in 1 .. MaxRev + 1
      BY <1>3, <1>6, GoalRoundsAssumption DEF Pauses, GoalRoundsAssumption, Goals
    <3> QED BY <1>3, <1>6, <3>1 DEF Pauses, Stopped, Goals, Phases
  <2> QED BY <1>4, <1>6, <2>1, <2>2, MessageTypes DEF ToIdle, Pauses, Shapes, Types
<1>7. CASE ToIdle /\ Rests(l, k, g)
  BY <1>3, <1>4, <1>7, AskedTypes, MessageTypes DEF ToIdle, Shapes, Rests, Types
<1> QED BY <1>2, <1>5, <1>6, <1>7 DEF Left

LEMMA TaskShapes ==
  ASSUME Shapes, NEW r \in Slots, Retire(r) \/ Works(r)
  PROVE  Shapes'
<1>1. CASE Retire(r)
  BY <1>1 DEF Retire, Shapes, Types, goalVars, agentVars, obsVars
<1>2. CASE Works(r)
  <2>1. /\ corrupt' \in BOOLEAN /\ competing' \in BOOLEAN /\ owner' \in {0} \cup Slots
        /\ plugin' \in {"on", "closing", "off"} /\ sent' \in 0 .. MaxHuman /\ barred' \in BOOLEAN
    BY <1>2 DEF Works, Shapes, Types, obsVars
  <2>2. CASE Stalls(r) \/ Flushes(r) \/ Accounts(r)
    BY <2>1, <2>2, MessageTypes DEF Stalls, Flushes, Accounts, Shapes, Types, agentVars
  <2>3. CASE Blocks(r)
    <3>1. runs' \in [Slots -> {"none", "first", "loop", "flush", "stored"}]
      BY <2>3 DEF Blocks, Shapes, Types, Free
    <3>2. goal' \in Goals /\ ~goal'.armed
      <4>1. goal.rev \in 1 .. MaxRev /\ goal.rev + 1 \in 1 .. MaxRev + 1
        BY <2>3, GoalRoundsAssumption DEF GoalRoundsAssumption, Blocks, Armed, Shapes, Types, Goals
      <4> QED BY <2>3, <4>1 DEF Blocks, Blocked, Stopped, Shapes, Types, Goals, Phases
    <3> QED BY <2>1, <2>3, <3>1, <3>2 DEF Blocks, Shapes, Types, agentVars
  <2>4. CASE Ready /\ Reserves(r)
    <3> DEFINE m == [rev |-> goal.rev, round |-> goal.rounds + 1, joined |-> FALSE]
               a == [NoAttempt EXCEPT !.rev = goal.rev, !.round = goal.rounds + 1, !.phase = "queued"]
    <3>1. StartTurn(Append(inbox, m), a)
      BY <2>4 DEF Ready, Running, Reserves, Reserve
    <3>2. goal.rounds + 1 \in Rounds /\ goal.rounds \in Nat
      <4>1. goal.rounds \in Rounds /\ goal.max \in Limits /\ ~(goal.rounds >= goal.max)
        BY <2>4 DEF Reserves, LimitReached, Shapes, Types, Goals
      <4>2. Limits \subseteq Nat /\ goal.max <= Most
        BY <4>1, Bound, GoalRoundsAssumption DEF GoalRoundsAssumption
      <4> QED BY <4>1, <4>2, Bound
    <3>3. m \in Messages /\ a \in Attempts /\ Shaped(a)
      <4>1. goal.rev \in 0 .. MaxRev + 1
        BY GoalRoundsAssumption DEF GoalRoundsAssumption, Shapes, Types, Goals
      <4>2. m \in Messages
        BY <3>2, <4>1 DEF Messages
      <4>3. NoAttempt \in Attempts
        BY MessageTypes
      <4>4. a \in Attempts /\ a.phase = "queued" /\ a.round = goal.rounds + 1
        BY <3>2, <4>1, <4>3 DEF Attempts
      <4>5. Shaped(a)
        BY <3>2, <4>4 DEF Shaped
      <4> QED BY <4>2, <4>4, <4>5
    <3>4. Append(inbox, m) \in Seq(Messages) /\ Append(inbox, m) # <<>>
      BY <3>3 DEF Shapes, Types
    <3>5. /\ turn' = "claimed" /\ aborted' = FALSE /\ wake' = FALSE
          /\ batch' \in Messages /\ inbox' \in Seq(Messages) /\ attempt' \in Attempts /\ Shaped(attempt')
      <4> HIDE DEF m, a
      <4> QED BY <3>1, <3>3, <3>4, Claimed
    <3> QED BY <2>1, <2>4, <3>5 DEF Reserves, Shapes, Types
  <2> QED BY <1>2, <2>2, <2>3, <2>4 DEF Works
<1> QED BY <1>1, <1>2

LEMMA AdmitsShapes ==
  ASSUME Shapes, Admits
  PROVE  Shapes'
<1>1. goal' \in Goals /\ goal'.armed = goal.armed /\ goal'.rev = goal.rev /\ corrupt' \in BOOLEAN
  BY DEF Admits, Admit, Shapes, Types, Goals, Messages
<1>2. attempt' \in Attempts /\ Shaped(attempt')
  BY MessageTypes DEF Admits, Admit, Shapes, Types, Attempts, Messages, Shaped, Same, IsRound
<1> QED BY <1>1, <1>2 DEF Admits, Admit, Shapes, Types, obsVars

LEMMA SayShapes ==
  ASSUME Shapes, Say
  PROVE  Shapes'
<1> DEFINE old == [i \in DOMAIN inbox |-> [inbox[i] EXCEPT !.joined = IsRound(inbox[i])]]
           q == Append(old, Human)
           a == IF Listening THEN Joined(attempt) ELSE attempt
<1>1. old \in Seq(Messages)
  <2>1. \A i \in DOMAIN inbox : inbox[i] \in Messages
    BY DEF Shapes, Types
  <2>2. \A i \in DOMAIN inbox : old[i] \in Messages
    <3>1. \A m : IsRound(m) \in BOOLEAN
      BY DEF IsRound
    <3> QED BY <2>1, <3>1 DEF Messages
  <2> QED BY <2>2 DEF Shapes, Types
<1>2. q \in Seq(Messages) /\ q # <<>>
  BY <1>1, MessageTypes
<1>3. a \in Attempts /\ Shaped(a)
  BY DEF Joined, Shapes, Types, Attempts, Shaped
<1>4. sent' \in 0 .. MaxHuman
  BY GoalRoundsAssumption DEF GoalRoundsAssumption, Say, Shapes, Types
<1>5. CASE turn = "idle"
  <2>1. StartTurn(q, a)
    BY <1>5 DEF Say
  <2>2. /\ turn' = "claimed" /\ aborted' = FALSE /\ wake' = FALSE
        /\ batch' \in Messages /\ inbox' \in Seq(Messages) /\ attempt' \in Attempts /\ Shaped(attempt')
    <3> HIDE DEF q, a
    <3> QED BY <1>2, <1>3, <2>1, Claimed
  <2> QED BY <1>4, <2>2 DEF Say, Shapes, Types, goalVars, obsVars
<1>6. CASE turn # "idle"
  BY <1>2, <1>3, <1>4, <1>6 DEF Say, Shapes, Types, goalVars, obsVars
<1> QED BY <1>5, <1>6

LEMMA AsksShapes ==
  ASSUME Shapes, PeopleAsk
  PROVE  Shapes'
<1>1. PICK g \in Goals : Asks(g) /\ g.rev = goal.rev
  BY DEF PeopleAsk
<1>2. goal' \in Goals /\ goal'.rev <= MaxRev
  BY <1>1, GoalRoundsAssumption DEF GoalRoundsAssumption, Asks, MayAsk, Shapes, Types, Goals,
     Commit
<1>3. /\ requested' \in BOOLEAN /\ owner' \in {0} \cup Slots
      /\ runs' \in [Slots -> {"none", "first", "loop", "flush", "stored"}]
  BY <1>1, AskedTypes DEF Asks, Commit, Shapes
<1> QED BY <1>1, <1>2, <1>3 DEF Asks, Commit, Shapes, Types, agentVars

LEMMA OtherShapes ==
  ASSUME Shapes, Enters \/ Passes \/ WakeUp \/ Flush \/ Cancel \/ Unload
  PROVE  Shapes'
<1>1. CASE Enters \/ Passes
  BY <1>1 DEF Enters, Passes, goalVars, driverVars, obsVars, Shapes, Types
<1>2. CASE WakeUp
  BY <1>2, Claimed DEF WakeUp, Shapes, Types, goalVars, obsVars
<1>3. CASE Flushed
  BY <1>3 DEF Flushed, Shapes, Types, goalVars, agentVars
<1>4. CASE FlushFails
  <2>1. goal' \in Goals /\ ~goal'.armed
    BY <1>4 DEF FlushFails, Disarmed, Shapes, Types, Goals
  <2>2. runs' \in [Slots -> {"none", "first", "loop", "flush", "stored"}]
    BY <1>4 DEF FlushFails, Shapes, Types
  <2>3. UNCHANGED <<corrupt, attempt, competing, checkpoint, requested, owner, plugin, agentVars,
                    sent, obsVars>>
    BY <1>4 DEF FlushFails
  <2> QED BY <2>1, <2>2, <2>3 DEF Shapes, Types, agentVars, obsVars
<1>5. CASE Cancel
  <2>1. PICK keep : Cancels(keep)
    BY <1>5 DEF Cancel
  <2>2. attempt' \in Attempts /\ Shaped(attempt')
    <3>1. CASE attempt' = attempt
      BY <3>1 DEF Shapes, Types
    <3>2. CASE attempt' # attempt
      <4>1. attempt' = [attempt EXCEPT !.cancelled = TRUE] /\ \E i \in DOMAIN inbox : Same(inbox[i], attempt)
        BY <2>1, <3>2 DEF Cancels
      <4>2. attempt.round > 0
        BY <4>1, MessageTypes DEF Same, IsRound, Shapes, Types, Messages
      <4>3. attempt.phase # "none"
        BY <4>2 DEF Shapes, Shaped, NoAttempt
      <4> QED BY <4>1, <4>2, <4>3 DEF Shapes, Types, Attempts, Shaped
    <3> QED BY <3>1, <3>2
  <2>3. inbox' \in Seq(Messages) /\ wake' \in BOOLEAN /\ aborted' \in BOOLEAN /\ barred' \in BOOLEAN
    BY <2>1 DEF Cancels, Shapes, Types
  <2> QED BY <1>5, <2>2, <2>3 DEF Cancel, Shapes, Types, goalVars
<1>6. CASE Dispose
  <2>1. goal' \in Goals /\ (goal'.armed => goal.armed) /\ goal'.rev = goal.rev
    BY <1>6 DEF Dispose, Disarmed, Shapes, Types, Goals
  <2>2. attempt' \in Attempts /\ Shaped(attempt')
    <3>1. PICK held \in BOOLEAN : held = (attempt # NoAttempt)
      OBVIOUS
    <3>2. attempt' = [attempt EXCEPT !.stale = held]
      BY <1>6, <3>1 DEF Dispose
    <3>3. attempt' \in Attempts /\ attempt'.phase = attempt.phase /\ attempt'.round = attempt.round
      BY <3>2 DEF Shapes, Types, Attempts
    <3>4. CASE attempt = NoAttempt
      BY <3>1, <3>2, <3>3, <3>4 DEF NoAttempt, Shaped
    <3>5. CASE attempt # NoAttempt
      BY <3>3, <3>5 DEF Shapes, Shaped
    <3> QED BY <3>3, <3>4, <3>5
  <2>3. inbox' \in Seq(Messages) /\ wake' \in BOOLEAN /\ aborted' \in BOOLEAN
    <3>1. CASE attempt # NoAttempt /\ Running
      <4>1. Closes
        BY <1>6, <3>1 DEF Dispose
      <4>2. inbox' = <<>> /\ wake' = FALSE /\ aborted' = TRUE
        BY <4>1 DEF Closes
      <4>3. <<>> \in Seq(Messages)
        OBVIOUS
      <4> QED BY <4>2, <4>3
    <3>2. CASE ~(attempt # NoAttempt /\ Running)
      BY <1>6, <3>2 DEF Dispose, Shapes, Types
    <3> QED BY <3>1, <3>2
  <2> QED BY <1>6, <2>1, <2>2, <2>3 DEF Dispose, Shapes, Types, obsVars
<1>7. CASE Disposed
  BY <1>7, MessageTypes DEF Disposed, Shapes, Types, goalVars, agentVars, obsVars
<1> QED BY <1>1, <1>2, <1>3, <1>4, <1>5, <1>6, <1>7 DEF Flush, Unload

--------------------------------------------------------------------------------
(* Where the message of the reservation is *)

LEMMA LineMoves ==
  ASSUME NEW q \in Seq(Messages), NEW a \in Attempts, NEW b \in Attempts,
         NEW rev \in Nat, NEW next \in Nat, NEW armed \in BOOLEAN, NEW still \in BOOLEAN,
         InLine(q, a, rev, armed), rev <= next, still => (armed /\ next = rev) \/ rev < next,
         b.rev = a.rev, b.round = a.round, a.stale => b.stale,
         b.phase \in {"claimed", "admitted"} => a.phase \in {"claimed", "admitted"}
  PROVE  InLine(q, b, next, still)
<1>1. \A m : Same(m, b) <=> Same(m, a)
  BY DEF Same
<1>2. \A i \in DOMAIN q : q[i].rev \in Nat
  BY MessageTypes
<1>3. a.rev \in Nat /\ b.rev <= next
  BY GoalRoundsAssumption DEF GoalRoundsAssumption, Attempts, InLine
<1>4. ASSUME NEW i \in DOMAIN q, IsRound(q[i])
      PROVE  q[i].rev <= next /\ (still /\ q[i].rev = next => Same(q[i], b))
  BY <1>1, <1>2, <1>4 DEF InLine
<1> QED BY <1>1, <1>3, <1>4 DEF InLine

LEMMA LineDrops ==
  ASSUME NEW q \in Seq(Messages), NEW a \in Attempts,
         NEW rev \in Nat, NEW next \in Nat, NEW armed \in BOOLEAN, NEW still \in BOOLEAN,
         InLine(q, a, rev, armed), rev <= next,
         still => armed /\ next = rev /\ \A i \in DOMAIN q : IsRound(q[i]) /\ q[i].rev = rev => ~Same(q[i], a)
  PROVE  InLine(q, NoAttempt, next, still)
<1>1. \A i \in DOMAIN q : ~Same(q[i], NoAttempt) /\ q[i].rev \in Nat
  BY MessageTypes DEF Same, IsRound, NoAttempt
<1>2. ASSUME NEW i \in DOMAIN q, IsRound(q[i])
      PROVE  q[i].rev <= next /\ ~(still /\ q[i].rev = next)
  BY <1>1, <1>2 DEF InLine
<1>3. NoAttempt.rev <= next
  BY DEF NoAttempt
<1> QED BY <1>1, <1>2, <1>3 DEF InLine

LEMMA LineClaims ==
  ASSUME NEW q \in Seq(Messages), q # <<>>, NEW a \in Attempts, Shaped(a), NEW rev, NEW armed \in BOOLEAN,
         Listening, InLine(q, a, rev, armed), StartTurn(q, a)
  PROVE  InLine(inbox', attempt', rev, armed) /\ Held(batch', attempt')
<1>1. inbox' = Tail(q) /\ batch' = q[1] /\ attempt' = Claims(q[1], a)
  BY DEF StartTurn
<1>2. /\ 1 \in DOMAIN q /\ DOMAIN Tail(q) = 1 .. (Len(q) - 1) /\ Len(q) \in Nat /\ DOMAIN q = 1 .. Len(q)
      /\ \A i \in DOMAIN Tail(q) : i + 1 \in DOMAIN q /\ Tail(q)[i] = q[i + 1] /\ i + 1 # 1 /\ i \in Nat
  OBVIOUS
<1>3. \A m : Same(m, attempt') <=> Same(m, a)
  BY <1>1 DEF Claims, Same, Attempts
<1>4. attempt'.rev = a.rev /\ attempt'.stale = a.stale
  BY <1>1 DEF Claims, Attempts
<1>5. CASE Same(q[1], a)
  <2>1. attempt'.phase = "claimed"
    BY <1>1, <1>5 DEF Claims, Attempts
  <2>2. \A i \in DOMAIN Tail(q) : ~Same(Tail(q)[i], a)
    BY <1>2, <1>5 DEF InLine
  <2>3. \A i \in DOMAIN Tail(q) : IsRound(Tail(q)[i]) =>
          Tail(q)[i].rev <= rev /\ (armed /\ Tail(q)[i].rev = rev => Same(Tail(q)[i], a))
    BY <1>2 DEF InLine
  <2>4. q[1].joined => a.stale
    BY <1>2, <1>5 DEF InLine
  <2>5. a.rev <= rev
    BY DEF InLine
  <2> QED BY <1>1, <1>3, <1>4, <2>1, <2>2, <2>3, <2>4, <2>5 DEF InLine, Held
<1>6. CASE ~Same(q[1], a)
  BY <1>1, <1>2, <1>6 DEF Claims, InLine, Held
<1> QED BY <1>5, <1>6

(* What the types say about the goal's revision. *)
LEMMA RevTypes ==
  ASSUME Shapes
  PROVE  /\ goal.rev \in Nat /\ goal.rounds \in Nat /\ goal.max \in Nat /\ Armed \in BOOLEAN
         /\ attempt.rev \in Nat /\ attempt.round \in Nat
<1>1. goal \in Goals /\ attempt \in Attempts
  BY DEF Shapes, Types
<1>2. Armed \in BOOLEAN
  BY DEF Armed
<1> QED BY <1>1, <1>2, MessageTypes

LEMMA LeavesPlaced ==
  ASSUME Shapes, Placed, Leaves
  PROVE  Placed'
<1>1. PICK a \in {attempt, NoAttempt}, g \in {goal, Blocked} :
        \E l \in {a, Aborted(a)}, k \in {g, Disarmed(g)} : Left(a, g, l, k)
  BY LeavesAs
<1>2. PICK l \in {a, Aborted(a)}, k \in {g, Disarmed(g)} : Left(a, g, l, k)
  BY <1>1
<1>3. /\ l \in Attempts /\ Shaped(l)
      /\ g \in Goals /\ k \in Goals /\ (g.armed \/ k.armed => goal.armed /\ g.rev <= MaxRev /\ g = goal)
      /\ k.rev = g.rev
  BY <1>2, EndTypes
<1>4. UNCHANGED <<corrupt, plugin>> /\ (Listening' <=> Listening)
  BY <1>2 DEF Left, Listening
<1>5. CASE ~Listening
  BY <1>4, <1>5 DEF Placed
<1>6. CASE Listening
  <2>1. InLine(inbox, attempt, goal.rev, Armed) /\ InHand
    BY <1>6 DEF Placed
  <2>2. /\ goal.rev \in Nat /\ Armed \in BOOLEAN /\ inbox \in Seq(Messages) /\ a \in Attempts
        /\ k.rev \in Nat /\ k.rev + 1 \in Nat /\ attempt \in Attempts
    BY <1>3, RevTypes, MessageTypes, GoalRoundsAssumption DEF GoalRoundsAssumption, Shapes, Types, Goals
  <2>3. InLine(inbox, a, goal.rev, Armed)
    <3>1. CASE a = attempt
      BY <2>1, <3>1
    <3>2. CASE a # attempt
      <4>1. a = NoAttempt /\ turn \in {"claimed", "downstream"} /\ Same(batch, attempt)
        BY <1>2, <3>2 DEF Left
      <4>2. attempt.phase = "claimed"
        BY <2>1, <4>1 DEF InHand, Held
      <4>3. \A i \in DOMAIN inbox : ~Same(inbox[i], attempt)
        BY <2>1, <4>2 DEF InLine
      <4> QED BY <2>1, <2>2, <4>1, <4>3, LineDrops
    <3> QED BY <3>1, <3>2
  <2>4. goal.rev <= k.rev /\ ((~corrupt /\ k.phase = "active" /\ k.armed) => Armed /\ k.rev = goal.rev)
    <3>1. CASE g = goal
      BY <1>2, <1>3, <2>2, <3>1 DEF Left, Disarmed, Goals, Armed
    <3>2. CASE g = Blocked
      <4>1. g.rev = goal.rev + 1 /\ ~g.armed
        BY <3>2 DEF Blocked, Stopped, Shapes, Types, Goals
      <4> QED BY <1>2, <1>3, <2>2, <3>2, <4>1 DEF Left, Disarmed
    <3> QED BY <1>2, <3>1, <3>2 DEF Left
  <2> DEFINE still == ~corrupt /\ k.phase = "active" /\ k.armed
  <2>5. still \in BOOLEAN
    OBVIOUS
  <2>6. InLine(inbox, l, k.rev, still)
    <3>1. l.rev = a.rev /\ l.round = a.round /\ l.stale = a.stale /\ l.phase = a.phase
      BY <1>2, <2>2 DEF Left, Aborted, Attempts
    <3> HIDE DEF still
    <3>2. still => Armed /\ k.rev = goal.rev
      BY <2>4 DEF still
    <3> QED BY <1>3, <2>2, <2>3, <2>4, <2>5, <3>1, <3>2, LineMoves
  <2>7. CASE GoesOn(l, k)
    <3>1. StartTurn(inbox, l) /\ goal' = k /\ inbox # <<>>
      BY <2>7 DEF GoesOn
    <3>2. Armed' <=> still
      BY <1>4, <3>1 DEF Armed
    <3>3. InLine(inbox', attempt', k.rev, still) /\ Held(batch', attempt')
      <4> HIDE DEF still
      <4> QED BY <1>3, <1>6, <2>2, <2>5, <2>6, <3>1, LineClaims
    <3>4. turn' = "claimed"
      BY <3>1 DEF StartTurn
    <3>5. InLine(inbox', attempt', goal'.rev, Armed')
      BY <3>1, <3>2, <3>3 DEF InLine
    <3> QED BY <3>3, <3>4, <3>5 DEF Placed, InHand, Resting
  <2>8. CASE ToIdle /\ Pauses(k)
    <3>1. attempt' = NoAttempt /\ goal'.rev = k.rev + 1 /\ ~goal'.armed /\ inbox' = inbox /\ turn' = "idle"
      BY <1>3, <2>8 DEF Pauses, ToIdle, Stopped, Goals
    <3>2. ~Armed' /\ Armed' \in BOOLEAN
      BY <3>1 DEF Armed
    <3>3. InLine(inbox', attempt', goal'.rev, Armed')
      <4>1. goal'.rev \in Nat /\ k.rev <= goal'.rev
        BY <2>2, <3>1
      <4> HIDE DEF still
      <4>2. InLine(inbox, NoAttempt, goal'.rev, Armed')
        BY <1>3, <2>2, <2>5, <2>6, <3>2, <4>1, LineDrops
      <4> QED BY <3>1, <4>2
    <3> QED BY <3>1, <3>3 DEF Placed, InHand, Resting, Armed
  <2>9. CASE ToIdle /\ Rests(l, k, g)
    BY <1>4, <1>6, <2>6, <2>9 DEF Rests, ToIdle, Armed, InLine, Resting, Placed, InHand
  <2> QED BY <1>2, <2>7, <2>8, <2>9 DEF Left
<1> QED BY <1>5, <1>6

(* A step that leaves the inbox, or empties it, and keeps what the reservation is. *)
LEMMA LineStays ==
  ASSUME Shapes, Shapes', InLine(inbox, attempt, goal.rev, Armed), inbox' \in {inbox, <<>>},
         goal.rev <= goal'.rev, Armed' => (Armed /\ goal'.rev = goal.rev) \/ goal.rev < goal'.rev,
         attempt'.rev = attempt.rev, attempt'.round = attempt.round, attempt.stale => attempt'.stale,
         attempt'.phase \in {"claimed", "admitted"} => attempt.phase \in {"claimed", "admitted"}
  PROVE  InLine(inbox', attempt', goal'.rev, Armed')
<1>1. goal.rev \in Nat /\ Armed \in BOOLEAN /\ inbox \in Seq(Messages) /\ attempt \in Attempts
  BY RevTypes DEF Shapes, Types
<1>2. goal'.rev \in Nat /\ Armed' \in BOOLEAN /\ attempt' \in Attempts
  BY MessageTypes DEF Shapes, Types, Armed
<1>3. InLine(inbox, attempt', goal'.rev, Armed')
  BY <1>1, <1>2, LineMoves
<1>4. CASE inbox' = inbox
  BY <1>3, <1>4
<1>5. CASE inbox' = <<>>
  BY <1>3, <1>5 DEF InLine
<1> QED BY <1>4, <1>5

LEMMA AdmitsPlaced ==
  ASSUME Shapes, Placed, Admits
  PROVE  Placed'
<1>1. Shapes' /\ (Listening' <=> Listening) /\ inbox' = inbox /\ turn' = "step"
  BY AdmitsShapes DEF Admits, Admit, Listening
<1>2. goal'.rev = goal.rev /\ goal'.phase = goal.phase /\ goal'.armed = goal.armed /\ (corrupt => corrupt')
  BY DEF Admits, Admit, Shapes, Types, Goals
<1> SUFFICES ASSUME Listening PROVE InLine(inbox', attempt', goal'.rev, Armed')
  BY <1>1 DEF Placed, InHand, Resting
<1>3. InLine(inbox, attempt, goal.rev, Armed) /\ InHand
  BY DEF Placed
<1>4. goal.rev <= goal'.rev /\ (Armed' => Armed)
  BY <1>2, RevTypes DEF Armed
<1>5. CASE Same(batch, attempt)
  BY <1>1, <1>2, <1>3, <1>4, <1>5, LineStays DEF Admits, Admit, Shapes, Types, Attempts, InHand,
     Held
<1>6. CASE ~Same(batch, attempt)
  BY <1>1, <1>2, <1>3, <1>4, <1>6, LineStays DEF Admits, Admit
<1> QED BY <1>5, <1>6

LEMMA ReservesPlaced ==
  ASSUME Shapes, Placed, NEW r \in Slots, Works(r), Ready, Reserves(r)
  PROVE  Placed'
<1> DEFINE m == [rev |-> goal.rev, round |-> goal.rounds + 1, joined |-> FALSE]
           a == [NoAttempt EXCEPT !.rev = goal.rev, !.round = goal.rounds + 1, !.phase = "queued"]
           q == Append(inbox, m)
<1>1. StartTurn(q, a) /\ Listening /\ UNCHANGED <<goal, corrupt, plugin>> /\ attempt = NoAttempt /\ Armed
  BY DEF Ready, Running, Reserves, Reserve, Works, Listening
<1>2. goal.rev \in Nat /\ goal.rounds \in Nat /\ goal.rev \in 0 .. MaxRev + 1
  BY GoalRoundsAssumption, RevTypes DEF GoalRoundsAssumption, Shapes, Types, Goals
<1>3. goal.rounds + 1 \in Rounds
  <2>1. goal.rounds \in Rounds /\ goal.max \in Limits /\ ~(goal.rounds >= goal.max)
    BY DEF Reserves, LimitReached, Shapes, Types, Goals
  <2>2. Limits \subseteq Nat /\ goal.max <= Most
    BY <2>1, Bound, GoalRoundsAssumption DEF GoalRoundsAssumption
  <2> QED BY <2>1, <2>2, Bound
<1>4. m \in Messages
  BY <1>2, <1>3 DEF Messages
<1>5. a \in Attempts /\ a.rev = goal.rev /\ a.round = goal.rounds + 1 /\ a.phase = "queued"
  BY <1>2, <1>3, MessageTypes DEF Attempts
<1>6. Shaped(a)
  BY <1>2, <1>5 DEF Shaped
<1>7. /\ q \in Seq(Messages) /\ q # <<>> /\ DOMAIN q = DOMAIN inbox \cup {Len(inbox) + 1} /\ q[Len(inbox) + 1] = m
      /\ Len(inbox) + 1 \notin DOMAIN inbox
      /\ \A i \in DOMAIN inbox : q[i] = inbox[i]
  BY <1>4 DEF Shapes, Types
<1>8. \A i \in DOMAIN inbox : IsRound(q[i]) => q[i].rev <= goal.rev /\ q[i].rev # goal.rev
  BY <1>1, <1>7, MessageTypes DEF Placed, InLine, Shapes, Types, Same, IsRound, NoAttempt
<1>9. IsRound(m) /\ Same(m, a) /\ m.rev = goal.rev /\ ~m.joined
  BY <1>2, <1>5 DEF IsRound, Same
<1>10. InLine(q, a, goal.rev, Armed)
  <2>1. \A i \in DOMAIN inbox : ~Same(q[i], a)
    BY <1>5, <1>8 DEF Same
  <2> HIDE DEF q, a, m
  <2>2. a.rev <= goal.rev
    BY <1>2, <1>5
  <2>3. \A i \in DOMAIN q : IsRound(q[i]) => q[i].rev <= goal.rev /\ (Armed /\ q[i].rev = goal.rev => Same(q[i], a))
    BY <1>2, <1>7, <1>8, <1>9
  <2>4. \A i \in DOMAIN q : Same(q[i], a) => i = Len(inbox) + 1
    BY <1>7, <2>1
  <2>5. \A i \in DOMAIN q : Same(q[i], a) => ~q[i].joined
    BY <1>7, <1>9, <2>4
  <2> QED BY <1>5, <2>2, <2>3, <2>4, <2>5 DEF InLine
<1>11. InLine(inbox', attempt', goal.rev, Armed) /\ Held(batch', attempt') /\ turn' = "claimed"
  <2>1. Armed \in BOOLEAN
    BY DEF Armed
  <2>2. turn' = "claimed"
    BY <1>1 DEF StartTurn
  <2> HIDE DEF q, a, m
  <2> QED BY <1>1, <1>5, <1>6, <1>7, <1>10, <2>1, <2>2, LineClaims
<1>12. InLine(inbox', attempt', goal'.rev, Armed')
  BY <1>1, <1>11 DEF Armed, InLine
<1> QED BY <1>11, <1>12 DEF Placed, InHand, Resting

LEMMA TaskPlaced ==
  ASSUME Shapes, Placed, NEW r \in Slots, Retire(r) \/ Works(r)
  PROVE  Placed'
<1>0. Shapes'
  BY TaskShapes
<1>1. CASE Retire(r)
  BY <1>1 DEF Retire, Placed, InLine, InHand, Held, Resting, Listening, Armed, goalVars, agentVars
<1>2. CASE Works(r) /\ (Stalls(r) \/ Flushes(r))
  BY <1>2 DEF Works, Stalls, Flushes, Placed, InLine, InHand, Held, Resting, Listening, Armed, agentVars
<1>3. CASE Works(r) /\ Ready /\ Accounts(r)
  <2>1. Listening /\ turn = "idle" /\ UNCHANGED <<goal, corrupt, plugin, turn, inbox>> /\ attempt' = NoAttempt /\ attempt # NoAttempt
    BY <1>3 DEF Works, Ready, Running, Accounts, Listening, agentVars
  <2>2. InLine(inbox, attempt, goal.rev, Armed) /\ Resting
    BY <2>1 DEF Placed
  <2>3. goal.rev \in Nat /\ Armed \in BOOLEAN /\ inbox \in Seq(Messages) /\ attempt \in Attempts
    BY RevTypes DEF Shapes, Types
  <2>4. Armed => \A i \in DOMAIN inbox : IsRound(inbox[i]) /\ inbox[i].rev = goal.rev => ~Same(inbox[i], attempt)
    BY <2>1, <2>2, <2>3, RevTypes DEF Resting, Same, InLine, Shapes, Shaped, Attempts
  <2>5. InLine(inbox, NoAttempt, goal.rev, Armed)
    BY <2>2, <2>3, <2>4, LineDrops
  <2>6. InLine(inbox', attempt', goal'.rev, Armed')
    BY <2>1, <2>5 DEF InLine, Armed
  <2> QED BY <2>1, <2>6 DEF Placed, InHand, Resting, NoAttempt
<1>4. CASE Works(r) /\ Ready /\ Blocks(r)
  <2>1. Listening /\ turn' = "idle" /\ UNCHANGED <<corrupt, plugin, inbox, attempt>> /\ goal' = Blocked
    BY <1>4 DEF Works, Ready, Running, Blocks, Listening, agentVars
  <2>2. goal'.rev = goal.rev + 1 /\ ~goal'.armed
    BY <2>1 DEF Blocked, Stopped, Shapes, Types, Goals
  <2>3. goal.rev <= goal'.rev /\ ~Armed'
    BY <2>2, RevTypes DEF Armed
  <2>4. InLine(inbox', attempt', goal'.rev, Armed')
    BY <1>0, <2>1, <2>3, LineStays DEF Placed
  <2> QED BY <2>1, <2>3, <2>4 DEF Placed, InHand, Resting
<1>5. CASE Works(r) /\ Ready /\ Reserves(r)
  BY <1>5, ReservesPlaced
<1> QED BY <1>1, <1>2, <1>3, <1>4, <1>5 DEF Works

LEMMA SayPlaced ==
  ASSUME Shapes, Placed, Say
  PROVE  Placed'
<1> DEFINE old == [i \in DOMAIN inbox |-> [inbox[i] EXCEPT !.joined = IsRound(inbox[i])]]
           q == Append(old, Human)
           a == IF Listening THEN Joined(attempt) ELSE attempt
<1>1. UNCHANGED <<goal, corrupt, plugin>>
  BY DEF Say, goalVars
<1> SUFFICES ASSUME Listening
             PROVE  InLine(inbox', attempt', goal'.rev, Armed') /\ InHand' /\ turn' # "idle"
  BY <1>1 DEF Placed, Resting, Listening
<1>2. InLine(inbox, attempt, goal.rev, Armed) /\ InHand
  BY DEF Placed
<1>3. old \in Seq(Messages) /\ \A i \in DOMAIN inbox :
        old[i].rev = inbox[i].rev /\ old[i].round = inbox[i].round /\ (old[i].joined => IsRound(inbox[i]))
  <2>1. \A i \in DOMAIN inbox : inbox[i] \in Messages
    BY DEF Shapes, Types
  <2>2. \A m : IsRound(m) \in BOOLEAN
    BY DEF IsRound
  <2>3. \A i \in DOMAIN inbox : /\ old[i] \in Messages /\ old[i].rev = inbox[i].rev /\ old[i].round = inbox[i].round
                                /\ old[i].joined = IsRound(inbox[i])
    BY <2>1, <2>2 DEF Messages
  <2> QED BY <2>3 DEF Shapes, Types
<1>4. /\ q \in Seq(Messages) /\ q # <<>> /\ DOMAIN q = DOMAIN inbox \cup {Len(inbox) + 1}
      /\ q[Len(inbox) + 1] = Human /\ \A i \in DOMAIN inbox : q[i] = old[i]
  <2>1. DOMAIN old = DOMAIN inbox /\ Len(old) = Len(inbox) /\ Human \in Messages
    BY <1>3, MessageTypes DEF Shapes, Types
  <2>2. inbox \in Seq(Messages) /\ DOMAIN inbox = 1 .. Len(inbox) /\ Len(inbox) \in Nat
    BY DEF Shapes, Types
  <2> HIDE DEF old
  <2>3. /\ q \in Seq(Messages) /\ Len(q) = Len(old) + 1 /\ q[Len(old) + 1] = Human
        /\ \A i \in 1 .. Len(old) : q[i] = old[i]
    BY <1>3, <2>1
  <2>4. DOMAIN q = 1 .. Len(q) /\ q # <<>>
    BY <2>1, <2>2, <2>3
  <2> HIDE DEF q
  <2> QED BY <2>1, <2>2, <2>3, <2>4
<1>5. /\ a \in Attempts /\ Shaped(a) /\ a.rev = attempt.rev /\ a.round = attempt.round /\ a.phase = attempt.phase
      /\ (attempt.stale => a.stale) /\ (attempt.phase = "queued" => a.stale)
  BY DEF Joined, Shapes, Types, Attempts, Shaped
<1>6. ~IsRound(Human) /\ ~Same(Human, a)
  BY DEF IsRound, Same, Human
<1>7. \A i \in DOMAIN inbox : (Same(q[i], a) <=> Same(inbox[i], attempt)) /\ (IsRound(q[i]) <=> IsRound(inbox[i]))
                             /\ q[i].rev = inbox[i].rev
  BY <1>3, <1>4, <1>5 DEF Same, IsRound
<1>8. InLine(q, a, goal.rev, Armed)
  <2> HIDE DEF q, a, old
  <2>1. a.rev <= goal.rev
    BY <1>2, <1>5 DEF InLine
  <2>2. \A i \in DOMAIN q : IsRound(q[i]) => q[i].rev <= goal.rev /\ (Armed /\ q[i].rev = goal.rev => Same(q[i], a))
    BY <1>2, <1>4, <1>6, <1>7 DEF InLine
  <2>3. \A i, j \in DOMAIN q : Same(q[i], a) /\ Same(q[j], a) => i = j
    BY <1>2, <1>4, <1>6, <1>7 DEF InLine
  <2>4. a.phase \in {"claimed", "admitted"} => \A i \in DOMAIN q : ~Same(q[i], a)
    BY <1>2, <1>4, <1>5, <1>6, <1>7 DEF InLine
  <2>5. \A i \in DOMAIN q : Same(q[i], a) => a.stale
    BY <1>2, <1>4, <1>5, <1>6, <1>7, MessageTypes DEF InLine, Same, IsRound, Shapes, Types,
       Shaped, NoAttempt, Attempts
  <2> QED BY <2>1, <2>2, <2>3, <2>4, <2>5 DEF InLine
<1>9. CASE turn = "idle"
  <2>1. StartTurn(q, a) /\ turn' = "claimed"
    BY <1>9 DEF Say, StartTurn
  <2>2. Armed \in BOOLEAN
    BY DEF Armed
  <2>3. InLine(inbox', attempt', goal.rev, Armed) /\ Held(batch', attempt')
    <3> HIDE DEF q, a
    <3> QED BY <1>4, <1>5, <1>8, <2>1, <2>2, LineClaims
  <2> QED BY <1>1, <2>1, <2>3 DEF InLine, InHand, Armed
<1>10. CASE turn # "idle"
  <2>1. inbox' = q /\ attempt' = a /\ UNCHANGED <<turn, batch>>
    BY <1>10 DEF Say
  <2>2. InLine(inbox', attempt', goal'.rev, Armed')
    BY <1>1, <1>8, <2>1 DEF InLine, Armed
  <2>3. InHand'
    BY <1>2, <1>5, <2>1 DEF InHand, Held, Same
  <2> QED BY <1>10, <2>1, <2>2, <2>3
<1> QED BY <1>9, <1>10

LEMMA OtherPlaced ==
  ASSUME Shapes, Placed, Enters \/ Passes \/ WakeUp \/ Flush \/ Cancel \/ PeopleAsk \/ Unload
  PROVE  Placed'
<1>0. Shapes'
  BY OtherShapes, AsksShapes
<1>1. CASE Enters
  BY <1>1 DEF Enters, Placed, InLine, InHand, Held, Resting, Listening, Armed, goalVars, driverVars
<1>2. CASE Passes
  BY <1>2 DEF Passes, Valid, Placed, InLine, InHand, Held, Same, IsRound, Resting, Listening,
     Armed, goalVars, driverVars
<1>3. CASE WakeUp
  BY <1>3, LineClaims DEF WakeUp, goalVars, Listening, StartTurn, Placed, Armed, Shapes, Types,
     InLine, InHand, Resting, Held
<1>4. CASE Flushed
  BY <1>4 DEF Flushed, Placed, InLine, InHand, Held, Resting, Listening, Armed, goalVars, agentVars
<1>5. CASE FlushFails
  BY <1>0, <1>5, RevTypes, LineStays DEF FlushFails, Disarmed, agentVars, Shapes, Types, Goals,
     Armed, Listening, Placed, InHand, Held, Resting
<1>6. CASE Cancel
  BY <1>0, <1>6, RevTypes, LineStays DEF Cancel, Cancels, goalVars, Shapes, Types, Attempts,
     Armed, Listening, Placed, InHand, Held, Same, Resting
<1>7. CASE PeopleAsk
  BY <1>0, <1>7, RevTypes, LineStays DEF PeopleAsk, Asks, Commit, agentVars, Goals, Listening,
     Placed, InLine, InHand, Held, Resting
<1>8. CASE Dispose
  <2>1. UNCHANGED <<corrupt, turn, batch>> /\ Listening /\ inbox' \in {inbox, <<>>}
    BY <1>8 DEF Dispose, Closes, Listening
  <2>2. /\ attempt'.rev = attempt.rev /\ attempt'.round = attempt.round /\ attempt'.phase = attempt.phase
        /\ (attempt.stale => attempt'.stale)
    BY <1>8 DEF Dispose, NoAttempt, Shapes, Types, Attempts
  <2>3. goal.rev <= goal'.rev /\ (Armed' => FALSE) /\ goal'.rev = goal.rev
    BY <1>8, <2>1, RevTypes DEF Dispose, Armed, Disarmed, Shapes, Types, Goals
  <2>4. InLine(inbox', attempt', goal'.rev, Armed')
    BY <1>0, <2>1, <2>2, <2>3, LineStays DEF Placed
  <2>5. InHand'
    BY <2>1, <2>2 DEF Placed, InHand, Held, Same
  <2> QED BY <2>3, <2>4, <2>5 DEF Placed, Resting
<1>9. CASE Disposed
  BY <1>9 DEF Disposed, Placed, Listening
<1> QED BY <1>1, <1>2, <1>3, <1>4, <1>5, <1>6, <1>7, <1>8, <1>9 DEF Flush, Unload

--------------------------------------------------------------------------------
(* What the reservation is after a step of anybody but the driver's tasks *)

Others == Leaves \/ Enters \/ Admits \/ Passes \/ WakeUp \/ Flush \/ Say \/ Cancel \/ PeopleAsk \/ Unload

Keeps ==
  /\ attempt = NoAttempt => attempt' = NoAttempt
  /\ attempt'.phase \in {"queued", "claimed"} =>
       attempt.phase \in {"queued", "claimed"} /\ attempt'.rev = attempt.rev /\ attempt'.round = attempt.round
  /\ attempt.phase = "admitted" /\ Armed' /\ plugin' = "on" => attempt'.phase = "admitted"

LEMMA StepSplit ==
  ASSUME Shapes, Placed, Outside, Steps
  PROVE  (\E r \in Slots : Retire(r) \/ Works(r)) \/ (Quiet /\ Others)
<1>1. Types
  BY DEF Shapes
<1>2. CASE Task
  BY <1>1, <1>2, TaskSteps
<1>3. CASE Quiet /\ Turn
  BY <1>3, TurnSteps DEF Others
<1>4. CASE Quiet /\ People
  BY <1>1, <1>4, PeopleSteps DEF Others
<1>5. CASE Quiet /\ (Flush \/ Unload)
  BY <1>5 DEF Others
<1> QED BY <1>2, <1>3, <1>4, <1>5 DEF Steps

(* A claim changes only a reservation still queued. *)
LEMMA ClaimsKeep ==
  ASSUME NEW q \in Seq(Messages), q # <<>>, NEW a \in Attempts, Shaped(a), StartTurn(q, a),
         NEW rev, NEW armed, Listening => InLine(q, a, rev, armed)
  PROVE  /\ attempt'.rev = a.rev /\ attempt'.round = a.round
         /\ attempt' # a => a.phase = "queued" /\ attempt'.phase = "claimed"
<1>1. attempt' = Claims(q[1], a) /\ 1 \in DOMAIN q /\ q[1] \in Messages
  BY DEF StartTurn
<1>2. CASE Listening /\ Same(q[1], a)
  BY <1>1, <1>2, MessageTypes DEF InLine, Same, IsRound, Shaped, NoAttempt, Claims, Attempts
<1>3. CASE ~(Listening /\ Same(q[1], a))
  BY <1>1, <1>3 DEF Claims
<1> QED BY <1>2, <1>3

(* A turn that ends forgets a reservation only while its message is in hand. *)
LEMMA EndKeeps ==
  ASSUME Shapes, Placed, NEW a, NEW g, NEW l, NEW k, Left(a, g, l, k)
  PROVE  /\ attempt = NoAttempt => l = NoAttempt
         /\ l = NoAttempt \/ (l.rev = attempt.rev /\ l.round = attempt.round /\ l.phase = attempt.phase)
         /\ attempt.phase = "admitted" => l.phase = "admitted"
         /\ Listening => InLine(inbox, l, goal.rev, Armed)
<1>1. attempt \in Attempts /\ Shaped(attempt) /\ inbox \in Seq(Messages)
  BY DEF Shapes, Types
<1>2. a \in {attempt, NoAttempt} /\ l \in {a, Aborted(a)}
  BY DEF Left
<1>3. CASE a = attempt
  BY <1>1, <1>2, <1>3 DEF Aborted, Attempts, NoAttempt, Placed, InLine, Same
<1>4. CASE a # attempt
  <2>1. a = NoAttempt /\ turn \in {"claimed", "downstream"} /\ Listening /\ Same(batch, attempt)
    BY <1>2, <1>4 DEF Left
  <2>2. attempt.phase = "claimed" /\ InLine(inbox, attempt, goal.rev, Armed)
    BY <2>1 DEF Placed, InHand, Held
  <2>3. l = NoAttempt
    BY <1>2, <2>1 DEF Aborted, NoAttempt
  <2>4. InLine(inbox, NoAttempt, goal.rev, Armed)
    <3>1. goal.rev \in Nat /\ Armed \in BOOLEAN
      BY RevTypes
    <3>2. \A i \in DOMAIN inbox : ~Same(inbox[i], attempt)
      BY <2>2 DEF InLine
    <3> QED BY <1>1, <2>2, <3>1, <3>2, LineDrops
  <2> QED BY <2>2, <2>3, <2>4
<1> QED BY <1>3, <1>4

LEMMA LeavesKeeps ==
  ASSUME Shapes, Placed, Leaves
  PROVE  Keeps
<1>1. PICK a \in {attempt, NoAttempt}, g \in {goal, Blocked} :
        \E l \in {a, Aborted(a)}, k \in {g, Disarmed(g)} : Left(a, g, l, k)
  BY LeavesAs
<1>2. PICK l \in {a, Aborted(a)}, k \in {g, Disarmed(g)} : Left(a, g, l, k)
  BY <1>1
<1>3. l \in Attempts /\ Shaped(l)
  BY <1>2, EndTypes
<1>4. /\ attempt = NoAttempt => l = NoAttempt
      /\ l = NoAttempt \/ (l.rev = attempt.rev /\ l.round = attempt.round /\ l.phase = attempt.phase)
      /\ attempt.phase = "admitted" => l.phase = "admitted"
      /\ Listening => InLine(inbox, l, goal.rev, Armed)
  BY <1>2, EndKeeps
<1>5. NoAttempt.phase = "none"
  BY DEF NoAttempt
<1>6. CASE GoesOn(l, k)
  BY <1>3, <1>4, <1>5, <1>6, ClaimsKeep DEF GoesOn, Shapes, Types, Keeps
<1>7. CASE ToIdle /\ Pauses(k)
  BY <1>2, <1>5, <1>7, EndTypes DEF Pauses, Stopped, Goals, Keeps, Armed
<1>8. CASE ToIdle /\ Rests(l, k, g)
  BY <1>4, <1>5, <1>8 DEF Rests, Keeps
<1> QED BY <1>2, <1>6, <1>7, <1>8 DEF Left

LEMMA SayKeeps ==
  ASSUME Shapes, Placed, Say
  PROVE  Keeps
<1> DEFINE old == [i \in DOMAIN inbox |-> [inbox[i] EXCEPT !.joined = IsRound(inbox[i])]]
           q == Append(old, Human)
           a == IF Listening THEN Joined(attempt) ELSE attempt
<1>1. /\ attempt = NoAttempt => a = NoAttempt
      /\ a.rev = attempt.rev /\ a.round = attempt.round /\ a.phase = attempt.phase
  <2>1. attempt = NoAttempt => a = NoAttempt
    BY DEF Joined, NoAttempt
  <2>2. a.rev = attempt.rev /\ a.round = attempt.round /\ a.phase = attempt.phase
    BY DEF Joined, Shapes, Types, Attempts
  <2> QED BY <2>1, <2>2
<1>2. CASE turn = "idle"
  <2>1. StartTurn(q, a)
    BY <1>2 DEF Say
  <2>2. attempt' = Claims(Head(q), a)
    BY <2>1 DEF StartTurn
  <2>3. CASE attempt' = a
    BY <1>1, <2>3 DEF Keeps
  <2>4. CASE attempt' # a
    <3>1. Listening /\ Same(Head(q), a)
      BY <2>2, <2>4 DEF Claims
    <3>2. old \in Seq(Messages) /\ DOMAIN old = DOMAIN inbox /\ Len(old) = Len(inbox)
      <4>1. \A i \in DOMAIN inbox : inbox[i] \in Messages
        BY DEF Shapes, Types
      <4>2. \A m : IsRound(m) \in BOOLEAN
        BY DEF IsRound
      <4>3. \A i \in DOMAIN inbox : old[i] \in Messages
        BY <4>1, <4>2 DEF Messages
      <4> QED BY <4>3 DEF Shapes, Types
    <3>3. inbox # <<>> /\ Head(q) = old[1] /\ 1 \in DOMAIN inbox
      <4>1. ~Same(Human, a)
        BY DEF Same, IsRound, Human
      <4>2. Len(old) \in Nat /\ DOMAIN old = 1 .. Len(old)
        BY <3>2
      <4> HIDE DEF old
      <4>3. CASE Len(old) = 0
        BY <3>1, <3>2, <4>1, <4>3
      <4>4. CASE Len(old) > 0
        BY <3>2, <4>2, <4>4 DEF Shapes, Types
      <4> QED BY <4>2, <4>3, <4>4
    <3>4. Same(inbox[1], attempt) /\ inbox[1] \in Messages
      <4>1. inbox[1] \in Messages
        BY <3>3 DEF Shapes, Types
      <4>2. old[1].rev = inbox[1].rev /\ old[1].round = inbox[1].round
        BY <3>3, <4>1 DEF Messages
      <4> QED BY <1>1, <3>1, <3>3, <4>1, <4>2 DEF Same, IsRound
    <3>5. attempt.phase \notin {"claimed", "admitted"}
      BY <3>1, <3>3, <3>4 DEF Placed, InLine
    <3>6. attempt.phase # "none"
      BY <3>4, MessageTypes DEF Same, IsRound, Shapes, Types, Shaped, NoAttempt
    <3>7. attempt.phase = "queued"
      BY <3>5, <3>6 DEF Shapes, Types, Attempts
    <3>8. attempt'.rev = attempt.rev /\ attempt'.round = attempt.round
      <4>1. a \in Attempts
        BY DEF Joined, Shapes, Types, Attempts
      <4> HIDE DEF a, q
      <4> QED BY <1>1, <2>2, <4>1 DEF Claims, Attempts
    <3> QED BY <3>6, <3>7, <3>8 DEF Keeps, NoAttempt
  <2> QED BY <2>3, <2>4
<1>3. CASE turn # "idle"
  BY <1>1, <1>3 DEF Say, Keeps
<1> QED BY <1>2, <1>3

LEMMA OthersKeep ==
  ASSUME Shapes, Placed, Others
  PROVE  Keeps
<1>1. CASE Leaves
  BY <1>1, LeavesKeeps
<1>2. CASE Say
  BY <1>2, SayKeeps
<1>3. CASE Enters \/ Passes \/ Flush \/ PeopleAsk
  BY <1>3 DEF Enters, Passes, Flush, Flushed, FlushFails, PeopleAsk, Asks, driverVars, Keeps
<1>4. CASE Admits
  <2>1. ~Same(batch, NoAttempt)
    BY MessageTypes DEF Same, IsRound, NoAttempt, Shapes, Types
  <2>2. attempt' \in {attempt, [attempt EXCEPT !.phase = "admitted"]} /\ (attempt = NoAttempt => attempt' = attempt)
    BY <1>4, <2>1 DEF Admits, Admit
  <2> QED BY <2>2 DEF Keeps, Shapes, Types, Attempts
<1>5. CASE WakeUp
  <2>1. CASE inbox # <<>>
    BY <1>5, <2>1, ClaimsKeep DEF WakeUp, Shapes, Types, Placed, Keeps, NoAttempt
  <2>2. CASE inbox = <<>>
    BY <1>5, <2>2 DEF WakeUp, Keeps
  <2> QED BY <2>1, <2>2
<1>6. CASE Cancel
  <2>1. \A i \in DOMAIN inbox : ~Same(inbox[i], NoAttempt)
    BY MessageTypes DEF Same, IsRound, NoAttempt, Shapes, Types
  <2>2. attempt' \in {attempt, [attempt EXCEPT !.cancelled = TRUE]} /\ (attempt = NoAttempt => attempt' = attempt)
    BY <1>6, <2>1 DEF Cancel, Cancels
  <2> QED BY <2>2 DEF Keeps, Shapes, Types, Attempts
<1>7. CASE Dispose
  <2>1. PICK held \in BOOLEAN : held = (attempt # NoAttempt)
    OBVIOUS
  <2>2. attempt' = [attempt EXCEPT !.stale = held]
    BY <1>7, <2>1 DEF Dispose
  <2>3. attempt = NoAttempt => attempt' = NoAttempt
    <3>1. attempt = NoAttempt => held = FALSE
      BY <2>1
    <3>2. attempt = NoAttempt => attempt.stale = FALSE /\ attempt \in Attempts
      BY DEF NoAttempt, Shapes, Types
    <3>3. \A a \in Attempts : a.stale = held => [a EXCEPT !.stale = held] = a
      BY DEF Attempts
    <3> QED BY <2>2, <3>1, <3>2, <3>3
  <2> QED BY <2>2, <2>3 DEF Keeps, Shapes, Types, Attempts
<1>8. CASE Disposed
  BY <1>8 DEF Disposed, Keeps, NoAttempt
<1> QED BY <1>1, <1>2, <1>3, <1>4, <1>5, <1>6, <1>7, <1>8 DEF Others, Unload

--------------------------------------------------------------------------------
(* The limit of the round reserved *)

LEMMA BoundKept ==
  ASSUME Shapes, Placed, Bounded, Keeps, Listening' => Listening, goal.rev <= goal'.rev,
         goal'.rev = goal.rev => goal'.max = goal.max
  PROVE  Bounded'
<1> SUFFICES ASSUME Listening', attempt'.phase \in {"queued", "claimed"}, attempt'.rev = goal'.rev
             PROVE  attempt'.round <= goal'.max
  BY DEF Bounded
<1>1. attempt.phase \in {"queued", "claimed"} /\ attempt'.rev = attempt.rev /\ attempt'.round = attempt.round
  BY DEF Keeps
<1>2. attempt.rev <= goal.rev /\ Listening
  BY DEF Placed, InLine
<1>3. attempt.rev = goal.rev /\ goal'.rev = goal.rev
  BY <1>1, <1>2, RevTypes
<1> QED BY <1>1, <1>2, <1>3 DEF Bounded

(* No step of the others takes the goal back to an older revision. *)
LEMMA OthersMoveGoal ==
  ASSUME Shapes, Others
  PROVE  /\ goal.rev <= goal'.rev /\ (goal'.rev = goal.rev => goal'.max = goal.max)
         /\ Listening' => Listening
<1>0. goal.rev \in Nat /\ goal \in Goals
  BY RevTypes DEF Shapes, Types
<1>1. CASE Leaves
  <2>1. PICK a \in {attempt, NoAttempt}, g \in {goal, Blocked} :
          \E l \in {a, Aborted(a)}, k \in {g, Disarmed(g)} : Left(a, g, l, k)
    BY <1>1, LeavesAs
  <2>2. PICK l \in {a, Aborted(a)}, k \in {g, Disarmed(g)} : Left(a, g, l, k)
    BY <2>1
  <2>3. k \in Goals /\ k.rev = g.rev /\ g \in Goals
    BY <2>2, EndTypes
  <2>4. g.rev \in {goal.rev, goal.rev + 1} /\ k.max = goal.max
    BY <1>0, <2>3 DEF Disarmed, Goals, Blocked, Stopped
  <2>5. goal'.rev \in {k.rev, k.rev + 1} /\ goal'.max = k.max
    BY <2>2, <2>3 DEF Pauses, Stopped, Goals, Left, GoesOn, Rests
  <2> QED BY <1>0, <2>2, <2>3, <2>4, <2>5 DEF Left, Listening
<1>2. CASE Enters \/ Passes \/ WakeUp \/ Say \/ Cancel
  <2>1. UNCHANGED <<goal, plugin>>
    BY <1>2 DEF Enters, Passes, WakeUp, Say, Cancel, goalVars, driverVars
  <2> QED BY <1>0, <2>1 DEF Listening
<1>3. CASE Admits
  BY <1>0, <1>3 DEF Admits, Admit, Goals, Listening
<1>4. CASE Flush
  BY <1>0, <1>4 DEF Flush, Flushed, FlushFails, Disarmed, goalVars, Goals, Listening
<1>5. CASE PeopleAsk
  BY <1>0, <1>5 DEF PeopleAsk, Asks, Commit, Goals, Listening
<1>6. CASE Dispose
  BY <1>0, <1>6 DEF Dispose, Disarmed, Goals, Listening
<1>7. CASE Disposed
  BY <1>0, <1>7 DEF Disposed, goalVars, Listening
<1> QED BY <1>1, <1>2, <1>3, <1>4, <1>5, <1>6, <1>7 DEF Others, Unload

LEMMA OthersBounded ==
  ASSUME Shapes, Placed, Bounded, Others
  PROVE  Bounded'
BY OthersKeep, OthersMoveGoal, BoundKept

LEMMA TaskBounded ==
  ASSUME Shapes, Placed, Bounded, NEW r \in Slots, Retire(r) \/ Works(r)
  PROVE  Bounded'
<1>1. CASE Retire(r)
  BY <1>1 DEF Retire, Bounded, Listening, goalVars, agentVars
<1>2. CASE Works(r) /\ (Stalls(r) \/ Flushes(r))
  BY <1>2 DEF Works, Stalls, Flushes, Bounded, Listening, agentVars
<1>3. CASE Works(r) /\ Ready /\ Accounts(r)
  BY <1>3 DEF Works, Accounts, Bounded, NoAttempt
<1>4. CASE Works(r) /\ Ready /\ Blocks(r)
  BY <1>4, RevTypes, BoundKept DEF Works, Blocks, Blocked, Stopped, Shapes, Types, Goals,
     agentVars, Keeps, Listening
<1>5. CASE Works(r) /\ Ready /\ Reserves(r)
  <2> DEFINE m == [rev |-> goal.rev, round |-> goal.rounds + 1, joined |-> FALSE]
             a == [NoAttempt EXCEPT !.rev = goal.rev, !.round = goal.rounds + 1, !.phase = "queued"]
  <2>1. StartTurn(Append(inbox, m), a) /\ goal' = goal
    BY <1>5 DEF Ready, Running, Reserves, Reserve
  <2>2. a.round = goal.rounds + 1
    BY DEF NoAttempt
  <2>3. attempt'.round = goal.rounds + 1
    <3> HIDE DEF a
    <3>1. attempt' = a \/ attempt' = [a EXCEPT !.phase = "claimed"]
      BY <2>1 DEF StartTurn, Claims
    <3>2. [a EXCEPT !.phase = "claimed"].round = a.round
      BY DEF a, NoAttempt
    <3> QED BY <2>2, <3>1, <3>2
  <2>4. goal.rounds + 1 <= goal.max
    BY <1>5, RevTypes DEF Reserves, LimitReached
  <2> QED BY <2>1, <2>3, <2>4 DEF Bounded
<1> QED BY <1>1, <1>2, <1>3, <1>4, <1>5 DEF Works

--------------------------------------------------------------------------------
(* The listeners stay *)

LEMMA OthersOutside ==
  ASSUME Shapes, Placed, Outside, Others, UNCHANGED features
  PROVE  Outside'
<1>0. turn \in {"downstream", "outer"} => Listening /\ Same(batch, attempt) /\ attempt # NoAttempt
  BY MessageTypes DEF Same, IsRound, NoAttempt, Shapes, Types, Outside, Placed, InHand
<1>1. CASE Leaves
  <2>1. turn' \in {"claimed", "idle"}
    <3>1. PICK a \in {attempt, NoAttempt}, g \in {goal, Blocked} :
            \E l \in {a, Aborted(a)}, k \in {g, Disarmed(g)} : Left(a, g, l, k)
      BY <1>1, LeavesAs
    <3> QED BY <3>1 DEF Left, GoesOn, ToIdle, StartTurn
  <2> QED BY <2>1 DEF Outside
<1>2. CASE Enters \/ Admits
  BY <1>2 DEF Enters, Admits, Admit, Outside
<1>3. CASE Passes
  BY <1>3 DEF Passes, Valid, Outside, Fenced, driverVars, Listening
<1>4. CASE WakeUp
  BY <1>4 DEF WakeUp, StartTurn, Outside
<1>5. CASE Flush
  BY <1>5 DEF Flush, Flushed, FlushFails, Outside, Fenced, Listening, agentVars
<1>6. CASE Say
  BY <1>6 DEF Say, StartTurn, Outside, Fenced, Listening
<1>7. CASE Cancel
  BY <1>7 DEF Cancel, Cancels, Outside, Fenced, Listening
<1>8. CASE PeopleAsk
  BY <1>8 DEF PeopleAsk, Asks, Outside, Fenced, Listening, agentVars
<1>9. CASE Dispose
  BY <1>0, <1>9 DEF Dispose, Closes, Outside, Fenced, Listening, Running
<1>10. CASE Disposed
  BY <1>0, <1>10 DEF Disposed, Running, Outside, agentVars
<1> QED BY <1>1, <1>2, <1>3, <1>4, <1>5, <1>6, <1>7, <1>8, <1>9, <1>10 DEF Others, Unload

LEMMA TaskOutside ==
  ASSUME Outside, NEW r \in Slots, Retire(r) \/ Works(r), UNCHANGED features
  PROVE  Outside'
<1>1. CASE Retire(r)
  BY <1>1 DEF Retire, Outside, Fenced, Listening, agentVars
<1>2. CASE Works(r) /\ (Stalls(r) \/ Flushes(r) \/ Accounts(r) \/ Blocks(r))
  <2>1. UNCHANGED <<turn, aborted, plugin>>
    BY <1>2 DEF Works, Stalls, Flushes, Accounts, Blocks, agentVars
  <2> QED BY <2>1 DEF Outside, Fenced, Listening
<1>3. CASE Works(r) /\ Ready /\ Reserves(r)
  BY <1>3 DEF Works, Ready, Running, Reserves, Reserve, StartTurn, Outside
<1> QED BY <1>1, <1>2, <1>3 DEF Works

--------------------------------------------------------------------------------
(* What a cancel stops *)

(* After a turn ends the goal is armed only if it was, at the same revision. *)
LEMMA EndArmed ==
  ASSUME Shapes, NEW a, NEW g, NEW l, NEW k, Left(a, g, l, k), Armed'
  PROVE  /\ Armed /\ g = goal /\ k = goal /\ goal' = goal
         /\ GoesOn(l, k) \/ (ToIdle /\ Rests(l, k, g))
         /\ ~corrupt /\ k.phase = "active" /\ k.armed
<1>1. k \in Goals /\ g \in Goals /\ (k.armed => goal.armed /\ g = goal)
  BY EndTypes
<1>2. GoesOn(l, k) \/ (ToIdle /\ Rests(l, k, g))
  BY <1>1 DEF Pauses, Stopped, Goals, Left, Armed
<1>3. goal' = k
  BY <1>2 DEF GoesOn, Rests
<1>4. k.armed /\ ~corrupt /\ k.phase = "active"
  BY <1>3 DEF Armed, Left
<1>5. k = g
  BY <1>1, <1>4 DEF Disarmed, Goals, Left
<1> QED BY <1>1, <1>2, <1>3, <1>4, <1>5 DEF Armed

LEMMA OthersStop ==
  ASSUME Shapes, Stops, Others
  PROVE  Stops'
<1>1. CASE Leaves
  <2>1. PICK a \in {attempt, NoAttempt}, g \in {goal, Blocked} :
          \E l \in {a, Aborted(a)}, k \in {g, Disarmed(g)} : Left(a, g, l, k)
    BY <1>1, LeavesAs
  <2>2. PICK l \in {a, Aborted(a)}, k \in {g, Disarmed(g)} : Left(a, g, l, k)
    BY <2>1
  <2> SUFFICES ASSUME barred', Armed', Listening' PROVE FALSE
    BY DEF Stops
  <2>3. /\ Armed /\ g = goal /\ k = goal /\ ~corrupt /\ k.phase = "active" /\ k.armed
        /\ GoesOn(l, k) \/ (ToIdle /\ Rests(l, k, g))
    BY <2>2, EndArmed
  <2>4. barred /\ Listening
    BY <2>2 DEF Left, Listening, obsVars
  <2>5. aborted
    BY <2>3, <2>4 DEF Stops
  <2>6. ToIdle /\ Rests(l, k, g)
    BY <2>3, <2>5 DEF GoesOn
  <2>7. l = Aborted(a) /\ (a.phase \notin {"claimed", "admitted"} => k = Disarmed(g))
    BY <2>2, <2>4, <2>5 DEF Left
  <2>8. a.phase \in {"claimed", "admitted"}
    BY <2>3, <2>7 DEF Disarmed, Shapes, Types, Goals
  <2>9. a \in Attempts
    BY MessageTypes DEF Shapes, Types
  <2>10. l.cancelled
    BY <2>7, <2>8, <2>9 DEF Aborted, Attempts
  <2> QED BY <2>3, <2>4, <2>6, <2>10 DEF Rests
<1>2. CASE Enters \/ Passes
  BY <1>2 DEF Enters, Passes, goalVars, driverVars, obsVars, Stops, Armed, Listening, Running
<1>3. CASE Admits
  BY <1>3 DEF Admits, Admit, obsVars, Armed, Shapes, Types, Goals, Stops, Listening
<1>4. CASE WakeUp
  BY <1>4 DEF WakeUp, goalVars, obsVars, Stops, Armed, Listening, Running
<1>5. CASE Flush
  BY <1>5 DEF Flush, Flushed, FlushFails, Disarmed, goalVars, agentVars, obsVars, Shapes, Types,
     Goals, Stops, Armed, Listening, Running
<1>6. CASE Say
  BY <1>6 DEF Say, Running, goalVars, obsVars, Stops, Armed, Listening
<1>7. CASE Cancel
  BY <1>7 DEF Cancel, Cancels, goalVars, Stops, Armed, Listening, Running
<1>8. CASE PeopleAsk
  BY <1>8 DEF PeopleAsk, Asks, Stops
<1>9. CASE Dispose
  BY <1>9 DEF Dispose, Disarmed, Armed, Shapes, Types, Goals, Stops
<1>10. CASE Disposed
  BY <1>10 DEF Disposed, Stops, Listening
<1> QED BY <1>1, <1>2, <1>3, <1>4, <1>5, <1>6, <1>7, <1>8, <1>9, <1>10 DEF Others, Unload

LEMMA TaskStops ==
  ASSUME Shapes, Stops, NEW r \in Slots, Retire(r) \/ Works(r)
  PROVE  Stops'
<1>1. CASE Retire(r)
  BY <1>1 DEF Retire, Stops, Armed, Listening, Running, goalVars, agentVars, obsVars
<1>2. CASE Works(r) /\ (Stalls(r) \/ Flushes(r) \/ Accounts(r))
  <2>1. UNCHANGED <<goal, corrupt, plugin, barred, turn, aborted>>
    BY <1>2 DEF Works, Stalls, Flushes, Accounts, agentVars, obsVars
  <2> QED BY <2>1 DEF Stops, Armed, Listening, Running
<1>3. CASE Works(r) /\ Blocks(r)
  BY <1>3 DEF Blocks, Blocked, Stopped, Armed, Shapes, Types, Goals, Stops
<1>4. CASE Works(r) /\ Ready /\ Reserves(r)
  BY <1>4 DEF Works, Ready, Reserves, Stops, Listening, obsVars
<1> QED BY <1>1, <1>2, <1>3, <1>4 DEF Works

--------------------------------------------------------------------------------
(* What is stored *)

(* A request while every task is quiet starts at most one. *)
LEMMA AskedRuns ==
  ASSUME Types, Quiet, RequestDrive
  PROVE  /\ owner # 0 => UNCHANGED <<runs, owner>> /\ Quiet'
         /\ ~Quiet' => /\ owner' # 0 /\ runs'[owner'] \in {"first", "loop"}
                       /\ \A r \in Slots \ {owner'} : runs'[r] \in {"none", "flush"}
<1>1. CASE UNCHANGED <<runs, owner>>
  BY <1>1 DEF Quiet
<1>2. CASE ~UNCHANGED <<runs, owner>>
  BY <1>2, GoalRoundsAssumption DEF RequestDrive, GoalRoundsAssumption, Free, Slots, Types,
     Quiet
<1> QED BY <1>1, <1>2

(* Of a step that leaves the tasks, the goal and what is stored. *)
LEMMA StoredStays ==
  ASSUME Stored, UNCHANGED <<runs, owner, saved>>, plugin' = "on" => plugin = "on",
         plugin' = "on" /\ Armed' => Armed /\ Cur' = Cur,
         ~checkpoint' => ~checkpoint,
         attempt.phase = "admitted" /\ Armed' /\ plugin' = "on" => attempt'.phase = "admitted"
  PROVE  Stored'
BY DEF Stored, Quiet

LEMMA OthersStored ==
  ASSUME Shapes, Placed, Outside, Stored, Quiet, Others
  PROVE  Stored'
<1>0. Types /\ Keeps
  BY OthersKeep DEF Shapes
<1>1. CASE Leaves
  <2>1. PICK a \in {attempt, NoAttempt}, g \in {goal, Blocked} :
          \E l \in {a, Aborted(a)}, k \in {g, Disarmed(g)} : Left(a, g, l, k)
    BY <1>1, LeavesAs
  <2>2. PICK l \in {a, Aborted(a)}, k \in {g, Disarmed(g)} : Left(a, g, l, k)
    BY <2>1
  <2>3. plugin' = plugin /\ saved' = saved
    BY <2>2 DEF Left, obsVars
  <2>4. Armed' => Armed /\ Cur' = Cur
    BY <2>2, EndArmed DEF Cur
  <2>5. attempt.phase = "admitted" /\ Armed' /\ plugin' = "on" => attempt'.phase = "admitted"
    BY <1>0 DEF Keeps
  <2>6. CASE GoesOn(l, k)
    BY <2>3, <2>4, <2>5, <2>6, StoredStays DEF GoesOn
  <2>7. CASE ToIdle /\ (Pauses(k) \/ Rests(l, k, g))
    BY <1>0, <2>3, <2>4, <2>5, <2>7, AskedRuns DEF ToIdle, Pauses, Rests, Stored
  <2> QED BY <2>2, <2>6, <2>7 DEF Left
<1>2. CASE Enters \/ Passes \/ WakeUp \/ Say \/ Cancel
  <2>1. UNCHANGED <<goal, corrupt, plugin, runs, owner, saved, checkpoint>>
    BY <1>2 DEF Enters, Passes, WakeUp, Say, Cancel, goalVars, driverVars, obsVars
  <2>2. (Armed' => Armed) /\ Cur' = Cur
    BY <2>1 DEF Armed, Cur
  <2> QED BY <1>0, <2>1, <2>2, StoredStays DEF Keeps
<1>3. CASE Admits
  BY <1>0, <1>3 DEF Admits, obsVars, Listening, Placed, InHand, Admit, Types, Attempts, Stored,
     Quiet
<1>4. CASE Flushed
  BY <1>4 DEF Flushed, Stored, Cur, goalVars
<1>5. CASE FlushFails
  BY <1>0, <1>5 DEF FlushFails, Disarmed, Armed, Types, Goals, Stored
<1>6. CASE PeopleAsk
  BY <1>0, <1>6, AskedRuns DEF PeopleAsk, Asks, Commit, Stored
<1>7. CASE Unload
  BY <1>7 DEF Unload, Dispose, Disposed, Stored
<1> QED BY <1>1, <1>2, <1>3, <1>4, <1>5, <1>6, <1>7 DEF Others, Flush

LEMMA TaskStored ==
  ASSUME Shapes, Stored, NEW r \in Slots, Retire(r) \/ Works(r)
  PROVE  Stored'
<1>0. Types /\ runs[r] \in {"first", "loop", "stored"} /\ ~Quiet
  BY DEF Shapes, Retire, Works, Quiet
<1>1. CASE Retire(r)
  BY <1>0, <1>1 DEF Retire, goalVars, obsVars, Armed, Cur, Stored, Types, Quiet
<1>2. CASE Works(r) /\ ~(plugin = "on" /\ Armed /\ saved # Cur)
  BY <1>0, <1>2 DEF Works, obsVars, Blocks, Blocked, Stopped, Armed, Types, Goals, Stalls,
     Flushes, Accounts, Reserves, Stored, Cur
<1>3. CASE Works(r) /\ plugin = "on" /\ Armed /\ saved # Cur
  <2>1. /\ owner # 0 /\ runs[owner] \in {"first", "loop"} /\ (checkpoint \/ attempt.phase = "admitted")
        /\ \A q \in Slots \ {owner} : runs[q] \in {"none", "flush"}
    BY <1>0, <1>3 DEF Stored
  <2>2. r = owner /\ UNCHANGED <<corrupt, plugin, owner, saved>>
    BY <1>0, <1>3, <2>1 DEF Works, obsVars
  <2>3. CASE Stalls(r) \/ Accounts(r)
    BY <1>0, <2>1, <2>2, <2>3 DEF Stalls, Accounts, Types, Stored
  <2>4. CASE Flushes(r)
    BY <1>0, <2>1, <2>2, <2>4 DEF Flushes, Types, Quiet, Stored
  <2>5. CASE Blocks(r)
    BY <1>0, <2>5 DEF Blocks, Blocked, Stopped, Armed, Types, Goals, Stored
  <2>6. CASE Reserves(r)
    BY <2>1, <2>6 DEF Reserves, NoAttempt
  <2> QED BY <1>3, <2>3, <2>4, <2>5, <2>6 DEF Works
<1> QED BY <1>1, <1>2, <1>3

--------------------------------------------------------------------------------
(* What enters *)

(* A round that enters past the driver's listeners. *)
LEMMA AdmitsPast ==
  ASSUME Shapes, Placed, Outside, Admits, Listening
  PROVE  /\ plugin # "closing" /\ Same(batch, attempt)
         /\ Fenced => Valid /\ ~batch.joined
<1>1. turn \in {"downstream", "outer"} /\ (turn = "downstream" => Valid) /\ ~aborted
  BY DEF Admits
<1>2. Same(batch, attempt) /\ (batch.joined => attempt.stale)
  BY <1>1 DEF Placed, InHand, Held
<1>3. plugin # "closing"
  BY <1>1 DEF Outside, Valid
<1>4. Fenced => Valid
  BY <1>1 DEF Outside
<1> QED BY <1>2, <1>3, <1>4 DEF Valid

LEMMA AdmitsFits ==
  ASSUME Shapes, Placed, Bounded, Outside, Admits, Listening, Fenced
  PROVE  corrupt' = corrupt
<1>1. Valid /\ Same(batch, attempt)
  BY AdmitsPast
<1>2. /\ goal.phase = "active" /\ goal.rev = batch.rev /\ batch.round = goal.rounds + 1
      /\ attempt.phase = "claimed" /\ attempt.rev = batch.rev /\ attempt.round = batch.round
  BY <1>1 DEF Valid, Same, Armed
<1>3. batch.round <= goal.max
  BY <1>2 DEF Bounded
<1> QED BY <1>2, <1>3 DEF Admits, Admit, Shapes, Types

(* Only an admission makes the goal unreadable. *)
LEMMA FenceKept ==
  ASSUME Shapes, Placed, Bounded, Outside, UNCHANGED features, Fenced => FenceHolds,
         (\E r \in Slots : Retire(r) \/ Works(r)) \/ Others
  PROVE  Fenced' => FenceHolds'
<1> SUFFICES ASSUME Fenced, Listening' PROVE ~corrupt'
  BY DEF Fenced, FenceHolds
<1>1. CASE \E r \in Slots : Retire(r) \/ Works(r)
  BY <1>1 DEF Retire, Works, goalVars, FenceHolds, Listening
<1>2. CASE Others
  <2>1. Listening /\ ~corrupt
    BY <1>2, OthersMoveGoal DEF FenceHolds
  <2>2. CASE Leaves
    BY <2>1, <2>2 DEF Leaves
  <2>3. CASE Admits
    BY <2>1, <2>3, AdmitsFits
  <2>4. CASE Enters \/ Passes \/ WakeUp \/ Flush \/ Say \/ Cancel \/ PeopleAsk \/ Unload
    BY <2>1, <2>4 DEF Enters, Passes, WakeUp, Flush, Flushed, FlushFails, Say, Cancel, PeopleAsk, Asks,
                      Unload, Dispose, Disposed, goalVars
  <2> QED BY <1>2, <2>2, <2>3, <2>4 DEF Others
<1> QED BY <1>1, <1>2

(* Only a task reserves a round. *)
LEMMA ReservingIs ==
  ASSUME Shapes, Placed, Outside, Steps, Reserving
  PROVE  \E r \in Slots : Works(r) /\ Ready /\ Reserves(r)
<1>1. CASE Others
  BY <1>1, OthersKeep DEF Keeps, Reserving
<1>2. CASE \E r \in Slots : Retire(r) \/ Works(r)
  BY <1>2 DEF Retire, Reserving, Stalls, Flushes, Accounts, Blocks, Works
<1> QED BY <1>1, <1>2, StepSplit

(* Only an admission enters a round. *)
LEMMA AdmittingIs ==
  ASSUME Shapes, Placed, Outside, Steps, Admitting
  PROVE  Admits
<1>1. CASE \E r \in Slots : Retire(r) \/ Works(r)
  BY <1>1 DEF Retire, Works, Stalls, Flushes, Accounts, Blocks, Ready, Running, Reserves,
     Reserve, StartTurn, agentVars, Admitting
<1>2. CASE Leaves
  BY <1>2, LeavesAs DEF Left, GoesOn, ToIdle, StartTurn, Admitting
<1>3. CASE Enters
  BY <1>3 DEF Enters, Admitting
<1>4. CASE Passes \/ WakeUp \/ Say
  BY <1>4 DEF Passes, WakeUp, Say, StartTurn, Admitting
<1>5. CASE Flush \/ Cancel \/ PeopleAsk \/ Unload
  BY <1>5 DEF Flush, Flushed, FlushFails, Cancel, PeopleAsk, Asks, Unload, Dispose, Disposed, agentVars, Admitting
<1> QED BY <1>1, <1>2, <1>3, <1>4, <1>5, StepSplit DEF Others

--------------------------------------------------------------------------------
(* The theorems *)

LEMMA InitHolds == Init => IInv
<1> SUFFICES ASSUME Init PROVE IInv
  OBVIOUS
<1>1. Types /\ goal.armed = FALSE /\ Shaped(attempt)
  <2>1. goal \in Goals /\ goal.armed = FALSE
    <3>1. 1 \in 1 .. MaxRev + 1
      BY GoalRoundsAssumption DEF GoalRoundsAssumption
    <3> QED BY <3>1, MessageTypes DEF Init, Goals, Phases
  <2>2. 0 \in 0 .. MaxHuman
    BY GoalRoundsAssumption DEF GoalRoundsAssumption
  <2>3. <<>> \in Seq(Messages)
    OBVIOUS
  <2>4. runs \in [Slots -> {"none", "first", "loop", "flush", "stored"}]
    BY DEF Init
  <2> QED BY <2>1, <2>2, <2>3, <2>4, MessageTypes DEF Init, Types
<1>2. Shapes /\ ~Armed
  BY <1>1 DEF Shapes, Armed
<1>3. InLine(inbox, attempt, goal.rev, Armed) /\ InHand
  BY <1>2, RevTypes DEF Init, NoAttempt, InLine, InHand
<1>4. Placed /\ Bounded /\ Outside /\ Stops /\ Stored
  BY <1>2, <1>3 DEF Placed, Resting, Bounded, Outside, Stops, Stored, Init, NoAttempt
<1> QED BY <1>2, <1>4 DEF IInv, FenceHolds, Init

LEMMA StepKeeps == IInv /\ Next => IInv'
<1> SUFFICES ASSUME IInv, Next PROVE IInv'
  OBVIOUS
<1>1. Shapes /\ Placed /\ Bounded /\ Outside /\ Stops /\ Stored /\ (Fenced => FenceHolds)
  BY DEF IInv
<1>2. UNCHANGED features /\ ((\E r \in Slots : Retire(r) \/ Works(r)) \/ (Quiet /\ Others))
  BY <1>1, StepSplit DEF Next
<1>3. Fenced' => FenceHolds'
  BY <1>1, <1>2, FenceKept
<1>4. CASE \E r \in Slots : Retire(r) \/ Works(r)
  BY <1>4, <1>1, TaskShapes, TaskPlaced, TaskBounded, <1>2, TaskOutside, TaskStops, TaskStored,
     <1>3 DEF IInv
<1>5. CASE Quiet /\ Others
  <2>1. Shapes'
    BY <1>1, <1>5, LeavesShapes, AdmitsShapes, SayShapes, AsksShapes, OtherShapes DEF Others
  <2>2. Placed'
    BY <1>1, <1>5, LeavesPlaced, AdmitsPlaced, SayPlaced, OtherPlaced DEF Others
  <2>3. Bounded' /\ Outside' /\ Stops' /\ Stored'
    BY <1>1, <1>2, <1>5, OthersBounded, OthersOutside, OthersStop, OthersStored
  <2> QED BY <1>3, <2>1, <2>2, <2>3 DEF IInv
<1> QED BY <1>2, <1>4, <1>5

LEMMA IdleKeeps == IInv /\ UNCHANGED vars => IInv'
BY DEF vars, goalVars, driverVars, agentVars, obsVars, IInv, Shapes, Types, Shaped, Placed, InLine, InHand, Held,
       Resting, Bounded, Outside, Stops, Stored, Quiet, Cur, Fenced, FenceHolds, Listening, Armed, Running

LEMMA MCKeeps == IInv /\ [MCNext]_<<part, vars, scheduleVars>> => IInv'
<1> SUFFICES ASSUME IInv, [MCNext]_<<part, vars, scheduleVars>> PROVE IInv'
  OBVIOUS
<1>1. Next \/ UNCHANGED vars
  BY DEF MCNext
<1> QED BY <1>1, StepKeeps, IdleKeeps

LEMMA RoundsInvariant == MCSpec => []IInv
<1>1. MCInit => IInv
  BY InitHolds DEF MCInit
<1> QED BY <1>1, MCKeeps, PTL DEF MCSpec

(* RoundsHold for every composition, number of tasks, people and limits: types *)
(* are kept, and a goal whose driver's checks come last stays readable while   *)
(* the driver listens, as every round that enters is the next of its revision. *)
THEOREM RoundsAlwaysHold == MCSpec => []RoundsHold
<1>1. IInv => RoundsHold
  BY TypesAreTypeOK DEF IInv, Shapes, RoundsHold, RoundsSafe
<1> QED BY <1>1, RoundsInvariant, PTL

(* RoundSteps: a round people joined does not enter past the last checks, one  *)
(* is reserved only when the goal and the round before it are stored and no    *)
(* cancel stands, and none enters while the driver unloads.                    *)
THEOREM RoundStepsHold == MCSpec => RoundSteps
<1>1. IInv /\ [MCNext]_<<part, vars, scheduleVars>> => [(Fenced => YieldStep) /\ CheckpointStep]_vars
  <2> SUFFICES ASSUME IInv, MCNext, ~UNCHANGED vars PROVE (Fenced => YieldStep) /\ CheckpointStep
    OBVIOUS
  <2>1. Shapes /\ Placed /\ Outside /\ Stored /\ Steps
    BY DEF IInv, MCNext, Next
  <2>2. Fenced => YieldStep
    BY <2>1, AdmittingIs, AdmitsPast DEF YieldStep
  <2>3. CheckpointStep
    <3> SUFFICES ASSUME Reserving PROVE saved' = <<goal.rev, goal.rounds>>
      BY DEF CheckpointStep
    <3>1. PICK r \in Slots : Works(r) /\ Ready /\ Reserves(r)
      BY <2>1, ReservingIs
    <3>2. plugin = "on" /\ Armed /\ ~checkpoint /\ attempt = NoAttempt /\ saved' = saved /\ ~Quiet
      BY <3>1 DEF Works, Ready, Reserves, Quiet, obsVars
    <3> QED BY <2>1, <3>2 DEF Stored, Cur, NoAttempt
  <2> QED BY <2>2, <2>3
<1>2. IInv /\ [MCNext]_<<part, vars, scheduleVars>> => [Reserving => ~barred]_vars
  BY ReservingIs DEF IInv, MCNext, Next, Ready, Reserves, Stops, Listening
<1>3. IInv /\ [MCNext]_<<part, vars, scheduleVars>> => [Admitting => plugin # "closing"]_vars
  BY AdmittingIs, AdmitsPast DEF IInv, MCNext, Next, Listening
<1> QED BY <1>1, <1>2, <1>3, RoundsInvariant, PTL DEF MCSpec, RoundSteps, StopSteps, CancelHolds, ClosesAdmission

--------------------------------------------------------------------------------
(* The reminders: names of the standard modules as the instance sees them *)

LEMMA SameSizes ==
  /\ \A S : Reminders!Cardinality(S) = Cardinality(S)
  /\ \A S : Reminders!IsFiniteSet(S) <=> IsFiniteSet(S)
BY DEF Reminders!Cardinality, Cardinality, Reminders!IsFiniteSet, IsFiniteSet

LEMMA SameInjections ==
  ASSUME NEW S, NEW T
  PROVE  Reminders!Injection(S, T) = Injection(S, T)
BY DEF Reminders!Injection, Injection, Reminders!IsInjective, IsInjective

--------------------------------------------------------------------------------
(* The fold, one event at a time *)

(* A set of natural numbers that is not empty has a least element. *)
LEMMA LeastOf ==
  ASSUME NEW S \in SUBSET Nat, S # {}
  PROVE  \E x \in S : \A y \in S : x <= y
<1>1. \E x \in S : \A y \in S : ~ (<<y, x>> \in OpToRel(<, Nat))
  BY NatLessThanWellFounded, WFMin
<1>2. PICK x \in S : \A y \in S : ~ (<<y, x>> \in OpToRel(<, Nat))
  BY <1>1
<1>3. \A y \in S : ~ (y < x)
  BY <1>2 DEF OpToRel
<1> QED
  BY <1>3

LEMMA TopIsMax ==
  ASSUME NEW n \in Nat, NEW s \in SUBSET (1..n), n \in s
  PROVE  Reminders!Max(s) = n
<1>1. \A x \in s : (\A y \in s : x >= y) => x = n
  OBVIOUS
<1>2. \A y \in s : n >= y
  OBVIOUS
<1>3. PICK m : m = Reminders!Max(s)
  OBVIOUS
<1>4. m \in s /\ \A y \in s : m >= y
  BY <1>2, <1>3 DEF Reminders!Max
<1> QED
  BY <1>1, <1>3, <1>4

(* g folds every selection of the first n events of q. *)
Fits(g, q, n) ==
  g = [s \in SUBSET (1..n) |-> IF s = {} THEN {} ELSE Reminders!Folds(g[s \ {Reminders!Max(s)}],
  q[Reminders!Max(s)])]

LEMMA FitsAt ==
  ASSUME NEW g, NEW q, NEW n, Fits(g, q, n), NEW s \in SUBSET (1..n), s # {}
  PROVE  g[s] = Reminders!Folds(g[s \ {Reminders!Max(s)}], q[Reminders!Max(s)])
<1>1. g[s] = IF s = {} THEN {} ELSE Reminders!Folds(g[s \ {Reminders!Max(s)}], q[Reminders!Max(s)])
  BY Zenon DEF Fits
<1> QED BY <1>1

LEMMA WithoutTop ==
  ASSUME NEW i \in Nat \ {0}
  PROVE  (1..i) \ {i} = 1..(i - 1)
<1>1. \A x : x \in (1..i) \ {i} <=> x \in 1..(i - 1)
  OBVIOUS
<1> QED BY <1>1

LEMMA FitsUpTo ==
  ASSUME NEW g, NEW q, NEW n, Fits(g, q, n), NEW i \in Nat \ {0}, 1..i \in SUBSET (1..n)
  PROVE  g[1..i] = Reminders!Folds(g[1..(i - 1)], q[i])
<1>1. PICK s : s = 1..i
  OBVIOUS
<1>2. s \in SUBSET (1..n) /\ i \in s /\ s # {} /\ s \in SUBSET (1..i)
  BY <1>1
<1>3. Reminders!Max(s) = i
  BY <1>2, TopIsMax
<1>4. s \ {i} = 1..(i - 1)
  BY <1>1, WithoutTop
<1>5. g[s] = Reminders!Folds(g[s \ {Reminders!Max(s)}], q[Reminders!Max(s)])
  BY <1>2, FitsAt
<1>6. g[s] = Reminders!Folds(g[s \ {i}], q[i])
  BY <1>3, <1>5, Zenon
<1> QED BY <1>1, <1>4, <1>6, Zenon

LEMMA FitsExist ==
  ASSUME NEW q
  PROVE  \A n \in Nat : \E g : Fits(g, q, n)
<1> DEFINE Off == {n \in Nat : ~ \E g : Fits(g, q, n)}
<1> SUFFICES ASSUME Off # {} PROVE FALSE
  OBVIOUS
<1>1. PICK n \in Off : \A m \in Off : n <= m
  <2>1. Off \in SUBSET Nat
    OBVIOUS
  <2> HIDE DEF Off
  <2> QED BY <2>1, LeastOf
<1>2. CASE n = 0
  <2> DEFINE g == [s \in SUBSET (1..0) |-> {}]
  <2>1. \A s \in SUBSET (1..0) : s = {}
    OBVIOUS
  <2>2. Fits(g, q, 0)
    BY <2>1 DEF Fits
  <2> QED BY <1>2, <2>2
<1>3. CASE n > 0
  <2>1. n - 1 \in Nat /\ n \in Nat /\ ~(n <= n - 1)
    BY <1>3
  <2>2. PICK g : Fits(g, q, n - 1)
    BY <1>1, <2>1
  <2> DEFINE h == [s \in SUBSET (1..n) |-> IF n \in s THEN Reminders!Folds(g[s \ {n}], q[n]) ELSE g[s]]
  <2>3. ASSUME NEW s \in SUBSET (1..n)
        PROVE  h[s] = IF s = {} THEN {} ELSE Reminders!Folds(h[s \ {Reminders!Max(s)}], q[Reminders!Max(s)])
    <3>1. CASE n \in s
      <4>1. Reminders!Max(s) = n
        BY <2>1, <3>1, TopIsMax
      <4>2. h[s \ {n}] = g[s \ {n}]
        OBVIOUS
      <4>3. h[s] = Reminders!Folds(g[s \ {n}], q[n])
        BY <3>1
      <4> HIDE DEF h
      <4> QED BY <3>1, <4>1, <4>2, <4>3
    <3>2. CASE n \notin s
      <4>1. s \in SUBSET (1..(n - 1))
        BY <2>1, <3>2
      <4>2. h[s] = g[s]
        BY <3>2
      <4>3. PICK m : m = Reminders!Max(s)
        OBVIOUS
      <4>4. h[s \ {m}] = g[s \ {m}]
        BY <3>2
      <4>5. g[s] = IF s = {} THEN {} ELSE Reminders!Folds(g[s \ {m}], q[m])
        BY <2>2, <4>1, <4>3, Zenon DEF Fits
      <4> HIDE DEF h
      <4> QED BY <4>2, <4>3, <4>4, <4>5
    <3> QED BY <3>1, <3>2
  <2>4. Fits(h, q, n)
    BY <2>3, Zenon DEF Fits
  <2> QED BY <2>4
<1> QED BY <1>2, <1>3

LEMMA FitsAgree ==
  ASSUME NEW n \in Nat, NEW m \in Nat, NEW k \in Nat, k <= n, k <= m, NEW q, NEW p,
         \A i \in 1..k : q[i] = p[i], NEW g, NEW h, Fits(g, q, n), Fits(h, p, m)
  PROVE  g[1..k] = h[1..k]
<1> DEFINE Off == {i \in 0..k : g[1..i] # h[1..i]}
<1> SUFFICES ASSUME Off # {} PROVE FALSE
  OBVIOUS
<1>1. PICK i \in Off : \A j \in Off : i <= j
  <2>1. Off \in SUBSET Nat
    OBVIOUS
  <2> HIDE DEF Off
  <2> QED BY <2>1, LeastOf
<1>2. CASE i = 0
  <2>1. 1..i = {} /\ {} \in SUBSET (1..n) /\ {} \in SUBSET (1..m)
    BY <1>2
  <2>2. g[{}] = {} /\ h[{}] = {}
    BY <2>1, Zenon DEF Fits
  <2> QED BY <2>1, <2>2
<1>3. CASE i > 0
  BY <1>1, <1>3, FitsUpTo
<1> QED BY <1>2, <1>3

LEMMA FoldIsFit ==
  ASSUME NEW q, NEW n \in Nat, DOMAIN q = 1..n
  PROVE  \E g : Fits(g, q, n) /\ Reminders!ActiveIn(q) = g[1..n]
<1>1. PICK f : f = CHOOSE g : Fits(g, q, n)
  OBVIOUS
<1>2. Fits(f, q, n)
  <2>1. \E g : Fits(g, q, n)
    BY FitsExist
  <2> QED BY <1>1, <2>1, Zenon
<1>3. Reminders!ActiveIn(q) = f[1..n]
  BY <1>1 DEF Reminders!ActiveIn, Reminders!FoldLeft, Reminders!MapThenFoldSet, Fits
<1> QED BY <1>2, <1>3

LEMMA ActiveInNothing == Reminders!ActiveIn(<<>>) = {}
<1>1. PICK g : Fits(g, <<>>, 0) /\ Reminders!ActiveIn(<<>>) = g[1..0]
  BY FoldIsFit
<1>2. 1..0 = {} /\ {} \in SUBSET (1..0)
  OBVIOUS
<1> QED BY <1>1, <1>2, Zenon DEF Fits

(* What is active after one more event. *)
LEMMA ActiveInAppend ==
  ASSUME NEW S, NEW q \in Seq(S), NEW e \in S
  PROVE  Reminders!ActiveIn(Append(q, e)) = Reminders!Folds(Reminders!ActiveIn(q), e)
<1> DEFINE n == Len(q)
           p == Append(q, e)
<1>1. n \in Nat /\ DOMAIN q = 1..n /\ DOMAIN p = 1..(n + 1) /\ p[n + 1] = e /\ \A i \in 1..n : q[i] = p[i]
  OBVIOUS
<1> HIDE DEF n, p
<1>2. PICK g : Fits(g, q, n) /\ Reminders!ActiveIn(q) = g[1..n]
  BY <1>1, FoldIsFit
<1>3. PICK h : Fits(h, p, n + 1) /\ Reminders!ActiveIn(p) = h[1..(n + 1)]
  BY <1>1, FoldIsFit
<1>4. g[1..n] = h[1..n]
  BY <1>1, <1>2, <1>3, FitsAgree
<1>5. PICK k \in Nat \ {0} : k = n + 1
  BY <1>1
<1>6. h[1..k] = Reminders!Folds(h[1..(k - 1)], p[k])
  BY <1>3, <1>5, FitsUpTo
<1>7. k - 1 = n
  BY <1>1, <1>5
<1> QED BY <1>1, <1>2, <1>3, <1>4, <1>5, <1>6, <1>7 DEF p

--------------------------------------------------------------------------------
(* Sound logs *)

Instants == 0..Horizon
Occurrences == Nat \X Nat
Events ==
  [op : {"create"}, id : Nat, at : Instants, every : Nat]
    \union [op : {"delete"}, id : Nat]
    \union [op : {"dispatch"}, accepted : Nat, id : Nat]
    \union [op : {"remind"}, id : {Reminders!None}, sent : Nat, due : SUBSET Occurrences]
Reminding == [id : Nat, at : Instants, every : Nat]

(* Ids are given in order, an active one names one reminder, and the log       *)
(* mentions no other.                                                          *)
Known(q) ==
  /\ \E k \in Nat : Reminders!Seen(q) = 1..k
  /\ Reminders!ActiveIn(q) \in SUBSET Reminding
  /\ \A r \in Reminders!ActiveIn(q) : r.id \in Reminders!Seen(q)
  /\ \A r, s \in Reminders!ActiveIn(q) : r.id = s.id => r = s
  /\ \A i \in DOMAIN q :
       /\ q[i].op = "dispatch" => q[i].id \in Reminders!Seen(q)
       /\ q[i].op = "remind" => \A o \in q[i].due : o[1] \in Reminders!Seen(q)

(* RateKept, of the log q. *)
OnGrid(r, q) ==
  /\ \A i \in DOMAIN q : q[i].op = "create" /\ q[i].id = r.id =>
       \E k \in Instants : r.at = q[i].at + k * r.every
  /\ \A i \in DOMAIN q : q[i].op = "dispatch" /\ q[i].id = r.id => q[i].accepted < r.at

Kept(q) == \A r \in Reminders!ActiveIn(q) : r.every > 0 => OnGrid(r, q)

(* What an event may be that follows the log q. *)
Backed(q, r, t) == \E j \in DOMAIN q : q[j].op = "remind" /\ <<r.id, Reminders!Latest(r, t)>> \in q[j].due
Follows(q, e) ==
  /\ e.op = "create" => \E k \in Nat : Reminders!Seen(q) = 1..k /\ e.id = k + 1
  /\ e.op = "delete" => \E r \in Reminders!ActiveIn(q) : r.id = e.id
  /\ e.op = "dispatch" =>
       \E r \in Reminders!ActiveIn(q) : r.id = e.id /\ r.at <= e.accepted /\ Backed(q, r, e.accepted)
  /\ e.op = "remind" => \A o \in e.due : o[2] <= e.sent /\ o[1] \in Reminders!Seen(q)

Sound(q) ==
  /\ q \in Seq(Events)
  /\ \A n \in 0..Len(q) : Known(SubSeq(q, 1, n)) /\ Kept(SubSeq(q, 1, n))
  /\ \A i \in 1..Len(q) : Follows(SubSeq(q, 1, i - 1), q[i])

LEMMA PrefixParts ==
  ASSUME NEW S, NEW q \in Seq(S), NEW n \in 0..Len(q)
  PROVE  /\ SubSeq(q, 1, n) \in Seq(S) /\ Len(SubSeq(q, 1, n)) = n /\ DOMAIN SubSeq(q, 1, n) = 1..n
         /\ \A i \in 1..n : SubSeq(q, 1, n)[i] = q[i]
OBVIOUS

LEMMA PrefixWhole ==
  ASSUME NEW S, NEW q \in Seq(S)
  PROVE  SubSeq(q, 1, Len(q)) = q
OBVIOUS

LEMMA PrefixTwice ==
  ASSUME NEW S, NEW q \in Seq(S), NEW m \in 0..Len(q), NEW n \in 0..m
  PROVE  SubSeq(SubSeq(q, 1, m), 1, n) = SubSeq(q, 1, n)
<1>1. PICK p : p = SubSeq(q, 1, m)
  OBVIOUS
<1>2. p \in Seq(S) /\ Len(p) = m /\ \A i \in 1..m : p[i] = q[i]
  BY <1>1
<1>3. SubSeq(p, 1, n) \in Seq(S) /\ Len(SubSeq(p, 1, n)) = n /\ \A i \in 1..n : SubSeq(p, 1, n)[i] = p[i]
  BY <1>2
<1>4. SubSeq(q, 1, n) \in Seq(S) /\ Len(SubSeq(q, 1, n)) = n /\ \A i \in 1..n : SubSeq(q, 1, n)[i] = q[i]
  OBVIOUS
<1>5. \A i \in 1..n : SubSeq(p, 1, n)[i] = SubSeq(q, 1, n)[i]
  BY <1>2, <1>3, <1>4
<1> QED BY <1>1, <1>3, <1>4, <1>5

LEMMA Appends ==
  ASSUME NEW S, NEW q \in Seq(S), NEW e \in S
  PROVE  /\ Append(q, e) \in Seq(S) /\ Len(Append(q, e)) = Len(q) + 1
         /\ DOMAIN Append(q, e) = 1..(Len(q) + 1) /\ Append(q, e)[Len(q) + 1] = e
         /\ \A i \in 1..Len(q) : Append(q, e)[i] = q[i]
         /\ \A n \in 0..Len(q) : SubSeq(Append(q, e), 1, n) = SubSeq(q, 1, n)
         /\ SubSeq(Append(q, e), 1, Len(q) + 1) = Append(q, e)
<1>1. PICK p : p = Append(q, e)
  OBVIOUS
<1>2. /\ p \in Seq(S) /\ Len(p) = Len(q) + 1 /\ p[Len(q) + 1] = e
      /\ \A i \in 1..Len(q) : p[i] = q[i]
  BY <1>1
<1>3. DOMAIN p = 1..(Len(q) + 1)
  BY <1>2
<1>4. ASSUME NEW n \in 0..Len(q)
      PROVE  SubSeq(p, 1, n) = SubSeq(q, 1, n)
  BY <1>2
<1>5. SubSeq(p, 1, Len(q) + 1) = p
  BY <1>2
<1> QED BY <1>1, <1>2, <1>3, <1>4, <1>5

LEMMA SeenAppend ==
  ASSUME NEW q \in Seq(Events), NEW e \in Events
  PROVE  Reminders!Seen(Append(q,
           e)) = IF e.op = "create" THEN Reminders!Seen(q) \union {e.id} ELSE Reminders!Seen(q)
<1>1. PICK p : p = Append(q, e)
  OBVIOUS
<1>2. /\ DOMAIN p = 1..(Len(q) + 1) /\ p[Len(q) + 1] = e
      /\ \A i \in 1..Len(q) : p[i] = q[i]
  BY <1>1, Appends
<1>3. DOMAIN q = 1..Len(q) /\ Len(q) \in Nat
  OBVIOUS
<1>4. \A x : x \in Reminders!Seen(p) <=> x \in Reminders!Seen(q) \/ (e.op = "create" /\ x = e.id)
  BY <1>2, <1>3 DEF Reminders!Seen
<1> QED BY <1>1, <1>4

(* resolveEveryOccurrence: the latest occurrence that is due, and a next one. *)
LEMMA Occurs ==
  ASSUME NEW a \in Nat, NEW t \in Nat, NEW e \in Nat \ {0}, a <= t
  PROVE  \E k \in Nat : /\ a + ((t - a) \div e) * e = a + k * e
                        /\ a + k * e <= t /\ t < a + k * e + e
<1>1. PICK k : k = (t - a) \div e
  OBVIOUS
<1>2. t - a \in Nat
  OBVIOUS
<1>3. k \in Nat /\ k * e <= t - a /\ t - a < k * e + e
  BY <1>1, <1>2
<1> QED BY <1>1, <1>3

(* What a dispatch leaves of a fixed rate: its next target, behind the time. *)
LEMMA Advances ==
  ASSUME Reminders!ScheduleBounds, NEW r \in Reminding, NEW t \in Nat, r.at <= t,
         NEW x \in Reminders!Advanced(r, t)
  PROVE  /\ x \in Reminding /\ x.id = r.id /\ x.every = r.every /\ r.every > 0
         /\ t < x.at /\ r.at <= Reminders!Latest(r, t) /\ Reminders!Latest(r, t) < x.at
         /\ \E k \in Nat : x.at = r.at + k * r.every
<1>1. r.every # 0 /\ Reminders!NextAt(r, t) <= Horizon /\ x = [r EXCEPT !.at = Reminders!NextAt(r, t)]
  BY DEF Reminders!Advanced, Reminders!NextAt, Reminders!Latest, Reminding, Instants,
      Reminders!ScheduleBounds
<1>2. r.every \in Nat \ {0} /\ r.at \in Nat /\ Horizon \in Nat
  BY <1>1 DEF Reminding, Instants, Reminders!ScheduleBounds
<1>3. PICK k \in Nat : /\ r.at + ((t - r.at) \div r.every) * r.every = r.at + k * r.every
                       /\ r.at + k * r.every <= t /\ t < r.at + k * r.every + r.every
  BY <1>2, Occurs
<1>4. Reminders!Latest(r, t) = r.at + k * r.every /\ Reminders!NextAt(r, t) = r.at + k * r.every + r.every
  BY <1>1, <1>3 DEF Reminders!Latest, Reminders!NextAt
<1>5. k * r.every \in Nat /\ (k + 1) * r.every = k * r.every + r.every
  <2>1. \A n \in Nat : k * n \in Nat /\ (k + 1) * n = k * n + n
    OBVIOUS
  <2> QED BY <1>2, <2>1
<1>6. x.at = Reminders!NextAt(r, t) /\ x.id = r.id /\ x.every = r.every /\ x \in Reminding
  BY <1>1, <1>2, <1>4, <1>5 DEF Reminding, Instants
<1>7. x.at = r.at + (k + 1) * r.every /\ k + 1 \in Nat
  BY <1>2, <1>4, <1>5, <1>6
<1> QED BY <1>1, <1>2, <1>3, <1>4, <1>5, <1>6, <1>7

(* The latest occurrence of what is due is not before it, nor in the future. *)
LEMMA Latests ==
  ASSUME Reminders!ScheduleBounds, NEW r \in Reminding, NEW t \in Nat, r.at <= t
  PROVE  Reminders!Latest(r, t) \in Nat /\ r.at <= Reminders!Latest(r, t) /\ Reminders!Latest(r, t) <= t
<1>1. r.at \in Nat /\ r.every \in Nat
  BY DEF Reminding, Instants, Reminders!ScheduleBounds
<1>2. CASE r.every = 0
  BY <1>1, <1>2 DEF Reminders!Latest
<1>3. CASE r.every # 0
  <2>1. PICK k \in Nat : /\ r.at + ((t - r.at) \div r.every) * r.every = r.at + k * r.every
                         /\ r.at + k * r.every <= t /\ t < r.at + k * r.every + r.every
    BY <1>1, <1>3, Occurs
  <2>2. k * r.every \in Nat
    BY <1>1, <2>1
  <2>3. Reminders!Latest(r, t) = r.at + k * r.every
    BY <1>3, <2>1 DEF Reminders!Latest
  <2> QED BY <1>1, <2>1, <2>2, <2>3
<1> QED BY <1>2, <1>3

(* The reminders behind a dispatch. *)
LEMMA Dispatched ==
  ASSUME Reminders!ScheduleBounds, NEW q \in Seq(Events), NEW e \in Events, Known(q), Follows(q, e),
         e.op = "dispatch",
         NEW x \in Reminders!Folds(Reminders!ActiveIn(q), e)
  PROVE  \/ x \in Reminders!ActiveIn(q) /\ x.id # e.id
         \/ \E r \in Reminders!ActiveIn(q) : r.id = e.id /\ r.at <= e.accepted
              /\ x \in Reminders!Advanced(r, e.accepted)
<1>1. CASE x \in Reminders!ActiveIn(q) /\ x.id # e.id
  BY <1>1
<1>2. CASE ~(x \in Reminders!ActiveIn(q) /\ x.id # e.id)
  BY <1>2 DEF Reminders!Folds, Known, Follows
<1> QED BY <1>1, <1>2

LEMMA KnownAppend ==
  ASSUME Reminders!ScheduleBounds, NEW q \in Seq(Events), NEW e \in Events, Known(q), Follows(q, e)
  PROVE  Known(Append(q, e))
<1> DEFINE p == Append(q, e)
<1>1. /\ DOMAIN p = 1..(Len(q) + 1) /\ p[Len(q) + 1] = e
      /\ \A i \in 1..Len(q) : p[i] = q[i]
  BY Appends
<1>2. DOMAIN q = 1..Len(q) /\ Len(q) \in Nat
  OBVIOUS
<1>3. Reminders!ActiveIn(p) = Reminders!Folds(Reminders!ActiveIn(q), e)
  BY ActiveInAppend
<1>4. Reminders!Seen(p) = IF e.op = "create" THEN Reminders!Seen(q) \union {e.id} ELSE Reminders!Seen(q)
  BY SeenAppend
<1> HIDE DEF p
<1>5. \E k \in Nat : Reminders!Seen(p) = 1..k
  <2>1. PICK k \in Nat : Reminders!Seen(q) = 1..k
    BY DEF Known
  <2>2. CASE e.op = "create"
    BY <1>4, <2>2 DEF Follows
  <2> QED BY <1>4, <2>1, <2>2
<1>6. \A i \in DOMAIN p :
        /\ p[i].op = "dispatch" => p[i].id \in Reminders!Seen(p)
        /\ p[i].op = "remind" => \A o \in p[i].due : o[1] \in Reminders!Seen(p)
  BY <1>1, <1>2, <1>4 DEF Follows, Known
<1>7. /\ Reminders!Folds(Reminders!ActiveIn(q), e) \in SUBSET Reminding
      /\ \A r \in Reminders!Folds(Reminders!ActiveIn(q), e) : r.id \in Reminders!Seen(p)
      /\ \A r, s \in Reminders!Folds(Reminders!ActiveIn(q), e) : r.id = s.id => r = s
  <2>1. CASE e.op = "create"
    BY <1>4, <2>1 DEF Follows, Events, Reminders!Folds, Known, Reminding
  <2>2. CASE e.op = "delete"
    BY <1>4, <2>2 DEF Reminders!Folds, Known
  <2>3. CASE e.op = "remind"
    BY <1>4, <2>3 DEF Reminders!Folds, Known
  <2>4. CASE e.op = "dispatch"
    BY <1>4, <2>4, Dispatched, Advances DEF Events, Known, Reminders!Advanced
  <2> QED BY <2>1, <2>2, <2>3, <2>4 DEF Events
<1> QED BY <1>3, <1>5, <1>6, <1>7 DEF Known, p

LEMMA Products ==
  ASSUME NEW k \in Nat, NEW j \in Nat, NEW e \in Nat \ {0}
  PROVE  /\ (k + j) * e = k * e + j * e
         /\ k * e \in Nat /\ j * e \in Nat /\ (k + j) * e \in Nat
         /\ k + j <= (k + j) * e
<1>1. k * e \in Nat /\ j * e \in Nat
  OBVIOUS
<1>2. (k + j) * e = k * e + j * e
  OBVIOUS
<1>3. k <= k * e /\ j <= j * e
  OBVIOUS
<1> QED BY <1>1, <1>2, <1>3

LEMMA KeptAppend ==
  ASSUME Reminders!ScheduleBounds, NEW q \in Seq(Events), NEW e \in Events, Known(q), Kept(q), Follows(q, e)
  PROVE  Kept(Append(q, e))
<1> DEFINE p == Append(q, e)
<1>1. /\ DOMAIN p = 1..(Len(q) + 1) /\ p[Len(q) + 1] = e
      /\ \A i \in 1..Len(q) : p[i] = q[i]
  BY Appends
<1>2. DOMAIN q = 1..Len(q) /\ Len(q) \in Nat
  OBVIOUS
<1>3. Reminders!ActiveIn(p) = Reminders!Folds(Reminders!ActiveIn(q), e)
  BY ActiveInAppend
<1> HIDE DEF p
<1>4. ASSUME NEW x \in Reminders!ActiveIn(q), x.every > 0, e.op \in {"create", "dispatch"} => e.id # x.id
      PROVE  OnGrid(x, p)
  BY <1>1, <1>2, <1>4 DEF Kept, OnGrid
<1>5. CASE e.op = "create"
  <2>1. PICK m \in Nat : Reminders!Seen(q) = 1..m /\ e.id = m + 1
    BY <1>5 DEF Follows
  <2>2. e.id \notin Reminders!Seen(q)
    BY <2>1
  <2>3. Reminders!Folds(Reminders!ActiveIn(q), e) = Reminders!ActiveIn(q) \union {[id |-> e.id,
          at |-> e.at, every |-> e.every]}
    BY <1>5 DEF Reminders!Folds
  <2>4. ASSUME NEW x, x = [id |-> e.id, at |-> e.at, every |-> e.every], x.every > 0
        PROVE  OnGrid(x, p)
    <3>1. \A i \in DOMAIN q : q[i].op \in {"create", "dispatch"} => q[i].id # e.id
      BY <2>2 DEF Known, Reminders!Seen
    <3>2. x.at = e.at /\ x.every \in Nat /\ e.at \in Instants /\ e.at \in Nat
      BY <1>5, <2>4 DEF Events, Instants, Reminders!ScheduleBounds
    <3>3. 0 \in Instants /\ 0 * x.every = 0 /\ e.at + 0 = e.at
      BY <3>2 DEF Instants, Reminders!ScheduleBounds
    <3>4. ASSUME NEW i \in DOMAIN p, p[i].op \in {"create", "dispatch"}, p[i].id = x.id
          PROVE  p[i] = e
      BY <1>1, <1>2, <2>4, <3>1, <3>4
    <3>5. \E k \in Instants : x.at = e.at + k * x.every
      BY <3>2, <3>3
    <3> QED BY <1>5, <3>4, <3>5 DEF OnGrid
  <2>5. \A x \in Reminders!ActiveIn(q) : x.id # e.id
    BY <2>2 DEF Known
  <2> QED BY <1>3, <1>4, <2>3, <2>4, <2>5 DEF Kept, p
<1>6. CASE e.op = "delete"
  BY <1>3, <1>4, <1>6 DEF Kept, p, Reminders!Folds
<1>7. CASE e.op = "remind"
  BY <1>3, <1>4, <1>7 DEF Kept, p, Reminders!Folds
<1>8. CASE e.op = "dispatch"
  <2> SUFFICES ASSUME NEW x \in Reminders!Folds(Reminders!ActiveIn(q), e), x.every > 0 PROVE OnGrid(x, p)
    BY <1>3 DEF Kept, p
  <2>1. CASE x \in Reminders!ActiveIn(q) /\ x.id # e.id
    BY <1>4, <2>1
  <2>2. CASE ~(x \in Reminders!ActiveIn(q) /\ x.id # e.id)
    <3>1. PICK r \in Reminders!ActiveIn(q) : r.id = e.id /\ r.at <= e.accepted
                 /\ x \in Reminders!Advanced(r, e.accepted)
      BY <1>8, <2>2, Dispatched
    <3>2. r \in Reminding /\ e.accepted \in Nat
      BY <1>8 DEF Known, Events
    <3>3. /\ x \in Reminding /\ x.id = r.id /\ x.every = r.every /\ r.every > 0
          /\ e.accepted < x.at /\ r.at <= Reminders!Latest(r, e.accepted)
               /\ Reminders!Latest(r, e.accepted) < x.at
          /\ \E k \in Nat : x.at = r.at + k * r.every
      BY <3>1, <3>2, Advances
    <3>4. OnGrid(r, q)
      BY <3>3 DEF Kept
    <3>5. r.at \in Nat /\ x.at \in Instants /\ r.every \in Nat \ {0} /\ r.at < x.at
      BY <3>1, <3>2, <3>3, Latests DEF Reminding, Instants, Reminders!ScheduleBounds
    <3>6. ASSUME NEW i \in DOMAIN q, q[i].op = "create", q[i].id = r.id
          PROVE  \E k \in Instants : x.at = q[i].at + k * r.every
      <4>1. PICK k \in Instants : r.at = q[i].at + k * r.every
        BY <3>4, <3>6 DEF OnGrid
      <4>2. PICK j \in Nat : x.at = r.at + j * r.every
        BY <3>3
      <4>3. q[i] \in Events
        BY <1>2
      <4>4. q[i].at \in Nat /\ k \in Nat
        BY <3>6, <4>1, <4>3 DEF Events, Instants, Reminders!ScheduleBounds
      <4>5. x.at = q[i].at + (k + j) * r.every
        BY <3>5, <4>1, <4>2, <4>4, Products
      <4>6. k + j <= (k + j) * r.every
        BY <3>5, <4>2, <4>4, Products
      <4>7. (k + j) * r.every \in Nat
        BY <3>5, <4>2, <4>4, Products
      <4>8. k + j \in Instants
        BY <3>5, <4>2, <4>4, <4>5, <4>6, <4>7 DEF Instants, Reminders!ScheduleBounds
      <4> QED BY <4>5, <4>8
    <3>7. ASSUME NEW i \in DOMAIN q, q[i].op = "dispatch", q[i].id = r.id
          PROVE  q[i].accepted < x.at
      BY <1>2, <3>4, <3>5, <3>7 DEF OnGrid, Events, Instants, Reminders!ScheduleBounds
    <3> QED BY <1>1, <1>2, <1>8, <3>3, <3>6, <3>7 DEF OnGrid
  <2> QED BY <2>1, <2>2
<1> QED BY <1>5, <1>6, <1>7, <1>8 DEF Events

LEMMA SoundNow ==
  ASSUME NEW q, Sound(q)
  PROVE  q \in Seq(Events) /\ Known(q) /\ Kept(q)
<1>1. q \in Seq(Events) /\ Len(q) \in 0..Len(q)
  BY DEF Sound
<1>2. SubSeq(q, 1, Len(q)) = q
  BY <1>1, PrefixWhole
<1> QED BY <1>1, <1>2 DEF Sound

LEMMA SoundAppend ==
  ASSUME Reminders!ScheduleBounds, NEW q, Sound(q), NEW e \in Events, Follows(q, e)
  PROVE  Sound(Append(q, e))
<1>1. q \in Seq(Events) /\ Known(q) /\ Kept(q)
  BY SoundNow
<1>2. PICK p : p = Append(q, e)
  OBVIOUS
<1>3. /\ p \in Seq(Events) /\ Len(p) = Len(q) + 1 /\ p[Len(q) + 1] = e
      /\ \A i \in 1..Len(q) : p[i] = q[i]
      /\ \A n \in 0..Len(q) : SubSeq(p, 1, n) = SubSeq(q, 1, n)
      /\ SubSeq(p, 1, Len(q) + 1) = p
  BY <1>1, <1>2, Appends
<1>4. Known(p) /\ Kept(p)
  BY <1>1, <1>2, KnownAppend, KeptAppend
<1>5. Len(q) \in Nat /\ SubSeq(q, 1, Len(q)) = q
  BY <1>1, PrefixWhole
<1>6. ASSUME NEW n \in 0..Len(p)
      PROVE  Known(SubSeq(p, 1, n)) /\ Kept(SubSeq(p, 1, n))
  <2>1. CASE n = Len(q) + 1
    BY <1>3, <1>4, <2>1
  <2>2. CASE n # Len(q) + 1
    <3>1. n \in 0..Len(q)
      BY <1>3, <1>5, <2>2
    <3> QED BY <1>3, <3>1 DEF Sound
  <2> QED BY <2>1, <2>2
<1>7. ASSUME NEW i \in 1..Len(p)
      PROVE  Follows(SubSeq(p, 1, i - 1), p[i])
  <2>1. i - 1 \in 0..Len(q)
    BY <1>3, <1>5
  <2>2. SubSeq(p, 1, i - 1) = SubSeq(q, 1, i - 1)
    BY <1>3, <2>1
  <2>3. CASE i = Len(q) + 1
    <3>1. i - 1 = Len(q)
      BY <1>5, <2>3
    <3> QED BY <1>3, <1>5, <2>2, <2>3, <3>1
  <2>4. CASE i # Len(q) + 1
    <3>1. i \in 1..Len(q)
      BY <1>3, <1>5, <2>4
    <3> QED BY <1>3, <2>2, <3>1 DEF Sound
  <2> QED BY <2>3, <2>4
<1> QED BY <1>2, <1>3, <1>6, <1>7 DEF Sound

LEMMA SoundPrefix ==
  ASSUME NEW q, Sound(q), NEW m \in 0..Len(q)
  PROVE  Sound(SubSeq(q, 1, m))
<1>1. q \in Seq(Events)
  BY DEF Sound
<1>2. PICK p : p = SubSeq(q, 1, m)
  OBVIOUS
<1>3. Len(q) \in Nat /\ m \in Nat
  BY <1>1
<1>4. p \in Seq(Events) /\ Len(p) = m /\ \A i \in 1..m : p[i] = q[i]
  BY <1>1, <1>2, PrefixParts
<1>5. \A n \in 0..m : SubSeq(p, 1, n) = SubSeq(q, 1, n) /\ n \in 0..Len(q)
  BY <1>1, <1>2, <1>3, PrefixTwice
<1>6. \A i \in 1..m : i - 1 \in 0..m /\ i \in 1..Len(q)
  BY <1>3
<1> QED BY <1>2, <1>4, <1>5, <1>6 DEF Sound

LEMMA SoundNothing ==
  ASSUME Reminders!ScheduleBounds
  PROVE  Sound(<<>>)
<1>1. <<>> \in Seq(Events) /\ Len(<<>>) = 0 /\ DOMAIN <<>> = {}
  OBVIOUS
<1>2. \A n \in 0..0 : SubSeq(<<>>, 1, n) = <<>>
  OBVIOUS
<1>3. Reminders!Seen(<<>>) = {} /\ 1..0 = {} /\ 0 \in Nat
  BY <1>1 DEF Reminders!Seen
<1>4. Known(<<>>)
  BY <1>1, <1>3, ActiveInNothing DEF Known
<1>5. Kept(<<>>)
  BY ActiveInNothing DEF Kept
<1>6. 0..Len(<<>>) = 0..0 /\ 1..Len(<<>>) = {}
  BY <1>1
<1> QED BY <1>1, <1>2, <1>4, <1>5, <1>6 DEF Sound

(* What the properties say of a sound log. *)
LEMMA SoundLogs ==
  ASSUME Sound(log)
  PROVE  Reminders!LogFolds /\ Reminders!DispatchBacked /\ Reminders!NeverEarly /\ Reminders!RateKept
<1>1. log \in Seq(Events) /\ Known(log) /\ Kept(log)
  BY SoundNow
<1>2. DOMAIN log = 1..Len(log) /\ Len(log) \in Nat
  BY <1>1
<1>3. \A i \in DOMAIN log : Follows(Reminders!Prefix(i - 1), log[i]) /\ Known(Reminders!Prefix(i - 1))
        /\ log[i] \in Events
  BY <1>1, <1>2 DEF Sound, Reminders!Prefix
<1>4. Reminders!LogFolds
  BY <1>3 DEF Reminders!LogFolds, Follows
<1>5. Reminders!DispatchBacked
  <2> SUFFICES ASSUME NEW i \in DOMAIN log, log[i].op = "dispatch",
                      NEW r \in Reminders!ActiveIn(Reminders!Prefix(i - 1)), r.id = log[i].id
               PROVE  \E j \in 1..(i - 1) :
                        log[j].op = "remind"
                        /\ <<r.id, Reminders!Latest(r, log[i].accepted)>> \in log[j].due
    BY DEF Reminders!DispatchBacked
  <2>1. Backed(Reminders!Prefix(i - 1), r, log[i].accepted)
    BY <1>3 DEF Follows, Known
  <2>2. i - 1 \in 0..Len(log)
    BY <1>2
  <2>3. DOMAIN Reminders!Prefix(i - 1) = 1..(i - 1)
          /\ \A j \in 1..(i - 1) : Reminders!Prefix(i - 1)[j] = log[j]
    BY <1>1, <2>2, PrefixParts DEF Reminders!Prefix
  <2> QED BY <2>1, <2>3 DEF Backed
<1>6. Reminders!NeverEarly
  BY <1>3 DEF Reminders!NeverEarly, Follows
<1>7. Reminders!RateKept
  BY <1>1 DEF Kept, OnGrid, Reminders!RateKept, Reminders!Active, Instants
<1> QED BY <1>4, <1>5, <1>6, <1>7

--------------------------------------------------------------------------------
(* How often an occurrence was sent *)

Reminded(q, o) == {j \in DOMAIN q : q[j].op = "remind" /\ o \in q[j].due}
Times(q, o) == Reminders!Cardinality(Reminded(q, o))

LEMMA TimesCounted ==
  ASSUME NEW q \in Seq(Events), NEW o
  PROVE  Reminders!IsFiniteSet(Reminded(q, o)) /\ Times(q, o) \in Nat
<1>1. Len(q) \in Nat /\ 1 \in Int /\ Len(q) \in Int /\ DOMAIN q = 1..Len(q)
  OBVIOUS
<1>2. Reminders!IsFiniteSet(1..Len(q))
  BY <1>1, SameSizes, FS_Interval
<1>3. Reminded(q, o) \in SUBSET (1..Len(q))
  BY <1>1 DEF Reminded
<1>4. Reminders!IsFiniteSet(Reminded(q, o))
  BY <1>2, <1>3, SameSizes, FS_Subset
<1> QED BY <1>4, SameSizes, FS_CardinalityType DEF Times

LEMMA TimesAppend ==
  ASSUME NEW q \in Seq(Events), NEW e \in Events, NEW o
  PROVE  /\ e.op = "remind" /\ o \in e.due => Times(Append(q, e), o) = Times(q, o) + 1
         /\ ~(e.op = "remind" /\ o \in e.due) => Times(Append(q, e), o) = Times(q, o)
<1>1. PICK p : p = Append(q, e)
  OBVIOUS
<1>2. /\ DOMAIN p = 1..(Len(q) + 1) /\ p[Len(q) + 1] = e
      /\ \A i \in 1..Len(q) : p[i] = q[i]
  BY <1>1, Appends
<1>3. DOMAIN q = 1..Len(q) /\ Len(q) \in Nat
  OBVIOUS
<1>4. CASE e.op = "remind" /\ o \in e.due
  <2>1. \A j : j \in Reminded(p, o) <=> j \in Reminded(q, o) \union {Len(q) + 1}
    BY <1>2, <1>3, <1>4 DEF Reminded
  <2>2. Reminded(p, o) = Reminded(q, o) \union {Len(q) + 1}
    BY <2>1
  <2>3. Len(q) + 1 \notin Reminded(q, o)
    BY <1>3 DEF Reminded
  <2>4. Reminders!Cardinality(Reminded(q, o) \union {Len(q) + 1}) = Reminders!Cardinality(Reminded(q,
          o)) + 1
    BY <2>3, SameSizes, TimesCounted, FS_AddElement
  <2> QED BY <1>1, <1>4, <2>2, <2>4 DEF Times
<1>5. CASE ~(e.op = "remind" /\ o \in e.due)
  <2>1. \A j : j \in Reminded(p, o) <=> j \in Reminded(q, o)
    BY <1>2, <1>3, <1>5 DEF Reminded
  <2>2. Reminded(p, o) = Reminded(q, o)
    BY <2>1
  <2> QED BY <1>1, <1>5, <2>2 DEF Times
<1> QED BY <1>4, <1>5

LEMMA TimesPrefix ==
  ASSUME NEW q \in Seq(Events), NEW m \in 0..Len(q), NEW o
  PROVE  Times(SubSeq(q, 1, m), o) <= Times(q, o)
<1>1. PICK p : p = SubSeq(q, 1, m)
  OBVIOUS
<1>2. p \in Seq(Events) /\ DOMAIN p = 1..m /\ \A i \in 1..m : p[i] = q[i]
  BY <1>1, PrefixParts
<1>3. DOMAIN q = 1..Len(q) /\ 1..m \subseteq 1..Len(q)
  OBVIOUS
<1>4. Reminded(p, o) \in SUBSET Reminded(q, o)
  BY <1>2, <1>3 DEF Reminded
<1>5. Reminders!Cardinality(Reminded(p, o)) <= Reminders!Cardinality(Reminded(q, o))
  BY <1>4, SameSizes, TimesCounted, FS_Subset
<1> QED BY <1>1, <1>5 DEF Times

(* The occurrence o may be sent again while the reminders of A are active. *)
Open(A, o) == \E r \in A : r.id = o[1] /\ r.at <= o[2]

--------------------------------------------------------------------------------
(* A dispatch *)

LEMMA ActiveFinite ==
  ASSUME NEW q, Known(q), NEW d \in SUBSET Reminders!ActiveIn(q)
  PROVE  Reminders!IsFiniteSet(d) /\ Reminders!Cardinality(d) \in Nat
<1>1. PICK k \in Nat : Reminders!Seen(q) = 1..k
  BY DEF Known
<1>2. 1 \in Int /\ k \in Int
  BY <1>1
<1>3. Reminders!IsFiniteSet(1..k)
  BY <1>2, SameSizes, FS_Interval
<1> DEFINE f == [r \in d |-> r.id]
<1>4. f \in Reminders!Injection(d, 1..k)
  BY <1>1 DEF Known, Reminders!Injection, Reminders!IsInjective
<1> HIDE DEF f
<1>5. Reminders!IsFiniteSet(d)
  BY <1>3, <1>4, SameSizes, SameInjections, FS_Injection
<1> QED BY <1>5, SameSizes, FS_CardinalityType

(* w appended up to its n-th and its next event. *)
LEMMA OneMore ==
  ASSUME NEW S, NEW q \in Seq(S), NEW w \in Seq(S), NEW n \in Nat, n < Len(w)
  PROVE  /\ q \o SubSeq(w, 1, n) \in Seq(S) /\ w[n + 1] \in S
         /\ q \o SubSeq(w, 1, n + 1) = Append(q \o SubSeq(w, 1, n), w[n + 1])
<1>1. SubSeq(w, 1, n) \in Seq(S) /\ SubSeq(w, 1, n + 1) \in Seq(S) /\ w[n + 1] \in S
  OBVIOUS
<1>2. PICK u : u = SubSeq(w, 1, n)
  OBVIOUS
<1>3. PICK v : v = SubSeq(w, 1, n + 1)
  OBVIOUS
<1>4. u \in Seq(S) /\ Len(u) = n /\ v \in Seq(S) /\ Len(v) = n + 1
      /\ (\A i \in 1..n : u[i] = w[i] /\ v[i] = w[i]) /\ v[n + 1] = w[n + 1]
  BY <1>2, <1>3
<1>5. v = Append(u, w[n + 1])
  BY <1>1, <1>4
<1>6. q \o Append(u, w[n + 1]) = Append(q \o u, w[n + 1])
  BY <1>1, <1>4
<1>7. q \o u \in Seq(S)
  BY <1>4
<1> QED BY <1>1, <1>2, <1>3, <1>5, <1>6, <1>7

(* The reminders of A behind the dispatch of the first n of the order at t. *)
Leaving(A, order, n, t) ==
  {r \in A : \A j \in 1..n : order[j] # r} \union UNION {Reminders!Advanced(order[j], t) : j \in 1..n}

(* The log q behind the reminder and the first n dispatches. *)
Partly(q, d, order, t, n) == q \o SubSeq(Reminders!Appended(d, order, t), 1, n + 1)

LEMMA AppendedParts ==
  ASSUME Reminders!ScheduleBounds, NEW q, Sound(q), NEW d \in SUBSET Reminders!ActiveIn(q),
         NEW t \in Nat, \A r \in d : r.at <= t,
         NEW order \in Reminders!Orders(d)
  PROVE  /\ Reminders!Appended(d, order, t) \in Seq(Events)
              /\ Len(Reminders!Appended(d, order, t)) = Reminders!Cardinality(d) + 1
         /\ Reminders!Appended(d, order, t)[1] = Reminders!Remind(d, t)[1]
         /\ \A n \in 1..Reminders!Cardinality(d) :
              Reminders!Appended(d, order, t)[n + 1] = [op |-> "dispatch", accepted |-> t,
              id |-> order[n].id]
<1>1. Known(q) /\ Reminders!IsFiniteSet(d) /\ Reminders!Cardinality(d) \in Nat
  BY SoundNow, ActiveFinite
<1>2. order \in [1..Reminders!Cardinality(d) -> d] /\ d \in SUBSET Reminding
  BY <1>1 DEF Reminders!Orders, Reminders!Bijection, Reminders!Injection, Known
<1>3. PICK v : v = Reminders!Dispatches(order, t)
  OBVIOUS
<1>4. /\ v \in Seq(Events) /\ Len(v) = Reminders!Cardinality(d)
      /\ \A n \in 1..Reminders!Cardinality(d) : v[n] = [op |-> "dispatch", accepted |-> t,
           id |-> order[n].id]
  <2>1. \A n \in 1..Reminders!Cardinality(d) : [op |-> "dispatch", accepted |-> t,
          id |-> order[n].id] \in Events
    BY <1>2 DEF Events, Reminding
  <2>2. v = [n \in 1..Reminders!Cardinality(d) |-> [op |-> "dispatch", accepted |-> t, id |-> order[n].id]]
    BY <1>2, <1>3 DEF Reminders!Dispatches
  <2> QED BY <1>1, <2>1, <2>2
<1>5. PICK e : e = Reminders!Remind(d, t)[1]
  OBVIOUS
<1>6. Reminders!Remind(d, t) = <<e>> /\ e \in Events
  BY <1>2, <1>5, Latests DEF Occurrences, Reminding, Reminders!Remind, Events
<1>7. Reminders!Appended(d, order, t) = <<e>> \o v
  BY <1>3, <1>6 DEF Reminders!Appended
<1> QED BY <1>1, <1>4, <1>5, <1>6, <1>7

LEMMA Reminds ==
  ASSUME Reminders!ScheduleBounds, NEW q, Sound(q), NEW d \in SUBSET Reminders!ActiveIn(q),
         NEW t \in Nat, \A r \in d : r.at <= t,
         NEW order \in Reminders!Orders(d)
  PROVE  /\ Partly(q, d, order, t, 0) = Append(q, Reminders!Remind(d, t)[1])
         /\ Reminders!Remind(d, t)[1] \in Events /\ Follows(q, Reminders!Remind(d, t)[1])
         /\ Reminders!ActiveIn(Append(q, Reminders!Remind(d, t)[1])) = Reminders!ActiveIn(q)
<1>1. q \in Seq(Events) /\ Known(q) /\ Reminders!IsFiniteSet(d) /\ Reminders!Cardinality(d) \in Nat
  BY SoundNow, ActiveFinite
<1>2. PICK w : w = Reminders!Appended(d, order, t)
  OBVIOUS
<1>3. PICK e : e = Reminders!Remind(d, t)[1]
  OBVIOUS
<1>4. w \in Seq(Events) /\ Len(w) = Reminders!Cardinality(d) + 1 /\ w[1] = e
  BY <1>2, <1>3, AppendedParts
<1>5. e \in Events
  BY <1>1, <1>4
<1>6. q \o SubSeq(w, 1, 0 + 1) = Append(q \o SubSeq(w, 1, 0), w[0 + 1])
  BY <1>1, <1>4, OneMore
<1>7. q \o SubSeq(w, 1, 0) = q
  BY <1>1, <1>4
<1>8. Follows(q, e)
  BY <1>1, <1>3, Latests DEF Reminders!Remind, Known, Follows
<1>9. Reminders!ActiveIn(Append(q, e)) = Reminders!ActiveIn(q)
  BY <1>1, <1>3, <1>5, ActiveInAppend DEF Reminders!Remind, Reminders!Folds
<1> QED BY <1>2, <1>3, <1>4, <1>5, <1>6, <1>7, <1>8, <1>9 DEF Partly

LEMMA Dispatching ==
  ASSUME Reminders!ScheduleBounds, NEW q, Sound(q), NEW d \in SUBSET Reminders!ActiveIn(q),
         NEW t \in Nat, \A r \in d : r.at <= t,
         NEW order \in Reminders!Orders(d)
  PROVE  \A n \in 0..Reminders!Cardinality(d) :
           /\ Sound(Partly(q, d, order, t, n))
           /\ Reminders!ActiveIn(Partly(q, d, order, t, n)) = Leaving(Reminders!ActiveIn(q), order, n, t)
           /\ \A o : Times(Partly(q, d, order, t, n), o) = Times(Append(q, Reminders!Remind(d, t)[1]), o)
           /\ \A r \in d : Backed(Partly(q, d, order, t, n), r, t)
<1> DEFINE P(n) == Partly(q, d, order, t, n)
           c == Reminders!Cardinality(d)
           A == Reminders!ActiveIn(q)
           e == Reminders!Remind(d, t)[1]
           Good(n) == /\ Sound(P(n)) /\ Reminders!ActiveIn(P(n)) = Leaving(A, order, n, t)
                      /\ \A o : Times(P(n), o) = Times(Append(q, e), o)
                      /\ \A r \in d : Backed(P(n), r, t)
           Off == {n \in 0..c : ~Good(n)}
<1>1. q \in Seq(Events) /\ Known(q) /\ Reminders!IsFiniteSet(d) /\ c \in Nat
  BY SoundNow, ActiveFinite
<1>2. /\ order \in [1..c -> d] /\ \A i, j \in 1..c : order[i] = order[j] => i = j
  BY DEF Reminders!Orders, Reminders!Bijection, Reminders!Injection, Reminders!IsInjective
<1>3. Good(0)
  <2>1. P(0) = Append(q, e) /\ e \in Events /\ Follows(q, e) /\ Reminders!ActiveIn(Append(q, e)) = A
    BY Reminds
  <2>2. Sound(P(0))
    BY <2>1, SoundAppend
  <2>3. Leaving(A, order, 0, t) = A
    BY DEF Leaving
  <2>4. \A r \in d : Backed(P(0), r, t)
    <3>1. e.op = "remind" /\ \A r \in d : <<r.id, Reminders!Latest(r, t)>> \in e.due
      BY DEF Reminders!Remind
    <3>2. Len(q) + 1 \in DOMAIN Append(q, e) /\ Append(q, e)[Len(q) + 1] = e
      BY <1>1, <2>1, Appends
    <3> HIDE DEF e, P
    <3> QED BY <2>1, <3>1, <3>2 DEF Backed
  <2> HIDE DEF P, e
  <2> QED BY <2>1, <2>2, <2>3, <2>4
<1>4. ASSUME NEW n \in 1..c, Good(n - 1) PROVE Good(n)
  <2>1. PICK p : p = P(n - 1)
    OBVIOUS
  <2>2. PICK r : r = order[n]
    OBVIOUS
  <2>3. PICK v : v = [op |-> "dispatch", accepted |-> t, id |-> r.id]
    OBVIOUS
  <2>4. Sound(p) /\ Reminders!ActiveIn(p) = Leaving(A, order, n - 1, t) /\ (\A x \in d : Backed(p, x, t))
        /\ \A o : Times(p, o) = Times(Append(q, e), o)
    BY <1>4, <2>1
  <2>5. r \in d /\ r \in A /\ r \in Reminding /\ r.at <= t
    BY <1>1, <1>2, <2>2 DEF Known
  <2>6. P(n) = Append(p, v)
    <3>1. PICK w : w = Reminders!Appended(d, order, t)
      OBVIOUS
    <3>2. w \in Seq(Events) /\ Len(w) = c + 1 /\ w[n + 1] = v
      BY <2>2, <2>3, <3>1, AppendedParts
    <3>3. n \in Nat /\ n < Len(w)
      BY <1>1, <3>2
    <3>4. q \o SubSeq(w, 1, n + 1) = Append(q \o SubSeq(w, 1, n), w[n + 1])
      BY <1>1, <3>2, <3>3, OneMore
    <3>5. n - 1 + 1 = n
      BY <3>3
    <3> QED BY <2>1, <3>1, <3>2, <3>4, <3>5 DEF Partly
  <2>7. v \in Events /\ p \in Seq(Events) /\ Known(p)
    BY <2>3, <2>4, <2>5, SoundNow DEF Events, Reminding
  <2>8. r \in Reminders!ActiveIn(p)
    BY <1>1, <1>2, <2>2, <2>4, <2>5 DEF Leaving
  <2>9. Follows(p, v)
    BY <2>3, <2>4, <2>5, <2>8 DEF Follows
  <2>10. Sound(P(n))
    BY <2>4, <2>6, <2>7, <2>9, SoundAppend
  <2>11. Reminders!ActiveIn(P(n)) = Leaving(A, order, n, t)
    <3>1. Reminders!ActiveIn(P(n)) = Reminders!Folds(Reminders!ActiveIn(p), v)
      BY <2>6, <2>7, ActiveInAppend
    <3>2. \A x \in Reminders!ActiveIn(p) : x.id = r.id <=> x = r
      BY <2>7, <2>8 DEF Known
    <3>3. Reminders!Folds(Reminders!ActiveIn(p),
            v) = {x \in Reminders!ActiveIn(p) : x # r} \union Reminders!Advanced(r, t)
      BY <2>3, <2>8, <3>2 DEF Reminders!Folds
    <3>4. ASSUME NEW j \in 1..(n - 1), NEW x \in Reminders!Advanced(order[j], t)
          PROVE  x # r
      BY <1>1, <1>2, <2>2, <2>5, <3>4, Advances DEF Known
    <3>5. 1..n = (1..(n - 1)) \union {n}
      BY <1>1
    <3>6. \A x : x \in {y \in Leaving(A, order, n - 1, t) : y # r} \union Reminders!Advanced(r, t)
                   <=> x \in Leaving(A, order, n, t)
      <4> TAKE x
      <4>1. /\ x \in Leaving(A, order, n, t)
                 <=> (x \in A /\ \A j \in 1..n : order[j] # x)
                 \/ \E j \in 1..n : x \in Reminders!Advanced(order[j], t)
            /\ x \in Leaving(A, order, n - 1, t)
                 <=> \/ x \in A /\ \A j \in 1..(n - 1) : order[j] # x
                     \/ \E j \in 1..(n - 1) : x \in Reminders!Advanced(order[j], t)
        BY Zenon DEF Leaving
      <4>2. (\A j \in 1..n : order[j] # x) <=> (\A j \in 1..(n - 1) : order[j] # x) /\ x # r
        BY <2>2, <3>5, Zenon
      <4>3. (\E j \in 1..n : x \in Reminders!Advanced(order[j], t))
              <=> (\E j \in 1..(n - 1) : x \in Reminders!Advanced(order[j], t))
              \/ x \in Reminders!Advanced(r, t)
        BY <2>2, <3>5, Zenon
      <4>4. (\E j \in 1..(n - 1) : x \in Reminders!Advanced(order[j], t)) => x # r
        BY <3>4
      <4> QED BY <4>1, <4>2, <4>3, <4>4
    <3> HIDE DEF P, A, c
    <3> QED BY <2>4, <3>1, <3>3, <3>6
  <2>12. \A o : Times(P(n), o) = Times(Append(q, e), o)
    <3> TAKE o
    <3>1. Times(Append(p, v), o) = Times(p, o)
      BY <2>3, <2>7, TimesAppend
    <3> HIDE DEF P
    <3> QED BY <2>4, <2>6, <3>1
  <2>13. \A x \in d : Backed(P(n), x, t)
    <3> TAKE x \in d
    <3>1. PICK j \in DOMAIN p : p[j].op = "remind" /\ <<x.id, Reminders!Latest(x, t)>> \in p[j].due
      BY <2>4 DEF Backed
    <3>2. DOMAIN p = 1..Len(p) /\ Len(p) \in Nat
      BY <2>7
    <3>3. Append(p, v)[j] = p[j] /\ j \in DOMAIN Append(p, v)
      BY <2>7, <3>2, Appends
    <3> HIDE DEF P
    <3> QED BY <2>6, <3>1, <3>3 DEF Backed
  <2> QED BY <2>10, <2>11, <2>12, <2>13
<1>5. Off = {}
  <2> SUFFICES ASSUME Off # {} PROVE FALSE
    OBVIOUS
  <2> HIDE DEF Good
  <2>1. Off \in SUBSET Nat
    OBVIOUS
  <2>2. PICK n \in Off : \A m \in Off : n <= m
    <3> HIDE DEF Off
    <3> QED BY <2>1, LeastOf
  <2>3. n # 0
    BY <1>3
  <2>4. n \in 1..c /\ n - 1 \in 0..c /\ ~(n <= n - 1)
    BY <1>1, <2>3
  <2>5. Good(n - 1)
    BY <2>2, <2>4
  <2> QED BY <1>4, <2>4, <2>5
<1>6. \A n \in 0..c : Good(n)
  <2> HIDE DEF Good
  <2> QED BY <1>5
<1> QED BY <1>6

--------------------------------------------------------------------------------
(* The queue, the decision and the timer *)

Lines == {<<>>, <<"drive">>, <<"tool">>, <<"drive", "tool">>, <<"tool", "drive">>}
Has(q, x) == \E i \in DOMAIN q : q[i] = x

LEMMA HasOf ==
  /\ ~Has(<<>>, "drive") /\ ~Has(<<>>, "tool")
  /\ Has(<<"drive">>, "drive") /\ ~Has(<<"drive">>, "tool")
  /\ ~Has(<<"tool">>, "drive") /\ Has(<<"tool">>, "tool")
  /\ Has(<<"drive", "tool">>, "drive") /\ Has(<<"drive", "tool">>, "tool")
  /\ Has(<<"tool", "drive">>, "drive") /\ Has(<<"tool", "drive">>, "tool")
<1>1. ~Has(<<>>, "drive") /\ ~Has(<<>>, "tool")
  BY DEF Has
<1>2. Has(<<"drive">>, "drive") /\ ~Has(<<"drive">>, "tool")
  BY DEF Has
<1>3. ~Has(<<"tool">>, "drive") /\ Has(<<"tool">>, "tool")
  BY DEF Has
<1>4. Has(<<"drive", "tool">>, "drive") /\ Has(<<"drive", "tool">>, "tool")
  BY DEF Has
<1>5. Has(<<"tool", "drive">>, "drive") /\ Has(<<"tool", "drive">>, "tool")
  BY DEF Has
<1> QED BY <1>1, <1>2, <1>3, <1>4, <1>5

LEMMA Joins ==
  ASSUME NEW q \in Lines, NEW x \in {"drive", "tool"}, ~Has(q, x), NEW y \in {"drive", "tool"}
  PROVE  Append(q, x) \in Lines /\ (Has(Append(q, x), y) <=> y = x \/ Has(q, y))
<1>1. \A a : Append(<<>>, a) = <<a>>
  OBVIOUS
<1>2. ASSUME NEW a, NEW b PROVE Append(<<a>>, b) = <<a, b>>
  <2>1. <<a>> \in Seq({a, b}) /\ Len(<<a>>) = 1 /\ <<a, b>> \in Seq({a, b}) /\ Len(<<a, b>>) = 2
    OBVIOUS
  <2>2. PICK u : u = Append(<<a>>, b)
    OBVIOUS
  <2>3. u \in Seq({a, b}) /\ Len(u) = 2 /\ u[1] = a /\ u[2] = b
    BY <2>1, <2>2
  <2>4. u = [i \in 1..2 |-> u[i]] /\ <<a, b>> = [i \in 1..2 |-> <<a, b>>[i]]
    BY <2>1, <2>3
  <2>5. \A i \in 1..2 : u[i] = <<a, b>>[i]
    BY <2>3
  <2> QED BY <2>2, <2>4, <2>5
<1> QED BY <1>1, <1>2, HasOf DEF Lines

LEMMA Quits ==
  ASSUME NEW q \in Lines, q # <<>>, NEW y \in {"drive", "tool"}
  PROVE  /\ Head(q) \in {"drive", "tool"} /\ Has(q, Head(q)) /\ Tail(q) \in Lines
         /\ Has(Tail(q), y) <=> y # Head(q) /\ Has(q, y)
         /\ Tail(q) \o <<>> = Tail(q) /\ Tail(q) \o <<"drive">> = Append(Tail(q), "drive")
<1>1. \A a : Head(<<a>>) = a /\ Tail(<<a>>) = <<>>
  OBVIOUS
<1>2. \A a, b : Head(<<a, b>>) = a /\ Tail(<<a, b>>) = <<b>>
  OBVIOUS
<1>3. <<>> \o <<>> = <<>> /\ <<>> \o <<"drive">> = Append(<<>>, "drive")
  OBVIOUS
<1>4. \A a : <<a>> \o <<>> = <<a>> /\ <<a>> \o <<"drive">> = Append(<<a>>, "drive")
  OBVIOUS
<1>5. CASE q = <<"drive">> \/ q = <<"tool">>
  BY <1>1, <1>3, <1>5, HasOf DEF Lines
<1>6. CASE q = <<"drive", "tool">> \/ q = <<"tool", "drive">>
  BY <1>2, <1>4, <1>6, HasOf DEF Lines
<1> QED BY <1>5, <1>6 DEF Lines

(* The queue holds one transaction of each party that is under way. *)
Queued ==
  /\ queue \in Lines
  /\ Has(queue, "drive") <=> drive \notin {"none", "retiring"}
  /\ Has(queue, "tool") <=> tool # Reminders!NoTool

(* driveOnce returns. *)
LEMMA EndsDriveMoves ==
  ASSUME Queued, queue # <<>>, Head(queue) = "drive", NEW a \in BOOLEAN, NEW f \in BOOLEAN,
         again \in BOOLEAN,
         stopping \in BOOLEAN, Reminders!EndsDrive(a, f), tool' = tool
  PROVE  /\ Queued' /\ again' = FALSE
         /\ (drive' = "queued" /\ ~stopping /\ ~f) \/ drive' = "retiring"
         /\ drive' = "retiring" /\ ~stopping /\ ~f => ~again /\ ~a
<1>1. /\ Tail(queue) \in Lines /\ ~Has(Tail(queue), "drive")
           /\ (Has(Tail(queue), "tool") <=> Has(queue, "tool"))
      /\ Tail(queue) \o <<>> = Tail(queue) /\ Tail(queue) \o <<"drive">> = Append(Tail(queue), "drive")
  BY Quits DEF Queued
<1>2. CASE (again \/ a) /\ ~stopping /\ ~f
  BY <1>1, <1>2, Joins DEF Reminders!EndsDrive, Queued
<1>3. CASE ~((again \/ a) /\ ~stopping /\ ~f)
  BY <1>1, <1>3 DEF Reminders!EndsDrive, Queued
<1> QED BY <1>2, <1>3

(* requestDrive, whatever the tool makes of its place. *)
LEMMA RequestDriveMoves ==
  ASSUME NEW q \in Lines, Has(q, "drive") <=> drive \notin {"none", "retiring"}, again \in BOOLEAN,
         stopping \in BOOLEAN, faulted \in BOOLEAN, Reminders!RequestDrive(q)
  PROVE  /\ queue' \in Lines /\ (Has(queue', "drive") <=> drive' \notin {"none", "retiring"})
         /\ (Has(queue', "tool") <=> Has(q, "tool"))
         /\ again' \in BOOLEAN
         /\ \/ Reminders!Ignored /\ drive' = drive /\ timer' = timer /\ again' = again
            \/ ~Reminders!Ignored /\ drive # "none" /\ drive' = drive /\ timer' = Reminders!None
                 /\ again' = TRUE
            \/ ~Reminders!Ignored /\ drive = "none" /\ drive' = "queued" /\ timer' = Reminders!None
                 /\ again' = FALSE
<1>1. CASE Reminders!Ignored \/ drive # "none"
  BY <1>1 DEF Reminders!RequestDrive, Reminders!Ignored
<1>2. CASE ~Reminders!Ignored /\ drive = "none"
  BY <1>2, Joins DEF Reminders!RequestDrive
<1> QED BY <1>1, <1>2

(* The timer is armed for what is not due yet. *)
LEMMA TimerArmed ==
  ASSUME Reminders!ScheduleBounds, Reminders!Active \in SUBSET Reminding, NEW t \in Nat,
         Reminders!Due(t) = {}
  PROVE  /\ Reminders!Delay(t) \in {Reminders!None} \union 0..MaxDelay
         /\ Reminders!Active # {} => Reminders!Delay(t) # Reminders!None
<1> DEFINE targets == {r.at : r \in Reminders!Active}
<1>1. CASE targets = {}
  BY <1>1 DEF Reminders!Delay
<1>2. CASE targets # {}
  <2>1. targets \in SUBSET Nat
    BY DEF Reminding, Instants, Reminders!ScheduleBounds
  <2>2. PICK a : a = CHOOSE b \in targets : \A c \in targets : b <= c
    OBVIOUS
  <2>3. \E b \in targets : \A c \in targets : b <= c
    <3> HIDE DEF targets
    <3> QED BY <1>2, <2>1, LeastOf
  <2>4. a \in targets
    <3> HIDE DEF targets
    <3> QED BY <2>2, <2>3
  <2>5. a \in Nat /\ a > t
    BY <2>1, <2>4 DEF Reminders!Due
  <2>6. Reminders!Delay(t) = IF a - t < MaxDelay THEN a - t ELSE MaxDelay
    <3> HIDE DEF targets
    <3>1. Reminders!Delay(t) = IF targets = {} THEN Reminders!None
                     ELSE LET wait == (CHOOSE b \in targets : \A c \in targets : b <= c) - t
                          IN IF wait < MaxDelay THEN wait ELSE MaxDelay
      BY DEF Reminders!Delay, targets
    <3> QED BY <1>2, <2>2, <3>1
  <2>7. MaxDelay \in Nat \ {0}
    BY DEF Reminders!ScheduleBounds
  <2> HIDE DEF targets
  <2> QED BY <2>5, <2>6, <2>7 DEF Reminders!None
<1> QED BY <1>1, <1>2

(* What is decided is due, and nothing is decided only when nothing is. *)
LEMMA Decisions ==
  ASSUME Reminders!ScheduleBounds, Known(log), NEW t
  PROVE  /\ Reminders!Decision(t) \in SUBSET Reminders!Due(t)
              /\ Reminders!Due(t) \in SUBSET Reminders!Active
         /\ Reminders!Decision(t) = {} => Reminders!Due(t) = {}
<1> DEFINE single == {r \in Reminders!Due(t) : r.every = 0}
           first == {r \in single : \A s \in single \ {r} : Reminders!Earlier(r, s)}
<1>1. Reminders!Decision(t) = IF single # {} THEN first ELSE Reminders!Due(t)
  BY DEF Reminders!Decision
<1>2. Reminders!Due(t) \in SUBSET Reminders!Active
  BY DEF Reminders!Due
<1>3. ASSUME single # {} PROVE first # {}
  <2> DEFINE ats == {r.at : r \in single}
  <2>1. single \in SUBSET Reminders!Active /\ single \in SUBSET Reminding
    BY <1>2 DEF Known, Reminders!Active
  <2>2. ats \in SUBSET Nat /\ ats # {}
    BY <1>3, <2>1 DEF Reminding, Instants, Reminders!ScheduleBounds
  <2>3. PICK a \in ats : \A b \in ats : a <= b
    <3> HIDE DEF ats
    <3> QED BY <2>2, LeastOf
  <2> DEFINE ids == {r.id : r \in {s \in single : s.at = a}}
  <2>4. ids \in SUBSET Nat /\ ids # {}
    BY <2>1, <2>3 DEF Reminding
  <2>5. PICK i \in ids : \A j \in ids : i <= j
    <3> HIDE DEF ids
    <3> QED BY <2>4, LeastOf
  <2>6. PICK r \in single : r.at = a /\ r.id = i
    BY <2>5
  <2>7. ASSUME NEW s \in single \ {r} PROVE Reminders!Earlier(r, s)
    <3>1. s.at \in Nat /\ s.id \in Nat /\ r.at \in Nat /\ r.id \in Nat /\ a <= s.at
      BY <2>1, <2>3, <2>6 DEF Reminding, Instants, Reminders!ScheduleBounds
    <3>2. s.id # r.id
      BY <2>1 DEF Known, Reminders!Active
    <3>3. s.at = a => i <= s.id
      BY <2>5
    <3> QED BY <2>6, <3>1, <3>2, <3>3 DEF Reminders!Earlier
  <2> QED BY <2>6, <2>7
<1> HIDE DEF first
<1>4. first \in SUBSET Reminders!Due(t)
  BY DEF first
<1> QED BY <1>1, <1>2, <1>3, <1>4

--------------------------------------------------------------------------------
(* The parties *)

ReminderTypes ==
  /\ setup \in Setups /\ now \in 0..Reminders!MaxTime
  /\ host \in {"live", "down"} /\ phase \in {"idle", "running", "maintenance"} /\ latched \in BOOLEAN
  /\ drive \in {"none", "queued", "preflight", "released", "dispatched", "barrier", "retiring"}
  /\ tool \in {Reminders!NoTool} \union [at : {"preflight", "barrier"}, ask : Reminders!Asks]
  /\ again \in BOOLEAN /\ timer \in {Reminders!None} \union 0..MaxDelay /\ idleWait \in BOOLEAN
  /\ stopping \in BOOLEAN /\ faulted \in BOOLEAN /\ missed \in BOOLEAN
  /\ faults \in 0..Reminders!MaxFaults /\ setBacks \in 0..Reminders!MaxSetBacks
  /\ restarts \in 0..Reminders!MaxRestarts /\ turns \in 0..Reminders!MaxTurns

(* The run holds the phase while its job does, and a faulted one looks no more. *)
ReminderPlaces ==
  /\ Queued
  /\ latched => drive \in {"released", "dispatched"}
  /\ drive \in {"released", "dispatched"} => phase = "maintenance"
  /\ faulted => drive \in {"released", "retiring", "none"}
  /\ host = "down" => drive = "none" /\ tool = Reminders!NoTool /\ phase = "idle"
       /\ timer = Reminders!None /\ ~latched /\ ~faulted

ReminderLogs == Sound(log) /\ stored \in 0..Len(log)

LEMMA ReminderBounds ==
  ASSUME Reminders!ScheduleBounds, ReminderTypes
  PROVE  /\ Reminders!MaxTime \in Nat /\ Reminders!MaxFaults \in Nat /\ Reminders!MaxSetBacks \in Nat
              /\ Reminders!MaxRestarts \in Nat
         /\ Reminders!MaxTurns \in Nat /\ Reminders!MaxIds \in Nat
              /\ Reminders!Intervals \subseteq Nat \ {0} /\ MaxDelay \in Nat /\ now \in Nat
<1>1. setup \in Setups
  BY DEF ReminderTypes
<1>2. /\ Reminders!MaxTime \in Nat /\ Reminders!MaxFaults \in Nat /\ Reminders!MaxSetBacks \in Nat
           /\ Reminders!MaxRestarts \in Nat
      /\ Reminders!MaxTurns \in Nat /\ Reminders!MaxIds \in Nat
           /\ Reminders!Intervals \subseteq Nat \ {0} /\ MaxDelay \in Nat
  BY <1>1 DEF Reminders!ScheduleBounds, Reminders!MaxTime, Reminders!MaxFaults, Reminders!MaxSetBacks,
      Reminders!MaxRestarts, Reminders!MaxTurns, Reminders!MaxIds, Reminders!Intervals
<1> QED BY <1>2 DEF ReminderTypes

LEMMA SetupStands ==
  ASSUME UNCHANGED setup
  PROVE  /\ Reminders!MaxTime' = Reminders!MaxTime /\ Reminders!MaxFaults' = Reminders!MaxFaults
              /\ Reminders!MaxSetBacks' = Reminders!MaxSetBacks
         /\ Reminders!MaxRestarts' = Reminders!MaxRestarts /\ Reminders!MaxTurns' = Reminders!MaxTurns
              /\ Reminders!Asks' = Reminders!Asks
BY DEF Reminders!MaxTime, Reminders!MaxFaults, Reminders!MaxSetBacks, Reminders!MaxRestarts,
    Reminders!MaxTurns, Reminders!Asks, Reminders!MaxIds, Reminders!Intervals


LEMMA DrivesKeepTypes ==
  ASSUME Reminders!ScheduleBounds, ReminderTypes, ReminderPlaces, ReminderLogs, UNCHANGED setup,
         Reminders!Drives
  PROVE  ReminderTypes' /\ ReminderPlaces'
<1>0. /\ Reminders!MaxTime' = Reminders!MaxTime /\ Reminders!MaxFaults' = Reminders!MaxFaults
           /\ Reminders!MaxSetBacks' = Reminders!MaxSetBacks
      /\ Reminders!MaxRestarts' = Reminders!MaxRestarts /\ Reminders!MaxTurns' = Reminders!MaxTurns
           /\ Reminders!Asks' = Reminders!Asks
      /\ Reminders!MaxTime \in Nat /\ Reminders!MaxFaults \in Nat /\ Reminders!MaxSetBacks \in Nat
           /\ now \in Nat
  BY SetupStands, ReminderBounds
<1>a. Queued /\ again \in BOOLEAN /\ stopping \in BOOLEAN /\ faulted \in BOOLEAN
  BY DEF ReminderTypes, ReminderPlaces
<1>b. Known(log) /\ Reminders!Active \in SUBSET Reminding
  BY SoundNow DEF ReminderLogs, Known, Reminders!Active
<1>c. \A t \in Nat : Reminders!Due(t) = {} => Reminders!Delay(t) \in {Reminders!None} \union 0..MaxDelay
  BY <1>b, TimerArmed
<1>1. CASE Reminders!BeginDrive
  <2>1. queue # <<>> /\ Head(queue) = "drive" /\ drive = "queued" /\ host = "live" /\ tool' = tool
    BY <1>1 DEF Reminders!BeginDrive, Reminders!InDrive
  <2>2. CASE Reminders!Runnable
    <3>1. drive' = "preflight" /\ queue' = queue /\ again' = again
      BY <1>1, <2>2 DEF Reminders!BeginDrive
    <3>2. Queued'
      BY <2>1, <3>1, <1>a DEF Queued, Has
    <3> QED
      BY <1>0, <1>1, <2>1, <3>1, <3>2 DEF Reminders!BeginDrive, ReminderTypes, ReminderPlaces,
          Reminders!clock, Reminders!store, Reminders!agent
  <2>3. CASE ~Reminders!Runnable
    <3>1. Reminders!EndsDrive(FALSE, faulted)
      BY <1>1, <2>3 DEF Reminders!BeginDrive
    <3>2. Queued' /\ again' = FALSE /\ drive' \in {"queued", "retiring"} /\ (faulted => drive' = "retiring")
      BY <2>1, <3>1, <1>a, EndsDriveMoves
    <3> QED
      BY <1>0, <1>1, <2>1, <3>2 DEF Reminders!BeginDrive, ReminderTypes, ReminderPlaces, Reminders!clock,
          Reminders!store, Reminders!agent
  <2> QED BY <2>2, <2>3
<1>2. CASE Reminders!PreflightFails
  <2>1. queue # <<>> /\ Head(queue) = "drive" /\ drive = "preflight" /\ host = "live" /\ tool' = tool
        /\ Reminders!EndsDrive(FALSE, faulted)
    BY <1>2 DEF Reminders!PreflightFails, Reminders!InDrive
  <2>2. Queued' /\ again' = FALSE /\ drive' \in {"queued", "retiring"} /\ (faulted => drive' = "retiring")
    BY <2>1, <1>a, EndsDriveMoves
  <2>3. faults' \in 0..Reminders!MaxFaults
    BY <1>0, <1>2 DEF Reminders!PreflightFails, Reminders!Fault, ReminderTypes
  <2> QED BY <1>0, <1>2, <2>1, <2>2, <2>3 DEF Reminders!PreflightFails, ReminderTypes, ReminderPlaces,
      Reminders!clock, Reminders!store, Reminders!agent
<1>3. CASE Reminders!Waits
  BY <1>0, <1>3, <1>a, EndsDriveMoves, <1>c DEF Reminders!Waits, Reminders!InDrive,
     ReminderTypes, ReminderPlaces, Reminders!clock, Reminders!agent
<1>4. CASE Reminders!FindsBusy
  <2>1. queue # <<>> /\ Head(queue) = "drive" /\ drive = "preflight" /\ host = "live" /\ tool' = tool
        /\ Reminders!EndsDrive(FALSE, faulted)
    BY <1>4 DEF Reminders!FindsBusy, Reminders!Busy, Reminders!InDrive
  <2>2. Queued' /\ again' = FALSE /\ drive' \in {"queued", "retiring"} /\ (faulted => drive' = "retiring")
    BY <2>1, <1>a, EndsDriveMoves
  <2> QED BY <1>0, <1>4, <2>1, <2>2 DEF Reminders!FindsBusy, ReminderTypes, ReminderPlaces,
      Reminders!clock, Reminders!agent
<1>5. ASSUME NEW t \in 0..Reminders!MaxTime, Reminders!Claims(t), drive' \in {"released", "dispatched"},
             latched' \in BOOLEAN,
             faulted' \in BOOLEAN, missed' \in BOOLEAN, timer' \in {Reminders!None} \union 0..MaxDelay,
             faults' \in 0..Reminders!MaxFaults, faulted' => drive' = "released"
      PROVE  ReminderTypes' /\ ReminderPlaces'
  <2>1. drive = "preflight" /\ host = "live" /\ tool' = tool /\ queue' = queue
    BY <1>5 DEF Reminders!Claims, Reminders!InDrive
  <2>2. Queued'
    BY <1>5, <2>1, <1>a DEF Queued, Has
  <2>3. setBacks' \in 0..Reminders!MaxSetBacks
    BY <1>0, <1>5 DEF ReminderTypes, Reminders!Claims
  <2> QED BY <1>0, <1>5, <2>1, <2>2, <2>3 DEF Reminders!Claims, ReminderTypes, ReminderPlaces
<1>6. ASSUME NEW t \in 0..Reminders!MaxTime, Reminders!ClaimsInVain(t) PROVE ReminderTypes'
             /\ ReminderPlaces'
  <2>1. Reminders!Claims(t) /\ drive' = "released" /\ latched' = FALSE /\ faulted' = faulted
    BY <1>6 DEF Reminders!ClaimsInVain
  <2>2. ~faulted
    BY <2>1 DEF Reminders!Claims, Reminders!InDrive, ReminderPlaces
  <2>3. missed' \in BOOLEAN /\ timer' \in {Reminders!None} \union 0..MaxDelay
          /\ faults' \in 0..Reminders!MaxFaults
    <3>1. CASE Reminders!Decided(Reminders!Decision(now), t) = {} /\ timer' = Reminders!Delay(t)
                 /\ UNCHANGED <<missed, faults>>
      BY <1>0, <3>1, <1>b, Decisions, <1>c DEF Reminders!Decided, ReminderTypes
    <3>2. CASE Reminders!Fault /\ missed' = TRUE /\ UNCHANGED timer
      BY <1>0, <3>2 DEF Reminders!Fault, ReminderTypes
    <3> QED BY <1>6, <3>1, <3>2 DEF Reminders!ClaimsInVain
  <2>4. faulted' \in BOOLEAN /\ ~faulted' /\ latched' \in BOOLEAN
    BY <2>1, <2>2, <1>a
  <2> QED BY <1>5, <2>1, <2>3, <2>4
<1>7. ASSUME NEW t \in 0..Reminders!MaxTime, Reminders!Dispatch(t) PROVE ReminderTypes' /\ ReminderPlaces'
  BY <1>0, <1>5, <1>7 DEF Reminders!Dispatch, Reminders!Claims, Reminders!InDrive,
     ReminderPlaces, ReminderTypes
<1>8. ASSUME NEW t \in 0..Reminders!MaxTime, Reminders!DispatchFails(t) PROVE ReminderTypes'
             /\ ReminderPlaces'
  BY <1>0, <1>5, <1>8 DEF Reminders!DispatchFails, Reminders!Fault, ReminderTypes
<1>9. CASE Reminders!Releases
  <2>1. queue # <<>> /\ Head(queue) = "drive" /\ drive \in {"released", "dispatched"} /\ host = "live"
          /\ tool' = tool
    BY <1>9 DEF Reminders!Releases, Reminders!InDrive
  <2>2. CASE drive = "dispatched"
    BY <1>0, <1>9, <2>1, <2>2, <1>a DEF Reminders!Releases, Queued, Has, ReminderPlaces,
       ReminderTypes, Reminders!clock, Reminders!store
  <2>3. CASE drive # "dispatched"
    BY <1>0, <1>9, <2>1, <2>3, <1>a, EndsDriveMoves DEF Reminders!Releases, ReminderTypes,
       ReminderPlaces, Reminders!clock, Reminders!store
  <2> QED BY <2>2, <2>3
<1>10. CASE Reminders!Confirms
  <2>1. queue # <<>> /\ Head(queue) = "drive" /\ drive = "barrier" /\ host = "live" /\ tool' = tool
        /\ \E more \in BOOLEAN : Reminders!EndsDrive(more, faulted)
    BY <1>10, <1>a DEF Reminders!Confirms, Reminders!InDrive, Reminders!Runnable
  <2>2. Queued' /\ again' = FALSE /\ drive' \in {"queued", "retiring"} /\ (faulted => drive' = "retiring")
    BY <2>1, <1>a, EndsDriveMoves
  <2>3. missed' \in BOOLEAN /\ timer' \in {Reminders!None} \union 0..MaxDelay
          /\ faults' \in 0..Reminders!MaxFaults
    <3>1. CASE timer' = (IF Reminders!Ignored THEN timer ELSE Reminders!None)
                 /\ UNCHANGED <<missed, faults>>
      BY <1>0, <3>1 DEF ReminderTypes
    <3>2. CASE Reminders!Fault /\ missed' = TRUE /\ UNCHANGED <<Reminders!store, timer>>
      BY <1>0, <3>2 DEF ReminderTypes, Reminders!Fault
    <3> QED BY <1>10, <3>1, <3>2 DEF Reminders!Confirms
  <2> QED BY <1>0, <1>10, <2>1, <2>2, <2>3 DEF Reminders!Confirms, ReminderTypes, ReminderPlaces,
      Reminders!clock, Reminders!agent
<1>11. CASE Reminders!Retire
  <2>1. drive = "retiring" /\ host = "live" /\ tool' = tool
    BY <1>11 DEF Reminders!Retire
  <2>2. CASE Reminders!Retires
    <3>1. queue' = Append(queue, "drive") /\ drive' = "queued" /\ again' = FALSE
            /\ timer' = Reminders!None /\ ~faulted
      BY <1>11, <2>2 DEF Reminders!Retire, Reminders!Retires, Reminders!Ignored
    <3>2. Queued'
      BY <2>1, <3>1, <1>a, Joins DEF Queued
    <3> QED BY <1>0, <1>11, <2>1, <3>1, <3>2 DEF Reminders!Retire, ReminderTypes, ReminderPlaces,
        Reminders!clock, Reminders!store, Reminders!agent
  <2>3. CASE ~Reminders!Retires
    BY <1>0, <1>11, <2>1, <2>3, <1>a DEF Reminders!Retire, Queued, Has, ReminderTypes,
       ReminderPlaces, Reminders!clock, Reminders!store, Reminders!agent
  <2> QED BY <2>2, <2>3
<1> QED BY <1>1, <1>2, <1>3, <1>4, <1>6, <1>7, <1>8, <1>9, <1>10, <1>11 DEF Reminders!Drives

LEMMA RequestKeeps ==
  ASSUME ReminderTypes, ReminderPlaces, NEW q \in Lines, Has(q, "drive") <=> Has(queue, "drive"),
         Reminders!RequestDrive(q)
  PROVE  /\ queue' \in Lines /\ (Has(queue', "drive") <=> drive' \notin {"none", "retiring"})
         /\ (Has(queue', "tool") <=> Has(q, "tool"))
         /\ again' \in BOOLEAN /\ timer' \in {Reminders!None, timer}
         /\ drive' = drive \/ (drive = "none" /\ drive' = "queued" /\ ~faulted)
<1>1. again \in BOOLEAN /\ stopping \in BOOLEAN /\ faulted \in BOOLEAN
  BY DEF ReminderTypes
<1>2. Has(q, "drive") <=> drive \notin {"none", "retiring"}
  BY DEF ReminderPlaces, Queued
<1> QED BY <1>1, <1>2, RequestDriveMoves DEF Reminders!Ignored

LEMMA ToolsKeepTypes ==
  ASSUME Reminders!ScheduleBounds, ReminderTypes, ReminderPlaces, UNCHANGED setup, Reminders!Tools
         \/ \E what \in Reminders!Asks : Reminders!Ask(what)
  PROVE  ReminderTypes' /\ ReminderPlaces'
<1>0. /\ Reminders!MaxTime' = Reminders!MaxTime /\ Reminders!MaxFaults' = Reminders!MaxFaults
           /\ Reminders!MaxSetBacks' = Reminders!MaxSetBacks
      /\ Reminders!MaxRestarts' = Reminders!MaxRestarts /\ Reminders!MaxTurns' = Reminders!MaxTurns
           /\ Reminders!Asks' = Reminders!Asks
      /\ Reminders!MaxFaults \in Nat
  BY SetupStands, ReminderBounds
<1>a. Queued
  BY DEF ReminderPlaces
<1>1. CASE Reminders!ToolEnds
  <2>1. /\ queue # <<>> /\ Head(queue) = "tool" /\ host = "live" /\ drive' = drive
        /\ queue' = Tail(queue) /\ tool' = Reminders!NoTool
    BY <1>1 DEF Reminders!ToolEnds, Reminders!InTool, Reminders!runtime
  <2>2. Queued'
    BY <2>1, <1>a, Quits DEF Queued
  <2>3. faults' \in 0..Reminders!MaxFaults
    BY <1>0, <1>1 DEF Reminders!ToolEnds, Reminders!Fault, ReminderTypes
  <2> QED BY <1>0, <1>1, <2>1, <2>2, <2>3 DEF Reminders!ToolEnds, ReminderTypes, ReminderPlaces,
      Reminders!clock, Reminders!agent, Reminders!runtime
<1>2. ASSUME NEW events, Reminders!Preflighted(events) PROVE ReminderTypes' /\ ReminderPlaces'
  <2>1. queue # <<>> /\ Head(queue) = "tool" /\ host = "live" /\ tool.at = "preflight"
    BY <1>2 DEF Reminders!Preflighted, Reminders!InTool
  <2>2. tool \in [at : {"preflight", "barrier"}, ask : Reminders!Asks]
    BY <2>1 DEF ReminderTypes, Reminders!NoTool
  <2>3. CASE events = <<>>
    <3>1. tool' = Reminders!NoTool /\ Reminders!RequestDrive(Tail(queue))
      BY <1>2, <2>3 DEF Reminders!Preflighted
    <3>2. Tail(queue) \in Lines /\ (Has(Tail(queue), "drive") <=> Has(queue, "drive"))
            /\ ~Has(Tail(queue), "tool")
      BY <2>1, <1>a, Quits DEF Queued
    <3>3. /\ queue' \in Lines /\ (Has(queue', "drive") <=> drive' \notin {"none", "retiring"})
               /\ ~Has(queue', "tool")
          /\ again' \in BOOLEAN /\ timer' \in {Reminders!None, timer}
          /\ drive' = drive \/ (drive = "none" /\ drive' = "queued" /\ ~faulted)
      BY <3>1, <3>2, RequestKeeps
    <3> QED BY <1>0, <1>2, <2>1, <3>1, <3>3 DEF Reminders!Preflighted, ReminderTypes, ReminderPlaces,
        Queued, Reminders!clock, Reminders!agent
  <2>4. CASE events # <<>>
    <3>1. tool' = [tool EXCEPT !.at = "barrier"] /\ Reminders!RequestDrive(queue)
      BY <1>2, <2>4 DEF Reminders!Preflighted
    <3>2. /\ queue' \in Lines /\ (Has(queue', "drive") <=> drive' \notin {"none", "retiring"})
          /\ (Has(queue', "tool") <=> Has(queue, "tool"))
          /\ again' \in BOOLEAN /\ timer' \in {Reminders!None, timer}
          /\ drive' = drive \/ (drive = "none" /\ drive' = "queued" /\ ~faulted)
      BY <3>1, <1>a, RequestKeeps DEF Queued
    <3>3. tool' \in [at : {"preflight", "barrier"}, ask : Reminders!Asks] /\ tool' # Reminders!NoTool
            /\ tool # Reminders!NoTool
      BY <2>1, <2>2, <3>1 DEF Reminders!NoTool
    <3> QED BY <1>0, <1>2, <2>1, <3>2, <3>3, <1>a DEF Reminders!Preflighted, ReminderTypes,
        ReminderPlaces, Queued, Reminders!clock, Reminders!agent
  <2> QED BY <2>3, <2>4
<1>3. CASE Reminders!Create \/ Reminders!Delete \/ Reminders!NoChange
  BY <1>2, <1>3 DEF Reminders!Create, Reminders!Delete, Reminders!NoChange
<1>4. CASE Reminders!ToolConfirms
  <2>1. queue # <<>> /\ Head(queue) = "tool" /\ host = "live" /\ tool' = Reminders!NoTool
          /\ Reminders!RequestDrive(Tail(queue))
    BY <1>4 DEF Reminders!ToolConfirms, Reminders!InTool
  <2>2. Tail(queue) \in Lines /\ (Has(Tail(queue), "drive") <=> Has(queue, "drive"))
          /\ ~Has(Tail(queue), "tool")
    BY <2>1, <1>a, Quits DEF Queued
  <2>3. /\ queue' \in Lines /\ (Has(queue', "drive") <=> drive' \notin {"none", "retiring"})
             /\ ~Has(queue', "tool")
        /\ again' \in BOOLEAN /\ timer' \in {Reminders!None, timer}
        /\ drive' = drive \/ (drive = "none" /\ drive' = "queued" /\ ~faulted)
    BY <2>1, <2>2, RequestKeeps
  <2> QED BY <1>0, <1>4, <2>1, <2>3 DEF Reminders!ToolConfirms, ReminderTypes, ReminderPlaces, Queued,
      Reminders!clock, Reminders!agent
<1>5. ASSUME NEW what \in Reminders!Asks, Reminders!Ask(what) PROVE ReminderTypes' /\ ReminderPlaces'
  <2>1. /\ host = "live" /\ tool = Reminders!NoTool /\ tool' = [at |-> "preflight", ask |-> what]
        /\ queue' = Append(queue, "tool") /\ drive' = drive
    BY <1>5 DEF Reminders!Ask, Reminders!runtime
  <2>2. tool' # Reminders!NoTool
    BY <2>1 DEF Reminders!NoTool
  <2>3. Queued'
    BY <2>1, <2>2, <1>a, Joins DEF Queued
  <2> QED BY <1>0, <1>5, <2>1, <2>3 DEF Reminders!Ask, ReminderTypes, ReminderPlaces, Reminders!clock,
      Reminders!agent, Reminders!runtime
<1> QED BY <1>1, <1>3, <1>4, <1>5 DEF Reminders!Tools

OthersStep ==
  \/ Reminders!Fires \/ Reminders!IdleSeen \/ Reminders!Dispose \/ Reminders!TurnBegins
       \/ Reminders!TurnEnds \/ Reminders!OthersBegin \/ Reminders!OthersEnd \/ Reminders!Tick
            \/ Reminders!SetBack
  \/ Reminders!Writes \/ Reminders!Crash \/ Reminders!Disposed \/ Reminders!Resumes

LEMMA OthersKeepTypes ==
  ASSUME Reminders!ScheduleBounds, ReminderTypes, ReminderPlaces, UNCHANGED setup, OthersStep
  PROVE  ReminderTypes' /\ ReminderPlaces'
<1>0. /\ Reminders!MaxTime' = Reminders!MaxTime /\ Reminders!MaxFaults' = Reminders!MaxFaults
           /\ Reminders!MaxSetBacks' = Reminders!MaxSetBacks
      /\ Reminders!MaxRestarts' = Reminders!MaxRestarts /\ Reminders!MaxTurns' = Reminders!MaxTurns
           /\ Reminders!Asks' = Reminders!Asks
      /\ Reminders!MaxTime \in Nat /\ Reminders!MaxSetBacks \in Nat /\ Reminders!MaxRestarts \in Nat
           /\ Reminders!MaxTurns \in Nat /\ MaxDelay \in Nat
  BY SetupStands, ReminderBounds
<1>a. Queued
  BY DEF ReminderPlaces
<1>b. UNCHANGED <<queue, tool, drive>> => Queued'
  BY <1>a DEF Queued, Has
<1>c. ASSUME Reminders!RequestDrive(queue), tool' = tool
      PROVE  /\ Queued' /\ again' \in BOOLEAN /\ timer' \in {Reminders!None, timer}
             /\ drive' = drive \/ (drive = "none" /\ drive' = "queued" /\ ~faulted)
  BY <1>a, <1>c, RequestKeeps DEF Queued
<1>1. CASE Reminders!Fires
  BY <1>0, <1>1, <1>c DEF Reminders!Fires, ReminderTypes, ReminderPlaces, Reminders!clock,
     Reminders!store, Reminders!agent
<1>2. CASE Reminders!IdleSeen
  BY <1>0, <1>2, <1>c DEF Reminders!IdleSeen, ReminderTypes, ReminderPlaces, Reminders!clock,
     Reminders!store, Reminders!agent
<1>3. CASE Reminders!Dispose
  BY <1>0, <1>3, <1>b DEF Reminders!Dispose, ReminderTypes, ReminderPlaces, Reminders!clock,
      Reminders!store, Reminders!agent
<1>4. CASE Reminders!TurnBegins
  BY <1>0, <1>4, <1>b DEF Reminders!TurnBegins, ReminderTypes, ReminderPlaces, Reminders!clock,
     Reminders!store, Reminders!runtime
<1>5. CASE Reminders!OthersBegin
  BY <1>0, <1>5, <1>b DEF Reminders!OthersBegin, ReminderTypes, ReminderPlaces, Reminders!clock,
     Reminders!store, Reminders!runtime
<1>6. CASE Reminders!TurnEnds
  BY <1>0, <1>6, <1>b, <1>c DEF Reminders!TurnEnds, ReminderTypes, ReminderPlaces,
     Reminders!clock, Reminders!store
<1>7. CASE Reminders!OthersEnd
  BY <1>0, <1>7, <1>b DEF Reminders!OthersEnd, ReminderTypes, ReminderPlaces, Reminders!clock,
      Reminders!store, Reminders!runtime
<1>8. CASE Reminders!Tick
  BY <1>0, <1>8, <1>b DEF Reminders!Tick, ReminderTypes, Reminders!None, ReminderPlaces,
     Reminders!store, Reminders!agent
<1>9. CASE Reminders!SetBack
  BY <1>0, <1>9, <1>b DEF Reminders!SetBack, ReminderTypes, ReminderPlaces, Reminders!store,
     Reminders!agent, Reminders!runtime
<1>10. CASE Reminders!Writes
  BY <1>0, <1>10, <1>b DEF Reminders!Writes, ReminderTypes, ReminderPlaces, Reminders!clock,
      Reminders!agent, Reminders!runtime
<1>11. CASE Reminders!Crash \/ Reminders!Disposed
  BY <1>0, <1>11, HasOf DEF Reminders!Crash, Reminders!Disposed, Reminders!Leaves, Queued,
     Lines, ReminderTypes, ReminderPlaces, Reminders!clock
<1>12. CASE Reminders!Resumes
  BY <1>0, <1>12, HasOf DEF Reminders!Resumes, ReminderTypes, Queued, Lines, ReminderPlaces,
     Reminders!clock, Reminders!store
<1> QED BY <1>1, <1>2, <1>3, <1>4, <1>5, <1>6, <1>7, <1>8, <1>9, <1>10, <1>11, <1>12 DEF OthersStep

--------------------------------------------------------------------------------
(* The log *)

(* An occurrence was sent once more than the process restarted, at most; one   *)
(* that may be sent again was not sent since.                                  *)
ReminderRepeats ==
  \A o \in Occurrences :
    /\ Times(log, o) <= 1 + restarts
    /\ host = "live" /\ ~faulted /\ Open(Reminders!Active, o) => Times(log, o) <= restarts

LEMMA DispatchKeeps ==
  ASSUME Reminders!ScheduleBounds, Sound(log), NEW d \in SUBSET Reminders!Active, NEW t \in Nat,
         \A r \in d : r.at <= t,
         NEW order \in Reminders!Orders(d), NEW n \in 0..Reminders!Cardinality(d), ReminderRepeats,
         host = "live", ~faulted, restarts \in Nat,
         log' = Partly(log, d, order, t, n)
  PROVE  /\ Sound(log')
         /\ \A o \in Occurrences : Times(log', o) <= 1 + restarts
         /\ n = Reminders!Cardinality(d) => \A o \in Occurrences : Open(Reminders!Active',
              o) => Times(log', o) <= restarts
<1>1. log \in Seq(Events) /\ Known(log) /\ Reminders!IsFiniteSet(d)
        /\ Reminders!Cardinality(d) \in Nat /\ Reminders!Active \in SUBSET Reminding
  BY SoundNow, ActiveFinite DEF Reminders!Active, Known
<1>2. PICK e : e = Reminders!Remind(d, t)[1]
  OBVIOUS
<1>3. e \in Events /\ e.op = "remind" /\ e.due = {<<r.id, Reminders!Latest(r, t)>> : r \in d}
  BY <1>2, Reminds DEF Reminders!Active, Reminders!Remind
<1>4. /\ Sound(log') /\ Reminders!ActiveIn(log') = Leaving(Reminders!Active, order, n, t)
      /\ \A o : Times(log', o) = Times(Append(log, e), o)
  BY <1>2, Dispatching DEF Reminders!Active
<1>5. ASSUME NEW o \in Occurrences
      PROVE  /\ Times(log, o) \in Nat
             /\ o \in e.due => Times(log', o) = Times(log, o) + 1 /\ Open(Reminders!Active, o)
             /\ o \notin e.due => Times(log', o) = Times(log, o)
  BY <1>1, <1>3, <1>4, TimesCounted, TimesAppend, Latests DEF Open
<1>6. \A o \in Occurrences : Times(log', o) <= 1 + restarts
  BY <1>5 DEF ReminderRepeats
<1>7. ASSUME n = Reminders!Cardinality(d), NEW o \in Occurrences, Open(Reminders!Active', o)
      PROVE  Times(log', o) <= restarts
  <2>1. PICK x \in Leaving(Reminders!Active, order, n, t) : x.id = o[1] /\ x.at <= o[2]
    BY <1>4, <1>7 DEF Open, Reminders!Active
  <2>2. \A r \in d : \E j \in 1..n : order[j] = r
    BY <1>7 DEF Reminders!Orders, Reminders!Bijection, Reminders!Surjection
  <2>3. \A j \in 1..n : order[j] \in d
    BY <1>7 DEF Reminders!Orders, Reminders!Bijection, Reminders!Surjection
  <2>4. \A r, s \in Reminders!Active : r.id = s.id => r = s
    BY <1>1 DEF Known, Reminders!Active
  <2>5. CASE x \in Reminders!Active /\ x \notin d
    BY <1>3, <1>5, <2>1, <2>4, <2>5 DEF Open, ReminderRepeats
  <2>6. CASE \E j \in 1..n : x \in Reminders!Advanced(order[j], t)
    <3>1. PICK r \in d : x \in Reminders!Advanced(r, t)
      BY <2>3, <2>6
    <3>2. r \in Reminding /\ r.at <= t
      BY <1>1
    <3>3. x.id = r.id /\ x \in Reminding /\ Reminders!Latest(r, t) < x.at
            /\ r.at <= Reminders!Latest(r, t) /\ Reminders!Latest(r, t) \in Nat
      BY <3>1, <3>2, Advances, Latests
    <3>4. r.at \in Nat /\ x.at \in Nat /\ o[2] \in Nat
      BY <3>2, <3>3 DEF Reminding, Instants, Reminders!ScheduleBounds, Occurrences
    <3>5. o \notin e.due
      <4> SUFFICES ASSUME o \in e.due PROVE FALSE
        OBVIOUS
      <4>1. PICK s \in d : o = <<s.id, Reminders!Latest(s, t)>>
        BY <1>3
      <4>2. s = r
        BY <2>1, <2>4, <3>3, <4>1
      <4> QED BY <2>1, <3>3, <3>4, <4>1, <4>2
    <3>6. Open(Reminders!Active, o)
      BY <2>1, <3>3, <3>4 DEF Open
    <3> QED BY <1>5, <3>5, <3>6 DEF ReminderRepeats
  <2>7. (x \in Reminders!Active /\ (\A j \in 1..n : order[j] # x))
          \/ \E j \in 1..n : x \in Reminders!Advanced(order[j], t)
    BY <2>1 DEF Leaving
  <2> QED BY <2>2, <2>5, <2>6, <2>7
<1> QED BY <1>4, <1>6, <1>7

(* One more event, no reminder. *)
LEMMA EventKeeps ==
  ASSUME Reminders!ScheduleBounds, Sound(log), NEW e \in Events, Follows(log, e), e.op \in {"create",
         "delete"}, ReminderRepeats,
         host = "live", restarts \in Nat, log' = log \o <<e>>
  PROVE  /\ Sound(log') /\ Len(log) <= Len(log')
         /\ \A o \in Occurrences :
              /\ Times(log', o) <= 1 + restarts
              /\ ~faulted /\ Open(Reminders!Active', o) => Times(log', o) <= restarts
<1>1. log \in Seq(Events) /\ Known(log)
  BY SoundNow
<1>2. log' = Append(log, e)
  BY <1>1
<1>3. Sound(log') /\ Len(log) <= Len(log')
  <2>1. Len(log') = Len(log) + 1 /\ Len(log) \in Nat
    BY <1>1, <1>2
  <2>2. Sound(log')
    BY <1>2, SoundAppend
  <2> QED BY <2>1, <2>2
<1>4. \A o : Times(log', o) = Times(log, o)
  BY <1>1, <1>2, TimesAppend
<1>5. Reminders!Active' = Reminders!Folds(Reminders!Active, e)
  BY <1>1, <1>2, ActiveInAppend DEF Reminders!Active
<1>6. ASSUME NEW o \in Occurrences, ~faulted, Open(Reminders!Active', o) PROVE Times(log, o) <= restarts
  <2>1. PICK x \in Reminders!Active' : x.id = o[1] /\ x.at <= o[2]
    BY <1>6 DEF Open
  <2>2. CASE x \in Reminders!Active
    BY <1>6, <2>1, <2>2 DEF Open, ReminderRepeats
  <2>3. CASE x \notin Reminders!Active
    <3>1. e.op = "create" /\ x.id = e.id
      BY <1>5, <2>1, <2>3 DEF Reminders!Folds
    <3>2. PICK k \in Nat : Reminders!Seen(log) = 1..k /\ e.id = k + 1
      BY <3>1 DEF Follows
    <3>3. o[1] \notin Reminders!Seen(log)
      BY <2>1, <3>1, <3>2
    <3>4. Reminded(log, o) = {}
      BY <1>1, <3>3 DEF Reminded, Known
    <3>5. Times(log, o) = 0
      BY <3>4, SameSizes, FS_EmptySet DEF Times
    <3> QED BY <3>5
  <2> QED BY <2>2, <2>3
<1> QED BY <1>3, <1>4, <1>6 DEF ReminderRepeats

LEMMA DrivesKeepLogs ==
  ASSUME Reminders!ScheduleBounds, ReminderTypes, ReminderPlaces, ReminderLogs, ReminderRepeats,
         UNCHANGED setup, Reminders!Drives
  PROVE  ReminderLogs' /\ ReminderRepeats'
<1>0. now \in Nat /\ Reminders!MaxTime \in Nat /\ restarts \in Nat /\ Len(log) \in Nat
        /\ log \in Seq(Events) /\ Known(log)
  BY ReminderBounds, SoundNow DEF ReminderLogs, ReminderTypes
<1>1. ASSUME UNCHANGED <<log, host, faulted, restarts>>, stored' \in 0..Len(log)
      PROVE  ReminderLogs' /\ ReminderRepeats'
  BY <1>1 DEF ReminderLogs, ReminderRepeats, Reminders!Active
<1>2. CASE Reminders!BeginDrive \/ Reminders!PreflightFails \/ Reminders!Retire \/ Reminders!Releases
  BY <1>1, <1>2 DEF ReminderLogs, Reminders!BeginDrive, Reminders!PreflightFails, Reminders!Retire,
      Reminders!Releases, Reminders!store, Reminders!agent
<1>3. CASE Reminders!Waits \/ Reminders!FindsBusy
  <2>1. UNCHANGED <<log, host, faulted, restarts>> /\ stored' = Len(log)
    BY <1>3 DEF Reminders!Waits, Reminders!FindsBusy, Reminders!Stored, Reminders!agent
  <2> QED BY <1>0, <1>1, <2>1
<1>4. CASE Reminders!Confirms
  <2>1. UNCHANGED <<log, host, faulted, restarts>> /\ (stored' = Len(log) \/ stored' = stored)
    BY <1>4 DEF Reminders!Confirms, Reminders!Stored, Reminders!agent, Reminders!store
  <2> QED BY <1>0, <1>1, <2>1 DEF ReminderLogs
<1>5. ASSUME NEW t \in 0..Reminders!MaxTime, Reminders!ClaimsInVain(t) PROVE ReminderLogs'
             /\ ReminderRepeats'
  BY <1>0, <1>1, <1>5 DEF Reminders!ClaimsInVain, Reminders!Claims, Reminders!Stored
<1>6. ASSUME NEW t \in 0..Reminders!MaxTime, NEW d, d = Reminders!Decided(Reminders!Decision(now), t),
             Reminders!Claims(t)
      PROVE  t \in Nat /\ d \in SUBSET Reminders!Active /\ (\A r \in d : r.at <= t) /\ host = "live"
               /\ ~faulted
             /\ host' = host /\ restarts' = restarts
  BY <1>0, <1>6, Decisions DEF Reminders!Claims, Reminders!InDrive, Reminders!Decided,
     Reminders!Due, ReminderPlaces
<1>7. ASSUME NEW t \in 0..Reminders!MaxTime, Reminders!Dispatch(t) PROVE ReminderLogs' /\ ReminderRepeats'
  <2>1. PICK d : d = Reminders!Decided(Reminders!Decision(now), t)
    OBVIOUS
  <2>2. Reminders!Claims(t) /\ stored' = Len(log) /\ faulted' = faulted
        /\ \E order \in Reminders!Orders(d) : log' = log \o Reminders!Appended(d, order, t)
    BY <1>7, <2>1 DEF Reminders!Dispatch
  <2>3. PICK order \in Reminders!Orders(d) : log' = log \o Reminders!Appended(d, order, t)
    BY <2>2
  <2>4. t \in Nat /\ d \in SUBSET Reminders!Active /\ (\A r \in d : r.at <= t) /\ host = "live" /\ ~faulted
        /\ host' = host /\ restarts' = restarts
    BY <1>6, <2>1, <2>2
  <2>5. Reminders!Cardinality(d) \in Nat /\ Reminders!Appended(d, order, t) \in Seq(Events)
        /\ Len(Reminders!Appended(d, order, t)) = Reminders!Cardinality(d) + 1
    BY <1>0, <2>4, ActiveFinite, AppendedParts DEF Reminders!Active, ReminderLogs
  <2>6. SubSeq(Reminders!Appended(d, order, t), 1, Reminders!Cardinality(d) + 1) = Reminders!Appended(d,
          order, t)
    BY <2>5, PrefixWhole
  <2>7. log' = Partly(log, d, order, t, Reminders!Cardinality(d))
          /\ Reminders!Cardinality(d) \in 0..Reminders!Cardinality(d)
    BY <2>3, <2>5, <2>6 DEF Partly
  <2>8. /\ Sound(log')
        /\ \A o \in Occurrences : Times(log', o) <= 1 + restarts
        /\ \A o \in Occurrences : Open(Reminders!Active', o) => Times(log', o) <= restarts
    BY <1>0, <2>4, <2>7, DispatchKeeps DEF ReminderLogs
  <2>9. stored' \in 0..Len(log')
    BY <1>0, <2>2, <2>3, <2>5
  <2> QED BY <2>4, <2>8, <2>9 DEF ReminderLogs, ReminderRepeats
<1>8. ASSUME NEW t \in 0..Reminders!MaxTime, Reminders!DispatchFails(t) PROVE ReminderLogs'
             /\ ReminderRepeats'
  <2>1. PICK d : d = Reminders!Decided(Reminders!Decision(now), t)
    OBVIOUS
  <2>2. Reminders!Claims(t) /\ stored' = Len(log) /\ faulted' = TRUE
        /\ \E order \in Reminders!Orders(d),
             n \in 1..Reminders!Cardinality(d) : log' = log \o SubSeq(Reminders!Appended(d, order, t), 1, n)
    BY <1>8, <2>1 DEF Reminders!DispatchFails
  <2>3. PICK order \in Reminders!Orders(d),
               n \in 1..Reminders!Cardinality(d) : log' = log \o SubSeq(Reminders!Appended(d, order, t),
               1, n)
    BY <2>2
  <2>4. t \in Nat /\ d \in SUBSET Reminders!Active /\ (\A r \in d : r.at <= t) /\ host = "live" /\ ~faulted
        /\ host' = host /\ restarts' = restarts
    BY <1>6, <2>1, <2>2
  <2>5. Reminders!Cardinality(d) \in Nat /\ Reminders!Appended(d, order, t) \in Seq(Events)
        /\ Len(Reminders!Appended(d, order, t)) = Reminders!Cardinality(d) + 1
    BY <1>0, <2>4, ActiveFinite, AppendedParts DEF Reminders!Active, ReminderLogs
  <2>6. n - 1 + 1 = n /\ n - 1 \in 0..Reminders!Cardinality(d)
    BY <2>5
  <2>7. log' = Partly(log, d, order, t, n - 1)
    BY <2>3, <2>6 DEF Partly
  <2>8. Sound(log') /\ \A o \in Occurrences : Times(log', o) <= 1 + restarts
    BY <1>0, <2>4, <2>6, <2>7, DispatchKeeps DEF ReminderLogs
  <2>9. stored' \in 0..Len(log')
    BY <1>0, <2>2, <2>3, <2>5
  <2> QED BY <2>2, <2>4, <2>8, <2>9 DEF ReminderLogs, ReminderRepeats
<1> QED BY <1>2, <1>3, <1>4, <1>5, <1>7, <1>8 DEF Reminders!Drives

LEMMA ToolsKeepLogs ==
  ASSUME Reminders!ScheduleBounds, ReminderTypes, ReminderPlaces, ReminderLogs, ReminderRepeats,
         UNCHANGED setup, Reminders!Tools \/ \E what \in Reminders!Asks : Reminders!Ask(what)
  PROVE  ReminderLogs' /\ ReminderRepeats'
<1>0. now \in Nat /\ restarts \in Nat /\ Len(log) \in Nat /\ log \in Seq(Events) /\ Known(log)
        /\ Reminders!Intervals \subseteq Nat \ {0}
  BY ReminderBounds, SoundNow DEF ReminderLogs, ReminderTypes
<1>1. ASSUME UNCHANGED <<log, host, faulted, restarts>>, stored' \in 0..Len(log)
      PROVE  ReminderLogs' /\ ReminderRepeats'
  BY <1>1 DEF ReminderLogs, ReminderRepeats, Reminders!Active
<1>2. CASE Reminders!ToolEnds \/ \E what \in Reminders!Asks : Reminders!Ask(what)
  BY <1>1, <1>2 DEF ReminderLogs, Reminders!ToolEnds, Reminders!Ask, Reminders!store, Reminders!agent,
      Reminders!runtime
<1>3. CASE Reminders!ToolConfirms
  BY <1>0, <1>1, <1>3 DEF Reminders!ToolConfirms, Reminders!Stored, Reminders!agent
<1>4. CASE Reminders!NoChange
  BY <1>0, <1>1, <1>4 DEF Reminders!NoChange, Reminders!Preflighted, Reminders!agent
<1>5. ASSUME NEW e \in Events, Follows(log, e), e.op \in {"create", "delete"}, Reminders!Preflighted(<<e>>)
      PROVE  ReminderLogs' /\ ReminderRepeats'
  BY <1>0, <1>5, EventKeeps DEF Reminders!Preflighted, Reminders!InTool, Reminders!agent,
     ReminderLogs, Sound, ReminderRepeats
<1>6. CASE Reminders!Create
  <2>1. PICK k \in Nat : Reminders!Seen(log) = 1..k
    BY <1>0 DEF Known
  <2>2. Reminders!Cardinality(Reminders!Seen(log)) = k
    BY <2>1, SameSizes, FS_Interval
  <2>3. tool.at = "preflight" /\ tool.ask.op = "create"
    BY <1>6 DEF Reminders!Create, Reminders!InTool
  <2>4. tool.ask \in Reminders!Asks
    BY <2>3 DEF ReminderTypes, Reminders!NoTool
  <2>5. tool.ask.delay \in Nat /\ tool.ask.every \in Nat
    BY <1>0, <2>3, <2>4 DEF Reminders!Asks, Reminders!ScheduleBounds
  <2>6. PICK e : e = [op |-> "create", id |-> k + 1, at |-> now + tool.ask.delay, every |-> tool.ask.every]
    OBVIOUS
  <2>7. Reminders!Preflighted(<<e>>) /\ now + tool.ask.delay <= Horizon
    BY <1>6, <2>2, <2>6 DEF Reminders!Create
  <2>8. now + tool.ask.delay \in Instants
    BY <1>0, <2>5, <2>7 DEF Instants, Reminders!ScheduleBounds
  <2>9. e \in Events /\ Follows(log, e) /\ e.op = "create"
    BY <2>1, <2>5, <2>6, <2>8 DEF Events, Follows
  <2> QED BY <1>5, <2>7, <2>9
<1>7. CASE Reminders!Delete
  BY <1>0, <1>5, <1>7 DEF Reminders!Delete, Reminders!Deletable, Known, Reminding,
     Reminders!Active, Events, Follows
<1> QED BY <1>2, <1>3, <1>4, <1>6, <1>7 DEF Reminders!Tools

LEMMA OthersKeepLogs ==
  ASSUME Reminders!ScheduleBounds, ReminderTypes, ReminderPlaces, ReminderLogs, ReminderRepeats,
         UNCHANGED setup, OthersStep
  PROVE  ReminderLogs' /\ ReminderRepeats'
<1>0. restarts \in Nat /\ Len(log) \in Nat /\ log \in Seq(Events) /\ Known(log) /\ stored \in 0..Len(log)
  BY ReminderBounds, SoundNow DEF ReminderLogs, ReminderTypes
<1>1. ASSUME UNCHANGED <<log, host, faulted, restarts>>, stored' \in 0..Len(log)
      PROVE  ReminderLogs' /\ ReminderRepeats'
  BY <1>1 DEF ReminderLogs, ReminderRepeats, Reminders!Active
<1>2. CASE Reminders!Fires \/ Reminders!IdleSeen \/ Reminders!Dispose
  BY <1>0, <1>1, <1>2 DEF Reminders!Fires, Reminders!IdleSeen, Reminders!Dispose, Reminders!store,
      Reminders!agent
<1>3. CASE Reminders!TurnBegins \/ Reminders!TurnEnds \/ Reminders!OthersBegin \/ Reminders!OthersEnd
  BY <1>0, <1>1, <1>3 DEF Reminders!TurnBegins, Reminders!TurnEnds, Reminders!OthersBegin,
      Reminders!OthersEnd, Reminders!store, Reminders!runtime
<1>4. CASE Reminders!Tick \/ Reminders!SetBack
  BY <1>0, <1>1, <1>4 DEF Reminders!Tick, Reminders!SetBack, Reminders!store, Reminders!agent,
      Reminders!runtime
<1>5. CASE Reminders!Writes
  BY <1>0, <1>1, <1>5 DEF Reminders!Writes, Reminders!agent, Reminders!runtime
<1>6. CASE Reminders!Crash \/ Reminders!Disposed
  <2>1. host' = "down" /\ log' = SubSeq(log, 1, stored) /\ stored' = stored /\ restarts' = restarts
    BY <1>6 DEF Reminders!Crash, Reminders!Disposed, Reminders!Leaves
  <2>2. Sound(log') /\ Len(log') = stored
    BY <1>0, <2>1, SoundPrefix, PrefixParts DEF ReminderLogs
  <2>3. ASSUME NEW o \in Occurrences PROVE Times(log', o) <= 1 + restarts
    <3>1. Times(log', o) <= Times(log, o)
      BY <1>0, <2>1, TimesPrefix
    <3>2. Times(log, o) \in Nat /\ Times(log', o) \in Nat /\ Times(log, o) <= 1 + restarts
      BY <1>0, <2>2, TimesCounted DEF ReminderRepeats, Sound
    <3> QED BY <1>0, <3>1, <3>2
  <2> QED BY <1>0, <2>1, <2>2, <2>3 DEF ReminderLogs, ReminderRepeats
<1>7. CASE Reminders!Resumes
  BY <1>0, <1>7, TimesCounted DEF Reminders!Resumes, Reminders!store, ReminderRepeats,
     ReminderLogs
<1> QED BY <1>2, <1>3, <1>4, <1>5, <1>6, <1>7 DEF OthersStep

--------------------------------------------------------------------------------
(* Who looks next *)

(* Once a run has looked for the last time, the timer or the end of a turn     *)
(* brings the next one, unless it was asked for meanwhile.                     *)
ReminderWatched ==
  host = "live" /\ ~stopping /\ ~faulted /\ ~missed /\ Reminders!Active # {}
    /\ (drive = "none" \/ (drive \in {"released", "retiring"} /\ ~again))
  => timer # Reminders!None \/ idleWait

LEMMA RequestWatches ==
  ASSUME ReminderTypes, ReminderPlaces, NEW q \in Lines, Has(q, "drive") <=> Has(queue, "drive"),
         Reminders!RequestDrive(q),
         UNCHANGED <<stopping, faulted>>
  PROVE  ReminderWatched'
<1>1. again \in BOOLEAN /\ stopping \in BOOLEAN /\ faulted \in BOOLEAN
  BY DEF ReminderTypes
<1>2. Has(q, "drive") <=> drive \notin {"none", "retiring"}
  BY DEF ReminderPlaces, Queued
<1>3. \/ Reminders!Ignored
      \/ drive # "none" /\ drive' = drive /\ again' = TRUE
      \/ drive' = "queued"
  BY <1>1, <1>2, RequestDriveMoves
<1> QED BY <1>3 DEF ReminderWatched, Reminders!Ignored

LEMMA StepWatches ==
  ASSUME Reminders!ScheduleBounds, ReminderTypes, ReminderPlaces, ReminderLogs, ReminderWatched,
         UNCHANGED setup, Reminders!Steps
  PROVE  ReminderWatched'
<1>a. Queued /\ again \in BOOLEAN /\ stopping \in BOOLEAN /\ faulted \in BOOLEAN /\ queue \in Lines
  BY DEF ReminderTypes, ReminderPlaces, Queued
<1>b. Known(log) /\ Reminders!Active \in SUBSET Reminding /\ now \in Nat /\ Reminders!MaxTime \in Nat
  BY SoundNow, ReminderBounds DEF ReminderLogs, Known, Reminders!Active
<1>c. \A t \in Nat : Reminders!Due(t) = {} /\ Reminders!Active # {} => Reminders!Delay(t) # Reminders!None
  BY <1>b, TimerArmed
<1>1. CASE Reminders!BeginDrive
  BY <1>1 DEF Reminders!BeginDrive, Reminders!InDrive, ReminderWatched, Reminders!Runnable
<1>2. CASE Reminders!PreflightFails
  BY <1>2 DEF Reminders!PreflightFails, ReminderWatched
<1>3. CASE Reminders!Waits
  BY <1>3, <1>b, <1>c DEF Reminders!Waits, Reminders!Stored, ReminderWatched, Reminders!Active,
     Reminders!Runnable
<1>4. CASE Reminders!FindsBusy
  BY <1>4 DEF Reminders!FindsBusy, ReminderWatched
<1>5. ASSUME NEW t \in 0..Reminders!MaxTime, Reminders!ClaimsInVain(t) PROVE ReminderWatched'
  BY <1>5, <1>b, Decisions, <1>c DEF Reminders!Decided, Reminders!ClaimsInVain,
     Reminders!Stored, ReminderWatched, Reminders!Active
<1>6. ASSUME NEW t \in 0..Reminders!MaxTime, Reminders!Dispatch(t)
             \/ Reminders!DispatchFails(t) PROVE ReminderWatched'
  BY <1>6 DEF Reminders!Dispatch, Reminders!DispatchFails, ReminderWatched
<1>7. CASE Reminders!Releases
  <2>1. /\ queue # <<>> /\ Head(queue) = "drive" /\ drive \in {"released", "dispatched"} /\ tool' = tool
        /\ UNCHANGED <<log, host, stopping, faulted, missed, timer, idleWait>>
    BY <1>7 DEF Reminders!Releases, Reminders!InDrive, Reminders!store
  <2>2. CASE drive = "dispatched"
    BY <1>7, <2>2 DEF Reminders!Releases, ReminderWatched
  <2>3. CASE drive # "dispatched"
    <3>1. Reminders!EndsDrive(FALSE, faulted)
      BY <1>7, <2>3 DEF Reminders!Releases
    <3>2. drive' \in {"queued", "retiring"} /\ (drive' = "retiring" /\ ~stopping /\ ~faulted => ~again)
      BY <2>1, <3>1, <1>a, EndsDriveMoves
    <3> QED BY <2>1, <2>3, <3>2 DEF ReminderWatched, Reminders!Active
  <2> QED BY <2>2, <2>3
<1>8. CASE Reminders!Confirms
  <2>1. queue # <<>> /\ Head(queue) = "drive" /\ tool' = tool /\ UNCHANGED <<stopping, faulted>>
    BY <1>8 DEF Reminders!Confirms, Reminders!InDrive
  <2>2. CASE Reminders!EndsDrive(Reminders!Runnable, faulted)
    BY <2>1, <2>2, <1>a, EndsDriveMoves DEF Reminders!Runnable, ReminderWatched
  <2>3. CASE missed' = TRUE
    BY <2>3 DEF ReminderWatched
  <2> QED BY <1>8, <2>2, <2>3 DEF Reminders!Confirms
<1>9. CASE Reminders!Retire
  BY <1>9 DEF Reminders!Retire, Reminders!store, Reminders!agent, ReminderWatched,
     Reminders!Active, Reminders!Retires, Reminders!Ignored
<1>10. ASSUME Reminders!RequestDrive(queue), UNCHANGED <<stopping, faulted>> PROVE ReminderWatched'
  BY <1>10, <1>a, RequestWatches
<1>11. ASSUME Reminders!RequestDrive(Tail(queue)), UNCHANGED <<stopping, faulted>>, queue # <<>>,
              Head(queue) = "tool"
       PROVE  ReminderWatched'
  BY <1>11, <1>a, Quits, RequestWatches
<1>12. CASE Reminders!Fires \/ Reminders!IdleSeen
  BY <1>10, <1>12 DEF Reminders!Fires, Reminders!IdleSeen
<1>13. CASE Reminders!Create \/ Reminders!Delete \/ Reminders!NoChange
  BY <1>10, <1>11, <1>13 DEF Reminders!Create, Reminders!Delete, Reminders!NoChange,
     Reminders!Preflighted, Reminders!InTool
<1>14. CASE Reminders!ToolConfirms
  BY <1>11, <1>14 DEF Reminders!ToolConfirms, Reminders!InTool
<1>15. ASSUME UNCHANGED <<log, host, drive, again, timer, idleWait, stopping, faulted,
              missed>> PROVE ReminderWatched'
  BY <1>15 DEF ReminderWatched, Reminders!Active
<1>16. CASE Reminders!TurnEnds
  BY <1>10, <1>15, <1>16 DEF Reminders!TurnEnds, Reminders!store
<1>17. CASE Reminders!ToolEnds \/ (\E what \in Reminders!Asks : Reminders!Ask(what))
              \/ Reminders!TurnBegins \/ Reminders!OthersBegin \/ Reminders!OthersEnd
  BY <1>15, <1>17 DEF Reminders!ToolEnds, Reminders!Ask, Reminders!TurnBegins, Reminders!OthersBegin,
      Reminders!OthersEnd, Reminders!store, Reminders!agent, Reminders!runtime
<1>18. CASE Reminders!SetBack \/ Reminders!Writes
  BY <1>15, <1>18 DEF Reminders!SetBack, Reminders!Writes, Reminders!store, Reminders!agent,
      Reminders!runtime
<1>19. CASE Reminders!Tick
  BY <1>19 DEF Reminders!Tick, Reminders!store, Reminders!agent, Reminders!None, ReminderTypes,
     ReminderWatched, Reminders!Active
<1>20. CASE Reminders!Dispose
  BY <1>20 DEF Reminders!Dispose, ReminderWatched
<1>21. CASE Reminders!Crash \/ Reminders!Disposed
  BY <1>21 DEF Reminders!Crash, Reminders!Disposed, Reminders!Leaves, ReminderWatched
<1>22. CASE Reminders!Resumes
  BY <1>22 DEF Reminders!Resumes, ReminderWatched
<1> QED
  BY <1>1, <1>2, <1>3, <1>4, <1>5, <1>6, <1>7, <1>8, <1>9, <1>12, <1>13, <1>14, <1>16, <1>17, <1>18,
     <1>19, <1>20, <1>21, <1>22 DEF Reminders!Steps, Reminders!Drives, Reminders!Tools

--------------------------------------------------------------------------------
(* The invariant *)

RemindersInv == ReminderTypes /\ ReminderPlaces /\ ReminderLogs /\ ReminderRepeats /\ ReminderWatched

LEMMA RemindersInit ==
  ASSUME Reminders!ScheduleBounds, Reminders!Init
  PROVE  RemindersInv
<1>1. setup \in Setups
  BY DEF Reminders!Init
<1>2. /\ Reminders!MaxTime \in Nat /\ Reminders!MaxFaults \in Nat /\ Reminders!MaxSetBacks \in Nat
           /\ Reminders!MaxRestarts \in Nat /\ Reminders!MaxTurns \in Nat
  BY <1>1 DEF Reminders!ScheduleBounds, Reminders!MaxTime, Reminders!MaxFaults, Reminders!MaxSetBacks,
      Reminders!MaxRestarts, Reminders!MaxTurns
<1>3. ReminderTypes
  <2>1. /\ 0 \in 0..Reminders!MaxTime /\ 0 \in 0..Reminders!MaxFaults
             /\ 0 \in 0..Reminders!MaxSetBacks /\ 0 \in 0..Reminders!MaxRestarts
        /\ 0 \in 0..Reminders!MaxTurns
    BY <1>2
  <2> QED BY <2>1 DEF Reminders!Init, ReminderTypes
<1>4. ReminderPlaces
  BY HasOf DEF Reminders!Init, ReminderPlaces, Queued, Lines
<1>5. ReminderLogs
  BY SoundNothing DEF Reminders!Init, ReminderLogs
<1>6. ReminderRepeats
  BY SameSizes, FS_EmptySet DEF Reminders!Init, Reminded, Times, ReminderRepeats
<1>7. ReminderWatched
  BY DEF Reminders!Init, ReminderWatched
<1> QED BY <1>3, <1>4, <1>5, <1>6, <1>7 DEF RemindersInv

LEMMA RemindersNext ==
  ASSUME Reminders!ScheduleBounds, RemindersInv, Reminders!Next
  PROVE  RemindersInv'
<1>1. UNCHANGED setup /\ Reminders!Steps
  BY DEF Reminders!Next
<1>2. Reminders!Drives \/ (Reminders!Tools \/ \E what \in Reminders!Asks : Reminders!Ask(what))
        \/ OthersStep
  BY <1>1 DEF Reminders!Steps, OthersStep
<1>3. ReminderTypes' /\ ReminderPlaces'
  BY <1>1, <1>2, DrivesKeepTypes, ToolsKeepTypes, OthersKeepTypes DEF RemindersInv
<1>4. ReminderLogs' /\ ReminderRepeats'
  BY <1>1, <1>2, DrivesKeepLogs, ToolsKeepLogs, OthersKeepLogs DEF RemindersInv
<1>5. ReminderWatched'
  BY <1>1, StepWatches DEF RemindersInv
<1> QED BY <1>3, <1>4, <1>5 DEF RemindersInv

LEMMA RemindersIdle ==
  ASSUME RemindersInv, UNCHANGED Reminders!vars
  PROVE  RemindersInv'
<1> USE DEF Reminders!vars, Reminders!clock, Reminders!store, Reminders!agent, Reminders!runtime
<1>1. ReminderTypes'
  BY SetupStands DEF RemindersInv, ReminderTypes
<1>2. ReminderPlaces' /\ ReminderWatched'
  BY DEF RemindersInv, ReminderPlaces, ReminderWatched, Queued, Has, Reminders!Active
<1>3. ReminderLogs' /\ ReminderRepeats'
  BY DEF RemindersInv, ReminderLogs, ReminderRepeats, Reminders!Active
<1> QED BY <1>1, <1>2, <1>3 DEF RemindersInv

LEMMA RemindersSafe ==
  ASSUME Reminders!ScheduleBounds, RemindersInv
  PROVE  Reminders!ScheduleSafe
<1>1. log \in Seq(Events) /\ Sound(log)
  BY SoundNow DEF RemindersInv, ReminderLogs
<1>2. Reminders!TypeOK
  BY <1>1 DEF Events, RemindersInv, ReminderTypes, Reminders!NoTool, ReminderPlaces, Queued,
     Lines, Has, ReminderLogs, Reminders!TypeOK
<1>3. Reminders!LogFolds /\ Reminders!DispatchBacked /\ Reminders!NeverEarly /\ Reminders!RateKept
  BY <1>1, SoundLogs
<1>4. Reminders!RepeatsBounded
  BY <1>1 DEF Reminders!RepeatsBounded, Events, RemindersInv, ReminderRepeats, Times, Reminded
<1>5. Reminders!SomeoneWatches
  BY DEF RemindersInv, ReminderWatched, Reminders!SomeoneWatches
<1> QED BY <1>2, <1>3, <1>4, <1>5 DEF Reminders!ScheduleSafe

--------------------------------------------------------------------------------
(* The theorem about the reminders *)

LEMMA RemindersInvariant == Reminders!ScheduleBounds => (MCSpec => []RemindersInv)
<1> SUFFICES ASSUME Reminders!ScheduleBounds PROVE MCSpec => []RemindersInv
  OBVIOUS
<1>1. MCInit => RemindersInv
  BY RemindersInit DEF MCInit
<1>2. RemindersInv /\ [MCNext]_<<part, vars, scheduleVars>> => RemindersInv'
  BY RemindersNext, RemindersIdle DEF scheduleVars, Reminders!vars, Reminders!clock,
     Reminders!store, Reminders!agent, Reminders!runtime, MCNext
<1> QED BY <1>1, <1>2, PTL DEF MCSpec

(* RemindersHold for every bound, delay and interval: the log folds and keeps  *)
(* every reminder a crash could lose, none is sent early or more often than    *)
(* once and once per restart, a fixed rate keeps to its grid, and something    *)
(* will make the runtime look at what is active.                               *)
THEOREM RemindersAlwaysHold == MCSpec => []RemindersHold
<1>1. Reminders!ScheduleBounds
  BY ScheduleInstance
<1>2. RemindersInv => RemindersHold
  BY <1>1, RemindersSafe DEF RemindersHold
<1> QED BY <1>1, <1>2, RemindersInvariant, PTL
=============================================================================
