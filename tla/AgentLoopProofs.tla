---------------------------- MODULE AgentLoopProofs ----------------------------
(***************************************************************************)
(* Proofs about an agent's turn: the driver (AgentLoop), for any messages  *)
(* and any number of steps, cancels and maintenance jobs, the recovery of  *)
(* a failed request (RequestRecovery), for any policies, budgets and       *)
(* orders of the hooks, and what a crash leaves of the turns               *)
(* (CrashRecovery), for any number of turns, steps, calls, rejected        *)
(* flushes and crashes.                                                    *)
(*                                                                         *)
(* Three questions meet in the driver, and its invariant has a part for    *)
(* each: where every message is (Types and OneFate, with the lemmas on     *)
(* sequences below), who answers a wake (Owes, Prompted), and which promise *)
(* stands for the activity under way (Waits).  Control ties the phase to   *)
(* the place where the driver stands.                                      *)
(*                                                                         *)
(* In the recovery the log is the memory: a policy's retries are numbered  *)
(* in order (Numbered), the one waited for was not started (Fresh), and    *)
(* the requests are what the log and the other hooks account for           *)
(* (Counted).                                                              *)
(*                                                                         *)
(* A crash may leave any log that begins with what is stored, so there a   *)
(* property is about every prefix (Wholly): where one fold over the log    *)
(* sees it open is where the other one does (Agree), and the transcript    *)
(* lacks the results of what is pending and nothing else (Paired).  An     *)
(* event keeps that if it comes where it may (Follows); each step of the   *)
(* driver and each event of a repair does.                                 *)
(*                                                                         *)
(* Each part keeps its invariant whatever part runs, since the others      *)
(* leave it alone.                                                         *)
(***************************************************************************)
EXTENDS MCAgent, FiniteSetTheorems, SequenceTheorems, WellFoundedInduction, TLAPS

(* The phase is the driver's exactly while the driver stands somewhere. *)
Control ==
  /\ kind = "running" <=> pc # "off"
  /\ kind = "idle" => ~wakeRequested /\ disposing # "first"
  /\ sending.busy /\ sending.afterAbort => Aborted /\ kind # "idle"
  /\ disposing = "first" => signal = "disposed" /\ ~wakeRequested

(* What is owed is still to be seen by a live driver, or latched. *)
Owes ==
  owed \intersect Pending # {} =>
    /\ kind # "idle"
    /\ kind = "running" /\ ~Aborted => pc # "exit"
    /\ kind = "maintenance" \/ Aborted => wakeRequested

(* A live driver was woken, and a latch is a wake. *)
Prompted ==
  /\ wakeRequested => woken
  /\ kind = "running" /\ ~Aborted => woken /\ ~wakeRequested

(* The promise of an activity under way is not resolved. *)
Waits == kind # "idle" => activity \notin settled

IInv == TypeOK /\ BalancedLog /\ Control /\ Owes /\ Prompted /\ Waits
--------------------------------------------------------------------------------
(* Sequences without repetitions, and what they hold *)

LEMMA ElemsEmpty == Elems(<<>>) = {} /\ Injective(<<>>)
BY DEF Elems, Injective

LEMMA ElemsOf ==
  ASSUME NEW S, NEW s \in Seq(S)
  PROVE  /\ Elems(s) \subseteq S /\ DOMAIN s = 1..Len(s) /\ Len(s) \in Nat
         /\ \A i \in 1..Len(s) : s[i] \in Elems(s)
         /\ s = <<>> <=> Elems(s) = {}
<1>1. DOMAIN s = 1..Len(s) /\ Len(s) \in Nat /\ \A i \in 1..Len(s) : s[i] \in S
  OBVIOUS
<1>2. s # <<>> => 1 \in 1..Len(s)
  OBVIOUS
<1> QED
  BY <1>1, <1>2, ElemsEmpty DEF Elems

LEMMA ElemsAppend ==
  ASSUME NEW S, NEW s \in Seq(S), NEW e \in S
  PROVE  /\ Append(s, e) \in Seq(S) /\ Append(s, e) # <<>>
         /\ Elems(Append(s, e)) = Elems(s) \union {e}
         /\ Injective(s) /\ e \notin Elems(s) => Injective(Append(s, e))
<1> DEFINE n == Len(s)  t == Append(s, e)
<1>1. /\ n \in Nat /\ t \in Seq(S) /\ t # <<>> /\ DOMAIN t = 1..(n + 1) /\ DOMAIN s = 1..n
      /\ t[n + 1] = e /\ \A i \in 1..n : t[i] = s[i]
  OBVIOUS
<1>2. \A i \in 1..(n + 1) : i \in 1..n \/ i = n + 1
  BY <1>1
<1>3. n + 1 \in 1..(n + 1) /\ 1..n \subseteq 1..(n + 1)
  BY <1>1
<1>4. Elems(t) = Elems(s) \union {e}
  BY <1>1, <1>2, <1>3 DEF Elems
<1>5. Injective(s) /\ e \notin Elems(s) => Injective(t)
  BY <1>1, <1>2 DEF Injective, Elems
<1> QED
  BY <1>1, <1>4, <1>5

LEMMA ElemsTail ==
  ASSUME NEW S, NEW s \in Seq(S), s # <<>>
  PROVE  /\ Tail(s) \in Seq(S) /\ Head(s) \in S
         /\ Elems(s) = {Head(s)} \union Elems(Tail(s))
         /\ Injective(s) => Injective(Tail(s)) /\ Head(s) \notin Elems(Tail(s))
<1> DEFINE n == Len(s)  t == Tail(s)
<1>1. /\ n \in Nat /\ n >= 1 /\ t \in Seq(S) /\ DOMAIN s = 1..n /\ DOMAIN t = 1..(n - 1)
      /\ Head(s) = s[1] /\ Head(s) \in S
      /\ \A i \in 1..(n - 1) : t[i] = s[i + 1]
  OBVIOUS
<1>2. \A i \in 1..n : i = 1 \/ (i - 1 \in 1..(n - 1) /\ (i - 1) + 1 = i)
  BY <1>1
<1>3. \A i \in 1..(n - 1) : i + 1 \in 1..n /\ i + 1 # 1
  BY <1>1
<1>4. ASSUME NEW x \in Elems(s) PROVE x \in {Head(s)} \union Elems(t)
  <2>1. PICK i \in 1..n : x = s[i]
    BY <1>1 DEF Elems
  <2>2. CASE i = 1
    BY <1>1, <2>1, <2>2
  <2>3. CASE i # 1
    <3>1. i - 1 \in 1..(n - 1) /\ (i - 1) + 1 = i
      BY <1>2, <2>3
    <3>2. t[i - 1] = x
      BY <1>1, <2>1, <3>1
    <3> QED
      BY <1>1, <3>1, <3>2 DEF Elems
  <2> QED
    BY <2>2, <2>3
<1>5. ASSUME NEW x \in {Head(s)} \union Elems(t) PROVE x \in Elems(s)
  BY <1>1, <1>3 DEF Elems
<1>6. ASSUME Injective(s) PROVE Injective(t)
  BY <1>1, <1>3, <1>6 DEF Injective
<1>7. ASSUME Injective(s), Head(s) \in Elems(t) PROVE FALSE
  BY <1>1, <1>3, <1>7 DEF Elems, Injective
<1> QED
  BY <1>1, <1>4, <1>5, <1>6, <1>7

LEMMA ElemsConcat ==
  ASSUME NEW S, NEW s \in Seq(S), NEW t \in Seq(S)
  PROVE  /\ s \o t \in Seq(S)
         /\ Elems(s \o t) = Elems(s) \union Elems(t)
         /\ Injective(s) /\ Injective(t) /\ Elems(s) \intersect Elems(t) = {} => Injective(s \o t)
<1> DEFINE m == Len(s)  n == Len(t)  u == s \o t
<1>1. /\ m \in Nat /\ n \in Nat /\ u \in Seq(S) /\ DOMAIN s = 1..m /\ DOMAIN t = 1..n
      /\ DOMAIN u = 1..(m + n)
      /\ \A i \in 1..(m + n) : u[i] = IF i <= m THEN s[i] ELSE t[i - m]
  OBVIOUS
<1>2. \A i \in 1..m : i \in 1..(m + n) /\ i <= m
  BY <1>1
<1>3. \A i \in 1..n : i + m \in 1..(m + n) /\ ~(i + m <= m) /\ (i + m) - m = i
  BY <1>1
<1>4. \A i \in 1..(m + n) : i \in 1..m \/ (~(i <= m) /\ i - m \in 1..n)
  BY <1>1
<1>5. ASSUME NEW x \in Elems(u) PROVE x \in Elems(s) \union Elems(t)
  BY <1>1, <1>2, <1>4, <1>5 DEF Elems
<1>6. ASSUME NEW x \in Elems(s) PROVE x \in Elems(u)
  BY <1>1, <1>2, <1>6 DEF Elems
<1>7. ASSUME NEW x \in Elems(t) PROVE x \in Elems(u)
  BY <1>1, <1>3, <1>7 DEF Elems
<1>8. ASSUME Injective(s), Injective(t), Elems(s) \intersect Elems(t) = {},
             NEW i \in 1..(m + n), NEW j \in 1..(m + n), u[i] = u[j]
      PROVE  i = j
  <2>1. CASE i \in 1..m /\ j \in 1..m
    BY <1>1, <1>2, <1>8, <2>1 DEF Injective
  <2>2. CASE i \notin 1..m /\ j \notin 1..m
    BY <1>1, <1>4, <1>8, <2>2 DEF Injective
  <2>3. CASE i \in 1..m /\ j \notin 1..m
    BY <1>1, <1>2, <1>4, <1>8, <2>3 DEF Elems
  <2>4. CASE i \notin 1..m /\ j \in 1..m
    BY <1>1, <1>2, <1>4, <1>8, <2>4 DEF Elems
  <2> QED
    BY <2>1, <2>2, <2>3, <2>4
<1>9. Injective(s) /\ Injective(t) /\ Elems(s) \intersect Elems(t) = {} => Injective(u)
  BY <1>1, <1>8 DEF Injective
<1> QED
  BY <1>1, <1>5, <1>6, <1>7, <1>9

(* Taking out one element keeps the order of the others. *)
LEMMA ElemsDrop ==
  ASSUME NEW S, NEW s \in Seq(S), NEW i \in DOMAIN s, Injective(s)
  PROVE  /\ Drop(s, i) \in Seq(S)
         /\ Elems(Drop(s, i)) = Elems(s) \ {s[i]}
         /\ Injective(Drop(s, i))
<1> DEFINE n == Len(s)  t == Drop(s, i)  from(k) == IF k < i THEN k ELSE k + 1
<1>1. n \in Nat /\ DOMAIN s = 1..n /\ i \in 1..n /\ n - 1 \in Nat /\ \A k \in 1..n : s[k] \in S
  OBVIOUS
<1>2. DOMAIN t = 1..(n - 1) /\ \A k \in 1..(n - 1) : t[k] = s[from(k)]
  BY DEF Drop
<1>3. \A k \in 1..(n - 1) : from(k) \in 1..n /\ from(k) # i
  BY <1>1
<1>4. \A k, l \in 1..(n - 1) : from(k) = from(l) => k = l
  BY <1>1
<1>5. \A k \in 1..n : k # i => \E l \in 1..(n - 1) : from(l) = k
  BY <1>1
<1> HIDE DEF from
<1>6. t \in [1..(n - 1) -> S]
  BY <1>1, <1>2, <1>3 DEF Drop
<1>7. t \in Seq(S)
  BY <1>1, <1>6
<1>8. Elems(t) = Elems(s) \ {s[i]}
  <2>1. \A x \in Elems(t) : x \in Elems(s) /\ x # s[i]
    BY <1>1, <1>2, <1>3 DEF Elems, Injective
  <2>2. ASSUME NEW x \in Elems(s) \ {s[i]} PROVE x \in Elems(t)
    <3>1. PICK k \in 1..n : s[k] = x /\ k # i
      BY <1>1, <2>2 DEF Elems
    <3>2. PICK l \in 1..(n - 1) : from(l) = k
      BY <1>5, <3>1
    <3> QED BY <1>2, <3>1, <3>2 DEF Elems
  <2> QED
    BY <2>1, <2>2
<1>9. Injective(t)
  BY <1>1, <1>2, <1>3, <1>4 DEF Injective
<1> QED
  BY <1>7, <1>8, <1>9

--------------------------------------------------------------------------------
(* Where the messages are *)

messageVars == <<nextTurn, nextStep, held, entered, gone>>

Lists ==
  /\ nextTurn \in Seq(Messages) /\ nextStep \in Seq(Messages) /\ held \in Seq(Messages)
  /\ entered \subseteq Messages /\ gone \subseteq Messages

(* No message turns up in two places, and only unsent ones become pending. *)
Moves ==
  /\ Lists' /\ OneFate' /\ Known \subseteq Known'
  /\ Pending' \intersect Known \subseteq Pending

LEMMA Steps ==
  ASSUME [Next]_vars
  PROVE  \/ (\E m \in Messages, target \in {"next-turn", "next-step"}, wakeup \in BOOLEAN :
               Send(m, target, wakeup))
         \/ SendWake
         \/ (\E keep \in BOOLEAN : Cancel("user", keep)) \/ Cancel("disposed", FALSE)
         \/ (\E m \in Messages : RemovePending(m))
         \/ StartMaintenance \/ EndMaintenance \/ WhenIdle \/ WhenIdleResumes
         \/ OpenTurn \/ RefuseTurn \/ PreStepEmpty \/ StoppingDone \/ Converge
         \/ (\E reason \in {"blocked", "error", "aborted"} :
               PreStepEnds(reason) \/ StepFails(reason) \/ StoppingFails(reason))
         \/ (\E keepsClaimed \in BOOLEAN : EnterStep(keepsClaimed))
         \/ (\E end \in {"null", "completed", "max-tokens"} : StepDone(end))
         \/ UNCHANGED vars
BY DEF Next, Driver

LEMMA StayMoves ==
  ASSUME Lists, OneFate, UNCHANGED messageVars
  PROVE  Moves
BY DEF Lists, OneFate, messageVars, Moves, Known, Pending

(* A batch that is not entered is gone, one that is entered is history. *)
LEMMA HeldMoves ==
  ASSUME Lists, OneFate, UNCHANGED inboxVars, held' = <<>>,
         \/ entered' = entered /\ gone' = gone \union Elems(held)
         \/ gone' = gone /\ entered' = entered \union Elems(held)
  PROVE  Moves
<1>1. Elems(held) \subseteq Messages
  BY ElemsOf DEF Lists
<1>2. /\ held' \in Seq(Messages) /\ Elems(held') = {} /\ Injective(held')
      /\ nextTurn' = nextTurn /\ nextStep' = nextStep
  BY ElemsEmpty DEF inboxVars
<1>3. Pending' = Pending
  BY <1>2 DEF Pending
<1>4. Lists'
  BY <1>1, <1>2 DEF Lists
<1>5. OneFate'
  BY <1>2, <1>3 DEF OneFate
<1>6. Known \subseteq Known'
  BY <1>3 DEF Known
<1> QED
  BY <1>3, <1>4, <1>5, <1>6 DEF Moves

(* A claim takes the whole of next-step and, at a turn's start, the first    *)
(* message of next-turn.                                                     *)
LEMMA ClaimMoves ==
  ASSUME Lists, OneFate, held = <<>>, NEW withTurn \in BOOLEAN, Claim(withTurn),
         UNCHANGED <<entered, gone>>
  PROVE  Moves
<1> DEFINE first == IF withTurn THEN FirstOf(nextTurn) ELSE <<>>
<1>0. /\ nextTurn \in Seq(Messages) /\ nextStep \in Seq(Messages)
      /\ Injective(nextTurn) /\ Injective(nextStep) /\ Elems(nextTurn) \intersect Elems(nextStep) = {}
  BY DEF Lists, OneFate
<1>b. \/ nextTurn # <<>> /\ first = <<Head(nextTurn)>> /\ nextTurn' = Tail(nextTurn)
      \/ first = <<>> /\ nextTurn' = nextTurn
  BY DEF Claim, FirstOf
<1>2. /\ held' = nextStep \o first /\ nextStep' = <<>>
  BY DEF Claim, Unclaimed
<1> HIDE DEF first
<1>1. /\ first \in Seq(Messages) /\ Injective(first) /\ nextTurn' \in Seq(Messages)
      /\ Injective(nextTurn') /\ Elems(nextTurn) = Elems(first) \union Elems(nextTurn')
      /\ Elems(first) \intersect Elems(nextTurn') = {}
  <2>1. CASE nextTurn # <<>> /\ first = <<Head(nextTurn)>> /\ nextTurn' = Tail(nextTurn)
    <3>1. Elems(first) = {Head(nextTurn)} /\ Injective(first)
      BY <2>1 DEF Elems, Injective
    <3>2. first \in Seq(Messages)
      BY <1>0, <2>1, ElemsTail
    <3>3. /\ Tail(nextTurn) \in Seq(Messages) /\ Injective(Tail(nextTurn))
          /\ Elems(nextTurn) = {Head(nextTurn)} \union Elems(Tail(nextTurn))
          /\ Head(nextTurn) \notin Elems(Tail(nextTurn))
      BY <1>0, <2>1, ElemsTail
    <3> QED
      BY <2>1, <3>1, <3>2, <3>3
  <2>2. CASE first = <<>> /\ nextTurn' = nextTurn
    BY <1>0, <2>2, ElemsEmpty
  <2> QED
    BY <2>1, <2>2, <1>b
<1>3. /\ held' \in Seq(Messages) /\ Elems(held') = Elems(nextStep) \union Elems(first)
      /\ Injective(held')
  BY <1>0, <1>1, <1>2, ElemsConcat
<1>4. Pending' = Elems(nextTurn') /\ Elems(nextStep') = {} /\ Injective(nextStep')
  BY <1>2, ElemsEmpty DEF Pending
<1>5. Pending' \union Elems(held') = Pending /\ Pending' \intersect Elems(held') = {}
  BY <1>0, <1>1, <1>3, <1>4 DEF Pending
<1>6. Lists'
  BY <1>1, <1>2, <1>3 DEF Lists
<1>7. OneFate'
  BY <1>1, <1>3, <1>4, <1>5 DEF OneFate
<1>8. Known \subseteq Known'
  BY <1>5, ElemsEmpty DEF Known
<1> QED
  BY <1>5, <1>6, <1>7, <1>8 DEF Moves

LEMMA MessagesStep == TypeOK /\ [Next]_vars => Moves
<1> SUFFICES ASSUME TypeOK, [Next]_vars PROVE Moves
  OBVIOUS
<1>0. Lists /\ OneFate /\ (held # <<>> => pc = "preStep")
  BY DEF TypeOK, Types, Lists
<1>a. Pending \subseteq Messages
  BY <1>0, ElemsOf DEF Lists, Pending
<1>1. ASSUME NEW m \in Messages, NEW target \in {"next-turn", "next-step"},
             NEW wakeup \in BOOLEAN, Send(m, target, wakeup)
      PROVE  Moves
  <2>1. m \notin Known /\ UNCHANGED <<held, entered, gone>>
    BY <1>1 DEF Send, Unsent, driverVars, logVars
  <2>2. CASE nextTurn' = Append(nextTurn, m) /\ nextStep' = nextStep
    BY <1>0, <2>1, <2>2, ElemsAppend DEF Lists, OneFate, Known, Pending, Moves
  <2>3. CASE nextStep' = Append(nextStep, m) /\ nextTurn' = nextTurn
    BY <1>0, <2>1, <2>3, ElemsAppend DEF Lists, OneFate, Known, Pending, Moves
  <2> QED
    BY <1>1, <2>2, <2>3 DEF Send
<1>2. ASSUME NEW cause, NEW keep \in BOOLEAN, Cancel(cause, keep) PROVE Moves
  <2>1. held' = held /\ entered' = entered
    BY <1>2 DEF Cancel, driverVars
  <2>2. CASE keep
    BY <1>0, <1>2, <2>1, <2>2, StayMoves DEF Cancel, inboxVars, messageVars
  <2>3. CASE ~keep
    BY <1>0, <1>2, <2>1, <2>3, ElemsEmpty, <1>a DEF Cancel, Pending, Lists, OneFate, Moves,
       Known
  <2> QED
    BY <2>2, <2>3
<1>3. ASSUME NEW m \in Messages, RemovePending(m) PROVE Moves
  <2>1. UNCHANGED <<held, entered>> /\ gone' = gone \union {m}
    BY <1>3 DEF RemovePending, driverVars
  <2>2. ASSUME NEW i \in DOMAIN nextTurn, nextTurn[i] = m, nextTurn' = Drop(nextTurn, i),
               nextStep' = nextStep
        PROVE  Moves
    <3>1. /\ nextTurn' \in Seq(Messages) /\ Elems(nextTurn') = Elems(nextTurn) \ {m}
          /\ Injective(nextTurn') /\ m \in Elems(nextTurn)
      BY <1>0, <2>2, ElemsDrop DEF Lists, OneFate, Elems
    <3>2. Pending' = Pending \ {m} /\ m \in Pending
      BY <1>0, <2>2, <3>1 DEF Pending, OneFate
    <3>3. OneFate'
      BY <1>0, <2>1, <2>2, <3>1, <3>2 DEF OneFate
    <3> QED
      BY <1>0, <2>1, <2>2, <3>1, <3>2, <3>3 DEF Moves, Lists, Known
  <2>3. ASSUME NEW i \in DOMAIN nextStep, nextStep[i] = m, nextStep' = Drop(nextStep, i),
               nextTurn' = nextTurn
        PROVE  Moves
    <3>1. /\ nextStep' \in Seq(Messages) /\ Elems(nextStep') = Elems(nextStep) \ {m}
          /\ Injective(nextStep') /\ m \in Elems(nextStep)
      BY <1>0, <2>3, ElemsDrop DEF Lists, OneFate, Elems
    <3>2. Pending' = Pending \ {m} /\ m \in Pending
      BY <1>0, <2>3, <3>1 DEF Pending, OneFate
    <3>3. OneFate'
      BY <1>0, <2>1, <2>3, <3>1, <3>2 DEF OneFate
    <3> QED
      BY <1>0, <2>1, <2>3, <3>1, <3>2, <3>3 DEF Moves, Lists, Known
  <2> QED
    BY <1>3, <2>2, <2>3 DEF RemovePending
<1>4. ASSUME OpenTurn PROVE Moves
  BY <1>0, <1>4, ClaimMoves DEF OpenTurn, Running, logVars
<1>5. ASSUME NEW end \in {"null", "completed", "max-tokens"}, StepDone(end) PROVE Moves
  BY <1>0, <1>5, StayMoves, ClaimMoves DEF StepDone, Running, messageVars, inboxVars
<1>6. ASSUME StoppingDone PROVE Moves
  BY <1>0, <1>6, StayMoves, ClaimMoves DEF StoppingDone, Running, CloseTurn, messageVars,
     inboxVars
<1>7. ASSUME NEW reason, PreStepEnds(reason) \/ StepFails(reason) \/ StoppingFails(reason)
      PROVE  Moves
  BY <1>0, <1>7, HeldMoves DEF PreStepEnds, StepFails, StoppingFails, LeaveTurn
<1>8. ASSUME PreStepEmpty PROVE Moves
  BY <1>0, <1>8, HeldMoves DEF PreStepEmpty, LeaveTurn, CloseTurn
<1>9. ASSUME NEW keepsClaimed \in BOOLEAN, EnterStep(keepsClaimed) PROVE Moves
  BY <1>0, <1>9, HeldMoves DEF EnterStep
<1>10. ASSUME \/ SendWake \/ StartMaintenance \/ EndMaintenance \/ WhenIdle \/ WhenIdleResumes
              \/ RefuseTurn \/ Converge \/ UNCHANGED vars
       PROVE  Moves
  BY <1>0, <1>10, StayMoves DEF SendWake, StartMaintenance, EndMaintenance, ConvergeToIdle,
     WhenIdle, WhenIdleResumes, RefuseTurn, Converge, vars, messageVars, inboxVars, driverVars,
     logVars
<1> QED
  BY <1>1, <1>2, <1>3, <1>4, <1>5, <1>6, <1>7, <1>8, <1>9, <1>10, Steps

--------------------------------------------------------------------------------
(* Types *)

(* The types of everything but the lists of messages. *)
Scalars ==
  /\ kind \in {"idle", "maintenance", "running"}
  /\ signal \in {"live", "user", "disposed"}
  /\ pc \in {"off", "again", "preStep", "model", "stopping", "exit"}
  /\ turnEnds \in Endings \union {"null"}
  /\ sending \in [busy : BOOLEAN, msgs : SUBSET Messages, wake : BOOLEAN, afterAbort : BOOLEAN]
  /\ turn \in Nat /\ ended \in Nat /\ step \in 0..MaxSteps
  /\ activity \in Nat /\ waiter \in Nat /\ settled \subseteq 0..activity
  /\ cancels \in 0..MaxCancels /\ jobs \in 0..MaxMaintenance
  /\ wakeRequested \in BOOLEAN /\ openStep \in BOOLEAN /\ woken \in BOOLEAN
  /\ disposing \in {"no", "first", "after"}

LEMMA InitIInv == Init => IInv
<1> SUFFICES ASSUME Init PROVE IInv
  OBVIOUS
<1> USE DEF Init
<1>1. Elems(nextTurn) = {} /\ Elems(nextStep) = {} /\ Elems(held) = {} /\ Pending = {}
  BY ElemsEmpty DEF Pending
<1>2. Types
  <2>1. /\ nextTurn \in Seq(Messages) /\ nextStep \in Seq(Messages) /\ held \in Seq(Messages)
        /\ held = <<>> /\ entered = {} /\ gone = {} /\ owed = {}
    OBVIOUS
  <2>2. /\ kind = "idle" /\ signal = "live" /\ pc = "off" /\ turnEnds = "null" /\ disposing = "no"
        /\ wakeRequested = FALSE /\ openStep = FALSE /\ woken = FALSE
    OBVIOUS
  <2>3. /\ turn = 0 /\ ended = 0 /\ step = 0 /\ activity = 0 /\ waiter = 0 /\ settled = {0}
        /\ cancels = 0 /\ jobs = 0
    BY DEF NoCall
  <2>4. /\ step \in 0..MaxSteps /\ cancels \in 0..MaxCancels /\ jobs \in 0..MaxMaintenance
        /\ turn \in Nat /\ ended \in Nat /\ activity \in Nat /\ waiter \in Nat
        /\ settled \subseteq 0..activity
    BY <2>3, BoundsAssumption
  <2>5. sending \in [busy : BOOLEAN, msgs : SUBSET Messages, wake : BOOLEAN, afterAbort : BOOLEAN]
    BY DEF NoSend
  <2>6. Scalars
    BY <2>2, <2>4, <2>5 DEF Scalars, Endings
  <2>7. Lists
    BY <2>1 DEF Lists
  <2> QED
    BY <2>1, <2>6, <2>7 DEF Types, Lists, Scalars
<1>3. OneFate
  BY <1>1, ElemsEmpty DEF OneFate
<1>4. BalancedLog /\ Control /\ Prompted /\ Waits
  BY DEF BalancedLog, Control, Prompted, Waits, NoSend
<1>5. Owes
  BY <1>1 DEF Owes
<1> QED
  BY <1>2, <1>3, <1>4, <1>5 DEF IInv, TypeOK

(* A promise is named by the activity it stands for. *)
LEMMA StartScalars ==
  ASSUME Scalars, StartDriver, settled' \subseteq 0..activity, woken' \in BOOLEAN,
         disposing' \in {"no", "first", "after"}, turnEnds' \in Endings \union {"null"},
         sending' \in [busy : BOOLEAN, msgs : SUBSET Messages, wake : BOOLEAN, afterAbort : BOOLEAN],
         UNCHANGED <<waiter, ended, openStep, cancels, jobs>>
  PROVE  Scalars'
<1>1. /\ kind' = "running" /\ signal' = "live" /\ wakeRequested' = FALSE /\ step' = 0
      /\ pc' = "again" /\ activity' = activity + 1 /\ turn' = turn
  BY DEF StartDriver
<1>2. activity' \in Nat /\ settled' \subseteq 0..activity' /\ step' \in 0..MaxSteps
  BY <1>1, BoundsAssumption DEF Scalars
<1> QED
  BY <1>1, <1>2 DEF Scalars

LEMMA ConvergeScalars ==
  ASSUME Scalars, ConvergeToIdle, UNCHANGED turnEnds \/ turnEnds' = "null"
  PROVE  Scalars'
<1>1. settled' \subseteq 0..activity
  BY DEF Scalars, ConvergeToIdle, Settles
<1>2. CASE Replays
  BY <1>1, <1>2, StartScalars DEF ConvergeToIdle, logVars, boundVars, Scalars, Endings
<1>3. CASE ~Replays
  <2>1. UNCHANGED <<turn, waiter, ended, openStep, cancels, jobs, sending, activity>>
    BY <1>3 DEF ConvergeToIdle, logVars, boundVars
  <2>2. /\ kind' = "idle" /\ signal' = "live" /\ wakeRequested' = FALSE /\ step' = 0
        /\ pc' = "off" /\ woken' = FALSE /\ disposing' = "no"
    BY <1>3 DEF ConvergeToIdle
  <2>3. step' \in 0..MaxSteps
    BY <2>2, BoundsAssumption
  <2> QED
    BY <1>1, <2>1, <2>2, <2>3 DEF Scalars, Endings
<1> QED
  BY <1>2, <1>3

LEMMA LeaveScalars ==
  ASSUME Scalars, NEW reason \in Endings, LeaveTurn(reason), openStep' \in BOOLEAN,
         UNCHANGED <<phaseVars, sending, activity, settled, waiter, cancels, jobs, woken, disposing>>
  PROVE  Scalars'
<1>1. turnEnds' \in Endings /\ ended' \in Nat /\ pc' = "exit"
  BY DEF LeaveTurn, Scalars
<1> QED
  BY <1>1 DEF Scalars, phaseVars

LEMMA CloseScalars ==
  ASSUME Scalars, CloseTurn,
         UNCHANGED <<sending, activity, settled, waiter, openStep, cancels, jobs, woken, disposing>>
  PROVE  Scalars'
<1>1. ended' \in Nat /\ UNCHANGED <<kind, turn, turnEnds>>
  BY DEF CloseTurn, Scalars
<1>2. \/ pc' = "again" /\ signal' = "live" /\ wakeRequested' = FALSE /\ step' = 0
      \/ pc' = "exit" /\ UNCHANGED <<signal, wakeRequested, step>>
  BY DEF CloseTurn
<1>3. step' \in 0..MaxSteps
  BY <1>2, BoundsAssumption DEF Scalars
<1>4. wakeRequested' \in BOOLEAN
  BY <1>2 DEF Scalars
<1> QED
  BY <1>1, <1>2, <1>3, <1>4 DEF Scalars

LEMMA ScalarsStep == Scalars /\ [Next]_vars => Scalars'
<1> SUFFICES ASSUME Scalars, [Next]_vars PROVE Scalars'
  OBVIOUS
<1> USE BoundsAssumption
<1>1. ASSUME NEW m \in Messages, NEW target \in {"next-turn", "next-step"},
             NEW wakeup \in BOOLEAN, Send(m, target, wakeup)
      PROVE  Scalars'
  BY <1>1 DEF Send, Aborted, Scalars, phaseVars, driverVars, idleVars, logVars, boundVars,
     ghostVars
<1>2. ASSUME SendWake PROVE Scalars'
  <2>1. sending' \in [busy : BOOLEAN, msgs : SUBSET Messages, wake : BOOLEAN, afterAbort : BOOLEAN]
    BY <1>2 DEF SendWake, NoSend
  <2>2. woken' \in BOOLEAN
    BY <1>2 DEF SendWake, Scalars
  <2>3. UNCHANGED <<turnEnds, settled, waiter, ended, openStep, cancels, jobs, disposing>>
    BY <1>2 DEF SendWake, logVars, boundVars
  <2>4. CASE UNCHANGED <<phaseVars, pc, activity>>
    BY <2>1, <2>2, <2>3, <2>4 DEF Scalars, phaseVars
  <2>5. CASE StartDriver
    BY <2>1, <2>2, <2>3, <2>5, StartScalars DEF Scalars
  <2>6. CASE /\ wakeRequested' = (wakeRequested \/ Latches(sending.afterAbort))
             /\ UNCHANGED <<kind, signal, turn, step, pc, activity>>
    BY <2>1, <2>2, <2>3, <2>6 DEF Latches, Scalars
  <2> QED
    BY <1>2, <2>4, <2>5, <2>6 DEF SendWake
<1>3. ASSUME NEW cause \in {"user", "disposed"}, NEW keep \in BOOLEAN, Cancel(cause, keep)
      PROVE  Scalars'
  <2>1. UNCHANGED <<kind, turn, step, driverVars, sending, idleVars, ended, openStep, jobs>>
        /\ cancels' \in 0..MaxCancels
    BY <1>3 DEF Cancel, Scalars
  <2>2. signal' \in {"live", "user", "disposed"} /\ disposing' \in {"no", "first", "after"}
    BY <1>3 DEF Cancel, Scalars, ghostVars
  <2>3. wakeRequested' \in BOOLEAN /\ woken' \in BOOLEAN
    BY <1>3 DEF Cancel, Scalars, ghostVars
  <2> QED
    BY <2>1, <2>2, <2>3 DEF Scalars, driverVars, idleVars
<1>4. ASSUME NEW m \in Messages, RemovePending(m) PROVE Scalars'
  BY <1>4 DEF RemovePending, Scalars, phaseVars, driverVars, idleVars, boundVars, ghostVars
<1>5. ASSUME StartMaintenance PROVE Scalars'
  <2>1. activity' \in Nat /\ settled' \subseteq 0..activity'
    BY <1>5 DEF StartMaintenance, Scalars
  <2>2. /\ kind' = "maintenance" /\ signal' = "live" /\ wakeRequested' = FALSE
        /\ jobs' \in 0..MaxMaintenance
    BY <1>5 DEF StartMaintenance, Scalars
  <2>3. UNCHANGED <<turn, step, pc, turnEnds, sending, waiter, ended, openStep, cancels, woken,
                    disposing>>
    BY <1>5 DEF StartMaintenance, driverVars, logVars, ghostVars
  <2> QED
    BY <2>1, <2>2, <2>3 DEF Scalars
<1>6. ASSUME EndMaintenance \/ Converge PROVE Scalars'
  BY <1>6, ConvergeScalars DEF EndMaintenance, Converge
<1>7. ASSUME WhenIdle \/ WhenIdleResumes PROVE Scalars'
  <2>1. waiter' \in Nat
    BY <1>7 DEF WhenIdle, WhenIdleResumes, Awaiting, Returned, Scalars
  <2>2. UNCHANGED <<phaseVars, driverVars, sending, activity, settled, logVars, boundVars, ghostVars>>
    BY <1>7 DEF WhenIdle, WhenIdleResumes
  <2> QED
    BY <2>1, <2>2 DEF Scalars, phaseVars, driverVars, logVars, boundVars, ghostVars
<1>8. ASSUME OpenTurn PROVE Scalars'
  BY <1>8 DEF OpenTurn, Claim, Scalars, idleVars, logVars, boundVars, ghostVars
<1>9. ASSUME RefuseTurn PROVE Scalars'
  BY <1>9 DEF RefuseTurn, Scalars, phaseVars, idleVars, logVars, boundVars, ghostVars
<1>10. ASSUME PreStepEmpty PROVE Scalars'
  BY <1>10, CloseScalars, LeaveScalars DEF PreStepEmpty, idleVars, boundVars, Scalars, Endings
<1>11. ASSUME NEW reason \in {"blocked", "error", "aborted"},
              PreStepEnds(reason) \/ StepFails(reason) \/ StoppingFails(reason)
       PROVE  Scalars'
  BY <1>11, LeaveScalars DEF PreStepEnds, StepFails, StoppingFails, ClosesStep, Scalars,
     idleVars, boundVars, Endings
<1>12. ASSUME NEW keepsClaimed \in BOOLEAN, EnterStep(keepsClaimed) PROVE Scalars'
  BY <1>12 DEF EnterStep, Scalars, idleVars, boundVars, ghostVars
<1>13. ASSUME NEW end \in {"null", "completed", "max-tokens"}, StepDone(end) PROVE Scalars'
  <2>1. turnEnds' \in Endings \union {"null"}
    BY <1>13 DEF StepDone, AfterStep, Endings, Scalars
  <2>2. pc' \in {"off", "again", "preStep", "model", "stopping", "exit"} /\ openStep' \in BOOLEAN
    BY <1>13 DEF StepDone, Claim
  <2>3. UNCHANGED <<kind, signal, sending, turn, ended, step, activity, waiter, settled, cancels,
                    jobs, wakeRequested, woken, disposing>>
    BY <1>13 DEF StepDone, phaseVars, idleVars, boundVars, ghostVars
  <2> QED
    BY <2>1, <2>2, <2>3 DEF Scalars
<1>14. ASSUME StoppingDone PROVE Scalars'
  BY <1>14, CloseScalars DEF StoppingDone, idleVars, boundVars, Claim, Scalars, phaseVars
<1>15. CASE UNCHANGED vars
  BY <1>15 DEF vars, Scalars, phaseVars, driverVars, idleVars, logVars, boundVars, ghostVars
<1> QED
  BY <1>1, <1>2, <1>3, <1>4, <1>5, <1>6, <1>7, <1>8, <1>9, <1>10, <1>11, <1>12, <1>13, <1>14, <1>15,
     Steps

LEMMA TypeStep == TypeOK /\ Control /\ [Next]_vars => TypeOK'
<1> SUFFICES ASSUME TypeOK, Control, [Next]_vars PROVE TypeOK'
  OBVIOUS
<1>1. Lists' /\ OneFate' /\ Known \subseteq Known'
  BY MessagesStep DEF Moves
<1>2. Scalars'
  BY ScalarsStep DEF TypeOK, Types, Scalars
<1>3. owed' \subseteq owed \union Pending
  BY Steps DEF Send, SendWake, Cancel, RemovePending, StartMaintenance, EndMaintenance, ConvergeToIdle,
               WhenIdle, WhenIdleResumes, OpenTurn, RefuseTurn, PreStepEmpty, StoppingDone, Converge,
               PreStepEnds, StepFails, StoppingFails, EnterStep, StepDone, LeaveTurn, CloseTurn,
               ghostVars, vars
<1>4. owed' \subseteq Known'
  BY <1>1, <1>3 DEF TypeOK, Types, Known
<1>5. held' # <<>> => pc' = "preStep"
  <2>1. held # <<>> => pc = "preStep"
    BY DEF TypeOK, Types
  <2>2. kind # "running" => pc = "off"
    BY DEF Control
  <2>3. CASE SendWake \/ EndMaintenance
    BY <2>1, <2>2, <2>3 DEF SendWake, StartDriver, EndMaintenance, ConvergeToIdle, phaseVars
  <2>4. CASE \/ (\E m \in Messages, target \in {"next-turn", "next-step"}, wakeup \in BOOLEAN :
                   Send(m, target, wakeup))
             \/ (\E keep \in BOOLEAN : Cancel("user", keep)) \/ Cancel("disposed", FALSE)
             \/ (\E m \in Messages : RemovePending(m))
             \/ StartMaintenance \/ WhenIdle \/ WhenIdleResumes \/ UNCHANGED vars
    BY <2>1, <2>4 DEF Send, Cancel, RemovePending, StartMaintenance, WhenIdle, WhenIdleResumes,
                      driverVars, vars
  <2>5. CASE OpenTurn \/ RefuseTurn \/ PreStepEmpty \/ StoppingDone \/ Converge
    BY <2>1, <2>5 DEF OpenTurn, Claim, RefuseTurn, PreStepEmpty, StoppingDone, Converge, LeaveTurn,
                      CloseTurn, Running
  <2>6. CASE \/ (\E reason \in {"blocked", "error", "aborted"} :
                   PreStepEnds(reason) \/ StepFails(reason) \/ StoppingFails(reason))
             \/ (\E keepsClaimed \in BOOLEAN : EnterStep(keepsClaimed))
             \/ (\E end \in {"null", "completed", "max-tokens"} : StepDone(end))
    BY <2>1, <2>6 DEF PreStepEnds, StepFails, StoppingFails, LeaveTurn, EnterStep, StepDone, Claim,
                      Running
  <2> QED
    BY <2>3, <2>4, <2>5, <2>6, Steps
<1> QED
  BY <1>1, <1>2, <1>4, <1>5 DEF TypeOK, Types, Lists, Scalars

--------------------------------------------------------------------------------
(* The phase and the place of the driver *)

(* What a finally leaves of the phase. *)
LEMMA Converges ==
  ASSUME ConvergeToIdle
  PROVE  /\ signal' = "live" /\ wakeRequested' = FALSE
         /\ settled' = settled \union {activity}
         /\ UNCHANGED <<turn, sending, ended, openStep, waiter, owed, inboxVars>>
         /\ \/ /\ Replays /\ kind' = "running" /\ pc' = "again" /\ activity' = activity + 1
               /\ UNCHANGED <<woken, disposing>>
            \/ /\ ~Replays /\ kind' = "idle" /\ pc' = "off" /\ disposing' = "no"
               /\ UNCHANGED activity
BY DEF ConvergeToIdle, StartDriver, Settles, logVars

(* The driver's own steps between two convergences keep the phase, or give   *)
(* it a fresh signal at the end of a turn that goes on.                      *)
DriverStep ==
  \/ OpenTurn \/ RefuseTurn \/ PreStepEmpty \/ StoppingDone
  \/ (\E reason \in {"blocked", "error", "aborted"} :
        PreStepEnds(reason) \/ StepFails(reason) \/ StoppingFails(reason))
  \/ (\E keepsClaimed \in BOOLEAN : EnterStep(keepsClaimed))
  \/ (\E end \in {"null", "completed", "max-tokens"} : StepDone(end))

LEMMA DriverKeeps ==
  ASSUME DriverStep
  PROVE  /\ pc \in {"again", "preStep", "model", "stopping"} /\ ~sending.busy
         /\ pc' \in {"again", "preStep", "model", "stopping", "exit"}
         /\ UNCHANGED <<kind, sending, idleVars, woken, disposing>>
         /\ \/ UNCHANGED <<signal, wakeRequested>>
            \/ ~Aborted /\ signal' = "live" /\ wakeRequested' = FALSE /\ pc' = "again"
BY DEF DriverStep, OpenTurn, RefuseTurn, PreStepEmpty, StoppingDone, PreStepEnds, StepFails,
       StoppingFails, EnterStep, StepDone, Claim, LeaveTurn, CloseTurn, Running, phaseVars, ghostVars

(* Steps that leave the phase, the driver and the promises alone. *)
LEMMA OtherSteps ==
  ASSUME [Next]_vars
  PROVE  \/ (\E m \in Messages, target \in {"next-turn", "next-step"}, wakeup \in BOOLEAN :
               Send(m, target, wakeup))
         \/ SendWake
         \/ (\E cause \in {"user", "disposed"}, keep \in BOOLEAN :
               Cancel(cause, keep) /\ (cause = "disposed" => ~keep))
         \/ StartMaintenance \/ EndMaintenance \/ Converge \/ DriverStep \/ WhenIdleResumes
         \/ (\E m \in Messages : RemovePending(m)) \/ WhenIdle \/ UNCHANGED vars
BY Steps DEF DriverStep

LEMMA ControlStep == Scalars /\ Control /\ Prompted /\ [Next]_vars => Control'
<1> SUFFICES ASSUME Scalars, Control, Prompted, [Next]_vars PROVE Control'
  OBVIOUS
<1>1. ASSUME NEW m \in Messages, NEW target \in {"next-turn", "next-step"},
             NEW wakeup \in BOOLEAN, Send(m, target, wakeup)
      PROVE  Control'
  BY <1>1 DEF Send, Control, Aborted, phaseVars, driverVars, ghostVars
<1>2. ASSUME SendWake PROVE Control'
  <2>1. sending'.busy = FALSE /\ disposing' = disposing
    BY <1>2 DEF SendWake, NoSend
  <2>2. CASE UNCHANGED <<phaseVars, pc, activity>>
    BY <2>1, <2>2 DEF Control, phaseVars
  <2>3. CASE kind = "idle" /\ StartDriver
    BY <2>1, <2>3 DEF StartDriver, Control
  <2>4. CASE /\ kind # "idle"
             /\ wakeRequested' = (wakeRequested \/ Latches(sending.afterAbort))
             /\ UNCHANGED <<kind, signal, turn, step, pc, activity>>
    BY <2>1, <2>4 DEF Control, Latches
  <2> QED
    BY <1>2, <2>2, <2>3, <2>4 DEF SendWake
<1>3. ASSUME NEW cause \in {"user", "disposed"}, NEW keep \in BOOLEAN, Cancel(cause, keep),
             cause = "disposed" => ~keep
      PROVE  Control'
  BY <1>3 DEF Cancel, Control, Prompted, Aborted, Scalars, driverVars, ghostVars
<1>4. ASSUME StartMaintenance PROVE Control'
  BY <1>4 DEF StartMaintenance, Control, driverVars, ghostVars
<1>5. ASSUME EndMaintenance \/ Converge PROVE Control'
  BY <1>5, Converges DEF EndMaintenance, Converge, Running, Control, Replays
<1>6. ASSUME DriverStep PROVE Control'
  <2>1. kind = "running" /\ kind' = "running" /\ pc' # "off" /\ ~sending'.busy /\ disposing' = disposing
    BY <1>6, DriverKeeps DEF Control
  <2>2. disposing = "first" => signal' = "disposed" /\ ~wakeRequested'
    BY <1>6, DriverKeeps DEF Control, Aborted
  <2> QED
    BY <2>1, <2>2 DEF Control
<1>7. ASSUME WhenIdle \/ WhenIdleResumes \/ (\E m \in Messages : RemovePending(m)) \/ UNCHANGED vars
      PROVE  Control'
  BY <1>7 DEF WhenIdle, WhenIdleResumes, RemovePending, driverVars, ghostVars, vars, Control,
     Aborted, phaseVars
<1> QED
  BY <1>1, <1>2, <1>3, <1>4, <1>5, <1>6, <1>7, OtherSteps

LEMMA BalancedStep == Scalars /\ Control /\ BalancedLog /\ [Next]_vars => BalancedLog'
<1> SUFFICES ASSUME Scalars, Control, BalancedLog, [Next]_vars PROVE BalancedLog'
  OBVIOUS
<1>1. ASSUME SendWake PROVE BalancedLog'
  BY <1>1 DEF SendWake, StartDriver, Control, BalancedLog, phaseVars, logVars
<1>2. ASSUME EndMaintenance \/ Converge PROVE BalancedLog'
  BY <1>2, Converges DEF EndMaintenance, Converge, Running, Control, BalancedLog
<1>3. ASSUME OpenTurn \/ RefuseTurn PROVE BalancedLog'
  BY <1>3 DEF OpenTurn, RefuseTurn, Claim, Running, BalancedLog, Scalars, phaseVars, logVars
<1>4. ASSUME PreStepEmpty \/ StoppingDone PROVE BalancedLog'
  BY <1>4 DEF PreStepEmpty, StoppingDone, CloseTurn, LeaveTurn, Claim, Running, BalancedLog, Scalars,
              phaseVars
<1>5. ASSUME NEW reason, PreStepEnds(reason) \/ StepFails(reason) \/ StoppingFails(reason)
      PROVE  BalancedLog'
  BY <1>5 DEF PreStepEnds, StepFails, StoppingFails, ClosesStep, LeaveTurn, Running, BalancedLog,
              Scalars, phaseVars
<1>6. ASSUME NEW keepsClaimed \in BOOLEAN, EnterStep(keepsClaimed) PROVE BalancedLog'
  BY <1>6 DEF EnterStep, Running, BalancedLog, Scalars
<1>7. ASSUME NEW end \in {"null", "completed", "max-tokens"}, StepDone(end) PROVE BalancedLog'
  BY <1>7 DEF StepDone, Claim, Running, BalancedLog, Scalars, phaseVars
<1>8. ASSUME \/ (\E m \in Messages, target \in {"next-turn", "next-step"}, wakeup \in BOOLEAN :
                   Send(m, target, wakeup))
             \/ (\E cause \in {"user", "disposed"}, keep \in BOOLEAN : Cancel(cause, keep))
             \/ StartMaintenance \/ WhenIdle \/ WhenIdleResumes
             \/ (\E m \in Messages : RemovePending(m)) \/ UNCHANGED vars
      PROVE  BalancedLog'
  BY <1>8 DEF Send, Cancel, StartMaintenance, WhenIdle, WhenIdleResumes, RemovePending,
     phaseVars, driverVars, logVars, vars, BalancedLog
<1> QED
  BY <1>1, <1>2, <1>3, <1>4, <1>5, <1>6, <1>7, <1>8, Steps

--------------------------------------------------------------------------------
(* Who answers a wake *)

(* Every latched wake is one that counts. *)
LEMMA LatchAnswers ==
  ASSUME Scalars, Control, sending.busy, Latches(sending.afterAbort)
  PROVE  Answerable /\ (kind = "maintenance" \/ Aborted)
<1>1. signal # "disposed" /\ (kind = "maintenance" \/ sending.afterAbort)
  BY DEF Latches
<1>2. CASE kind = "maintenance"
  BY <1>1, <1>2 DEF Answerable
<1>3. CASE sending.afterAbort /\ kind # "maintenance"
  BY <1>1, <1>3 DEF Control, Scalars, Answerable
<1> QED
  BY <1>1, <1>2, <1>3

LEMMA PromptedStep == Scalars /\ Control /\ Prompted /\ [Next]_vars => Prompted'
<1> SUFFICES ASSUME Scalars, Control, Prompted, [Next]_vars PROVE Prompted'
  OBVIOUS
<1>1. ASSUME SendWake PROVE Prompted'
  <2>1. woken => woken'
    BY <1>1 DEF SendWake
  <2>2. CASE UNCHANGED <<phaseVars, pc, activity>>
    BY <2>1, <2>2 DEF Prompted, Aborted, phaseVars
  <2>3. CASE sending.wake /\ kind = "idle" /\ StartDriver
    BY <1>1, <2>3 DEF SendWake, Answerable, StartDriver, Prompted
  <2>4. CASE /\ sending.wake /\ kind # "idle"
             /\ wakeRequested' = (wakeRequested \/ Latches(sending.afterAbort))
             /\ UNCHANGED <<kind, signal, turn, step, pc, activity>>
    BY <1>1, <2>1, <2>4, LatchAnswers DEF SendWake, Aborted, Prompted
  <2> QED
    BY <1>1, <2>2, <2>3, <2>4 DEF SendWake
<1>2. ASSUME NEW cause \in {"user", "disposed"}, NEW keep \in BOOLEAN, Cancel(cause, keep)
      PROVE  Prompted'
  BY <1>2 DEF Cancel, ghostVars, Prompted, Aborted
<1>3. ASSUME EndMaintenance \/ Converge PROVE Prompted'
  BY <1>3, Converges DEF EndMaintenance, Converge, Prompted, Replays
<1>4. ASSUME DriverStep PROVE Prompted'
  <2>1. kind = "running" /\ kind' = kind /\ woken' = woken
    BY <1>4, DriverKeeps DEF Control
  <2>2. CASE UNCHANGED <<signal, wakeRequested>>
    BY <2>1, <2>2 DEF Prompted, Aborted
  <2>3. CASE ~Aborted /\ wakeRequested' = FALSE
    BY <2>1, <2>3 DEF Prompted
  <2> QED
    BY <1>4, <2>2, <2>3, DriverKeeps
<1>5. ASSUME StartMaintenance PROVE Prompted'
  BY <1>5 DEF StartMaintenance, Prompted
<1>6. ASSUME \/ (\E m \in Messages, target \in {"next-turn", "next-step"}, wakeup \in BOOLEAN :
                   Send(m, target, wakeup))
             \/ WhenIdle \/ WhenIdleResumes
             \/ (\E m \in Messages : RemovePending(m)) \/ UNCHANGED vars
      PROVE  Prompted'
  BY <1>6 DEF Send, WhenIdle, WhenIdleResumes, RemovePending, ghostVars, vars, Prompted,
     Aborted, phaseVars
<1> QED
  BY <1>1, <1>2, <1>3, <1>4, <1>5, <1>6, OtherSteps

(* A step that takes on no debt leaves what it owes among what was owed. *)
LEMMA NoNewDebt ==
  ASSUME TypeOK, Moves, owed' \subseteq owed, owed' \intersect Pending' # {}
  PROVE  owed \intersect Pending # {}
BY DEF Moves, TypeOK, Types

(* How the driver's steps treat what is owed. *)
LEMMA DriverDebt ==
  ASSUME DriverStep
  PROVE  /\ owed' \subseteq owed
         /\ \/ UNCHANGED <<signal, wakeRequested>> /\ pc' # "exit"
            \/ signal' = "live" /\ pc' # "exit"
            \/ UNCHANGED <<signal, wakeRequested>> /\ Aborted
            \/ UNCHANGED inboxVars /\ ~HasPending
            \/ owed' = {}
<1>1. CASE OpenTurn
  BY <1>1 DEF OpenTurn, Claim, ghostVars
<1>2. CASE RefuseTurn
  BY <1>2 DEF RefuseTurn, phaseVars, ghostVars
<1>3. CASE PreStepEmpty \/ StoppingDone
  BY <1>3 DEF PreStepEmpty, StoppingDone, CloseTurn, LeaveTurn, Claim, phaseVars
<1>4. CASE \E reason \in {"blocked", "error", "aborted"} :
             PreStepEnds(reason) \/ StepFails(reason) \/ StoppingFails(reason)
  BY <1>4 DEF PreStepEnds, StepFails, StoppingFails, LeaveTurn, phaseVars
<1>5. CASE \E keepsClaimed \in BOOLEAN : EnterStep(keepsClaimed)
  BY <1>5 DEF EnterStep, ghostVars
<1>6. CASE \E end \in {"null", "completed", "max-tokens"} : StepDone(end)
  BY <1>6 DEF StepDone, Claim, phaseVars, ghostVars
<1> QED
  BY <1>1, <1>2, <1>3, <1>4, <1>5, <1>6 DEF DriverStep

LEMMA OwesStep == TypeOK /\ Control /\ Owes /\ Moves /\ [Next]_vars => Owes'
<1> SUFFICES ASSUME TypeOK, Control, Owes, Moves, [Next]_vars, owed' \intersect Pending' # {}
             PROVE  /\ kind' # "idle"
                    /\ kind' = "running" /\ ~Aborted' => pc' # "exit"
                    /\ kind' = "maintenance" \/ Aborted' => wakeRequested'
  BY DEF Owes
<1>0. Scalars
  BY DEF TypeOK, Types, Scalars
<1> DEFINE Goal == /\ kind' # "idle"
                   /\ kind' = "running" /\ ~Aborted' => pc' # "exit"
                   /\ kind' = "maintenance" \/ Aborted' => wakeRequested'
<1> SUFFICES Goal
  OBVIOUS
<1>1. ASSUME SendWake PROVE Goal
  <2>1. CASE sending.wake /\ kind = "idle"
    BY <1>1, <2>1 DEF SendWake, StartDriver, Aborted
  <2>2. CASE sending.wake /\ kind # "idle" /\ Answerable
    BY <1>1, <2>2 DEF SendWake, phaseVars, Answerable, Latches, Aborted
  <2>3. CASE ~sending.wake \/ (kind # "idle" /\ ~Answerable)
    <3>a. owed' = owed
      BY <1>1, <2>3 DEF SendWake
    <3>b. \/ UNCHANGED <<phaseVars, pc, activity>>
          \/ /\ wakeRequested' = (wakeRequested \/ Latches(sending.afterAbort))
             /\ UNCHANGED <<kind, signal, turn, step, pc, activity>>
      BY <1>1, <2>3 DEF SendWake
    <3>c. UNCHANGED <<kind, signal, pc>>
      BY <3>b DEF phaseVars
    <3>d. wakeRequested => wakeRequested'
      BY <3>b, Zenon DEF phaseVars
    <3>1. UNCHANGED <<kind, signal, pc, owed>> /\ (wakeRequested => wakeRequested')
      BY <3>a, <3>c, <3>d
    <3>2. owed \intersect Pending # {}
      BY <3>1, NoNewDebt
    <3> QED
      BY <3>1, <3>2 DEF Owes, Aborted
  <2> QED
    BY <2>1, <2>2, <2>3
<1>2. ASSUME NEW cause \in {"user", "disposed"}, NEW keep \in BOOLEAN, Cancel(cause, keep)
      PROVE  Goal
  BY <1>0, <1>2, NoNewDebt DEF Cancel, ghostVars, Owes, Scalars, Aborted
<1>3. ASSUME StartMaintenance PROVE Goal
  BY <1>3, NoNewDebt DEF StartMaintenance, ghostVars, Owes
<1>4. ASSUME EndMaintenance \/ Converge PROVE Goal
  BY <1>4, Converges, NoNewDebt, ElemsEmpty DEF EndMaintenance, Converge, HasPending, Pending,
     Running, Control, Owes, Replays, Aborted
<1>5. ASSUME DriverStep PROVE Goal
  BY <1>5, DriverKeeps, DriverDebt, NoNewDebt, ElemsEmpty DEF Control, Owes, Aborted,
     HasPending, Pending, inboxVars
<1>6. ASSUME \/ (\E m \in Messages, target \in {"next-turn", "next-step"}, wakeup \in BOOLEAN :
                   Send(m, target, wakeup))
             \/ WhenIdle \/ WhenIdleResumes
             \/ (\E m \in Messages : RemovePending(m)) \/ UNCHANGED vars
      PROVE  Goal
  BY <1>6, NoNewDebt DEF Send, WhenIdle, WhenIdleResumes, RemovePending, driverVars, ghostVars,
     vars, Owes, Aborted, phaseVars
<1> QED
  BY <1>1, <1>2, <1>3, <1>4, <1>5, <1>6, OtherSteps

--------------------------------------------------------------------------------
(* The promise of the activity under way *)

LEMMA WaitsStep == Scalars /\ Waits /\ [Next]_vars => Waits'
<1> SUFFICES ASSUME Scalars, Waits, [Next]_vars PROVE Waits'
  OBVIOUS
<1>0. activity + 1 \notin settled \union {activity}
  BY DEF Scalars
<1>1. ASSUME SendWake PROVE Waits'
  BY <1>0, <1>1 DEF SendWake, StartDriver, phaseVars, Waits
<1>2. ASSUME StartMaintenance PROVE Waits'
  BY <1>0, <1>2 DEF StartMaintenance, Waits
<1>3. ASSUME EndMaintenance \/ Converge PROVE Waits'
  BY <1>0, <1>3, Converges DEF EndMaintenance, Converge, Waits
<1>4. ASSUME DriverStep PROVE Waits'
  BY <1>4, DriverKeeps DEF Waits, idleVars
<1>5. ASSUME \/ (\E m \in Messages, target \in {"next-turn", "next-step"}, wakeup \in BOOLEAN :
                   Send(m, target, wakeup))
             \/ (\E cause \in {"user", "disposed"}, keep \in BOOLEAN : Cancel(cause, keep))
             \/ WhenIdle \/ WhenIdleResumes
             \/ (\E m \in Messages : RemovePending(m)) \/ UNCHANGED vars
      PROVE  Waits'
  BY <1>5 DEF Send, Cancel, WhenIdle, WhenIdleResumes, RemovePending, phaseVars, idleVars, vars,
     Waits
<1> QED
  BY <1>1, <1>2, <1>3, <1>4, <1>5, OtherSteps

--------------------------------------------------------------------------------
(* The theorems *)

LEMMA InvariantIInv == IInv /\ [Next]_vars => IInv'
<1> SUFFICES ASSUME IInv, [Next]_vars PROVE IInv'
  OBVIOUS
<1>1. TypeOK /\ BalancedLog /\ Control /\ Owes /\ Prompted /\ Waits
  BY DEF IInv
<1>2. Scalars
  BY <1>1 DEF TypeOK, Types, Scalars
<1>3. Moves
  BY <1>1, MessagesStep
<1>4. TypeOK'
  BY <1>1, TypeStep
<1>5. BalancedLog'
  BY <1>1, <1>2, BalancedStep
<1>6. Control'
  BY <1>1, <1>2, ControlStep
<1>7. Owes'
  BY <1>1, <1>3, OwesStep
<1>8. Prompted'
  BY <1>1, <1>2, PromptedStep
<1>9. Waits'
  BY <1>1, <1>2, WaitsStep
<1> QED
  BY <1>4, <1>5, <1>6, <1>7, <1>8, <1>9 DEF IInv

(* Whatever senders, cancels, maintenance and the driver do, every message   *)
(* has one fate, the log is balanced, and an idle agent owes no turn to a    *)
(* pending wake (agent.ts: send, wakeDriver, cancel, kick, turn).            *)
THEOREM AgentIsSafe == Spec => []AgentSafe
<1>1. IInv => AgentSafe
  BY DEF IInv, AgentSafe, NothingOwedWhenIdle, Owes
<1> QED
  BY <1>1, InitIInv, InvariantIInv, PTL DEF Spec

LEMMA TurnsArePrompted == IInv /\ [Next]_vars => (turn' # turn => woken /\ disposing # "first")
<1> SUFFICES ASSUME IInv, [Next]_vars, turn' # turn PROVE woken /\ disposing # "first"
  OBVIOUS
<1>1. OpenTurn
  <2>1. CASE SendWake \/ EndMaintenance \/ Converge
    BY <2>1 DEF SendWake, EndMaintenance, Converge, ConvergeToIdle, StartDriver, phaseVars
  <2>2. CASE PreStepEmpty \/ StoppingDone \/ RefuseTurn
    BY <2>2 DEF PreStepEmpty, StoppingDone, RefuseTurn, CloseTurn, phaseVars
  <2>3. CASE \/ (\E reason \in {"blocked", "error", "aborted"} :
                   PreStepEnds(reason) \/ StepFails(reason) \/ StoppingFails(reason))
             \/ (\E keepsClaimed \in BOOLEAN : EnterStep(keepsClaimed))
             \/ (\E end \in {"null", "completed", "max-tokens"} : StepDone(end))
    BY <2>3 DEF PreStepEnds, StepFails, StoppingFails, EnterStep, StepDone, phaseVars
  <2>4. CASE \/ (\E m \in Messages, target \in {"next-turn", "next-step"}, wakeup \in BOOLEAN :
                   Send(m, target, wakeup))
             \/ (\E keep \in BOOLEAN : Cancel("user", keep)) \/ Cancel("disposed", FALSE)
             \/ (\E m \in Messages : RemovePending(m))
             \/ StartMaintenance \/ WhenIdle \/ WhenIdleResumes \/ UNCHANGED vars
    BY <2>4 DEF Send, Cancel, RemovePending, StartMaintenance, WhenIdle, WhenIdleResumes, phaseVars, vars
  <2> QED
    BY <2>1, <2>2, <2>3, <2>4, Steps
<1>2. pc = "again" /\ ~Aborted
  BY <1>1 DEF OpenTurn, Running
<1>3. kind = "running"
  BY <1>2 DEF IInv, Control
<1>4. disposing = "first" => Aborted
  BY DEF IInv, Control, Aborted
<1> QED
  BY <1>2, <1>3, <1>4 DEF IInv, Prompted

LEMMA WaitsEndIdle ==
  IInv /\ [Next]_vars => (waiter # Returned /\ waiter' = Returned => kind = "idle")
<1> SUFFICES ASSUME IInv, [Next]_vars, waiter # Returned, waiter' = Returned PROVE kind = "idle"
  OBVIOUS
<1>0. activity \in Nat
  BY DEF IInv, TypeOK, Types
<1>1. WhenIdleResumes
  <2>1. CASE WhenIdle
    BY <1>0, <2>1 DEF WhenIdle, Awaiting, Returned
  <2>2. CASE ~WhenIdle /\ ~WhenIdleResumes
    BY <2>2, Converges, DriverKeeps, OtherSteps DEF EndMaintenance, Converge, idleVars, Send,
       SendWake, Cancel, StartMaintenance, RemovePending, vars
  <2> QED
    BY <2>1, <2>2
<1>2. PICK promise \in settled : waiter = Awaiting(promise)
  BY <1>1 DEF WhenIdleResumes
<1>3. waiter = Awaiting(activity)
  BY <1>0, <1>1 DEF WhenIdleResumes, Awaiting, Returned, Replaced
<1>4. promise \in Nat
  BY <1>0 DEF IInv, TypeOK, Types
<1>5. promise = activity
  BY <1>0, <1>2, <1>3, <1>4 DEF Awaiting
<1> QED
  BY <1>5 DEF IInv, Waits

LEMMA CeilingSticks == [Next]_vars => (turnEnds = "max-tokens" => turnEnds' # "completed")
<1> SUFFICES ASSUME [Next]_vars, turnEnds = "max-tokens" PROVE turnEnds' # "completed"
  OBVIOUS
<1>1. CASE OpenTurn \/ RefuseTurn \/ PreStepEmpty \/ StoppingDone \/ EndMaintenance \/ Converge
  BY <1>1 DEF OpenTurn, RefuseTurn, PreStepEmpty, StoppingDone, EndMaintenance, Converge, CloseTurn,
              LeaveTurn
<1>2. CASE \/ (\E reason \in {"blocked", "error", "aborted"} :
                 PreStepEnds(reason) \/ StepFails(reason) \/ StoppingFails(reason))
           \/ (\E keepsClaimed \in BOOLEAN : EnterStep(keepsClaimed))
           \/ (\E end \in {"null", "completed", "max-tokens"} : StepDone(end))
  BY <1>2 DEF PreStepEnds, StepFails, StoppingFails, LeaveTurn, EnterStep, StepDone, AfterStep
<1>3. CASE \/ (\E m \in Messages, target \in {"next-turn", "next-step"}, wakeup \in BOOLEAN :
                 Send(m, target, wakeup))
           \/ SendWake
           \/ (\E keep \in BOOLEAN : Cancel("user", keep)) \/ Cancel("disposed", FALSE)
           \/ (\E m \in Messages : RemovePending(m))
           \/ StartMaintenance \/ WhenIdle \/ WhenIdleResumes \/ UNCHANGED vars
  BY <1>3 DEF Send, SendWake, Cancel, RemovePending, StartMaintenance, WhenIdle, WhenIdleResumes,
              driverVars, vars
<1> QED
  BY <1>1, <1>2, <1>3, Steps

(* No step opens a turn nobody asked for or into a disposal, ends a whenIdle *)
(* while the agent is busy, or reports a truncated turn as completed         *)
(* (agent.ts: wakeDriver, cancel, kick, whenIdle, turn).                     *)
THEOREM AgentStepsHold == Spec => AgentSteps
<1> DEFINE Steady == /\ turn' # turn => woken
                     /\ turn' # turn => disposing # "first"
                     /\ waiter # Returned /\ waiter' = Returned => kind = "idle"
                     /\ turnEnds = "max-tokens" => turnEnds' # "completed"
<1>1. IInv /\ [Next]_vars => Steady
  BY TurnsArePrompted, WaitsEndIdle, CeilingSticks
<1>2. Spec => []IInv
  BY InitIInv, InvariantIInv, PTL DEF Spec
<1>3. Steady => /\ (turn' # turn => woken)
                /\ (turn' # turn => disposing # "first")
                /\ (waiter # Returned /\ waiter' = Returned => kind = "idle")
                /\ (turnEnds = "max-tokens" => turnEnds' # "completed")
  OBVIOUS
<1> HIDE DEF Steady
<1> QED
  BY <1>1, <1>2, <1>3, PTL DEF Spec, AgentSteps, NoUnpromptedTurn, NoTurnAfterDisposal,
                               WhenIdleMeansIdle, MaxTokensSticky

--------------------------------------------------------------------------------
(* The recovery of a failed request *)

(* Names of the standard modules as the instance sees them. *)
LEMMA SameSizes ==
  /\ \A S : Recovery!Cardinality(S) = Cardinality(S)
  /\ \A S : Recovery!IsFiniteSet(S) <=> IsFiniteSet(S)
BY DEF Recovery!Cardinality, Cardinality, Recovery!IsFiniteSet, IsFiniteSet

Record == [kind : {"retry", "started"}, step : 1..RequestSteps, policy : Routes, retry : Nat,
          by : Nat]

(* What is in the log, no entry of a step to come among it. *)
Logged ==
  /\ log \in Seq(Record) /\ setup \in Setups
  /\ \A i \in DOMAIN log : log[i].step <= rStep /\ log[i].policy \in setup.routes

(* The retries of a step under one policy are numbered in their order. *)
InOrder(s, p) ==
  LET R == Recovery!Of(s, p, "retry") IN
  /\ {log[i].retry : i \in R} = 1..Recovery!Cardinality(R)
  /\ \A i, j \in R : i < j => log[i].retry < log[j].retry
  /\ p \notin AlwaysMode => Recovery!Cardinality(R) <= Retries[p]

Numbered == \A s \in 1..RequestSteps, p \in Routes : InOrder(s, p)

(* Which policies wait for the hooks behind them, and for a delay. *)
Delayed ==
  /\ awaiting => policy \in AlwaysMode
  /\ rPc = "backoff" => ~awaiting /\ policy \in setup.routes
  /\ rPc = "compacting" => overflow < Compactions

(* The retry that is waited for is the last one, and was not started. *)
Fresh ==
  rPc = "backoff" =>
    /\ Recovery!Of(rStep, policy, "retry") # {}
    /\ \A i \in Recovery!Of(rStep, policy, "started") :
         log[i].retry < Recovery!Cardinality(Recovery!Of(rStep, policy, "retry"))

(* The requests of the step: all but the one that failed were asked for by a *)
(* retry that was started or by another hook.                                *)
Counted ==
  /\ attempts <= 1 + Recovery!Started + others
  /\ rPc = "request" => attempts = Recovery!Started + others
  /\ rPc \in {"hook", "backoff", "compacting"} => attempts = 1 + Recovery!Started + others
  /\ rPc = "unwind" /\ awaiting /\ decision # "retry" => attempts = 1 + Recovery!Started + others
  /\ rPc \in {"unwind", "decided"} /\ decision = "retry" => attempts = Recovery!Started + others

Lives == instance \in Recovery!Instances

(* Without other hooks, the retries that are not in the log are the overflow *)
(* recovery's.                                                               *)
OverflowAlone ==
  Recovery!Budgeted =>
    /\ others <= overflow
    /\ chain \in Seq({"retry", "compact"})
    /\ rPc = "compacting" => chain # <<>>

RecoveryInv ==
  Recovery!TypeOK /\ Lives /\ Logged /\ Numbered /\ Recovery!StartsPaired /\ Delayed
    /\ Fresh /\ Counted /\ OverflowAlone

--------------------------------------------------------------------------------
(* Entries of the log *)

LEMMA OfFinite ==
  ASSUME Logged, NEW s, NEW p, NEW k
  PROVE  /\ Recovery!IsFiniteSet(Recovery!Of(s, p, k))
              /\ Recovery!Of(s, p, k) \subseteq 1..Len(log)
         /\ Recovery!Cardinality(Recovery!Of(s, p, k)) \in Nat
<1>1. DOMAIN log = 1..Len(log) /\ Len(log) \in Nat
  BY DEF Logged
<1>2. Recovery!Of(s, p, k) \subseteq 1..Len(log)
  BY <1>1 DEF Recovery!Of
<1>3. Recovery!IsFiniteSet(1..Len(log))
  BY <1>1, SameSizes, FS_Interval
<1> QED
  BY <1>2, <1>3, SameSizes, FS_Subset, FS_CardinalityType

LEMMA StartedFinite ==
  ASSUME Logged
  PROVE  Recovery!Started \in Nat
<1>1. DOMAIN log = 1..Len(log) /\ Len(log) \in Nat
  BY DEF Logged
<1>2. Recovery!IsFiniteSet(1..Len(log))
  BY <1>1, SameSizes, FS_Interval
<1>3. {i \in DOMAIN log : log[i].step = rStep /\ log[i].kind = "started"} \subseteq 1..Len(log)
  BY <1>1
<1> QED
  BY <1>2, <1>3, SameSizes, FS_Subset, FS_CardinalityType DEF Recovery!Started

(* The last number is the number of retries. *)
LEMMA PriorCounts ==
  ASSUME Logged, Numbered, rStep \in 1..RequestSteps, NEW p \in Routes
  PROVE  Recovery!Prior(p) = Recovery!Cardinality(Recovery!Of(rStep, p, "retry"))
<1> DEFINE R == Recovery!Of(rStep, p, "retry")
           mine == {i \in DOMAIN log : log[i].kind = "retry" /\ log[i].step = rStep
                                       /\ log[i].policy = p}
<1>1. mine = R
  BY DEF Recovery!Of
<1>2. InOrder(rStep, p)
  BY DEF Numbered
<1>3. CASE R = {}
  BY <1>1, <1>3, SameSizes, FS_EmptySet DEF Recovery!Prior
<1>4. CASE R # {}
  <2>1. Recovery!Cardinality(R) \in Nat /\ R \subseteq 1..Len(log) /\ Recovery!IsFiniteSet(R)
    BY OfFinite
  <2>2. Recovery!Cardinality(R) # 0
    BY <1>4, <2>1, SameSizes, FS_EmptySet
  <2>3. Recovery!Cardinality(R) \in {log[i].retry : i \in R}
    BY <1>2, <2>1, <2>2 DEF InOrder
  <2>4. PICK i \in R : log[i].retry = Recovery!Cardinality(R)
    BY <2>3
  <2>5. \A j \in R : log[j].retry \in 1..Recovery!Cardinality(R)
    BY <1>2 DEF InOrder
  <2>6. ASSUME NEW j \in R PROVE i >= j
    BY <1>2, <2>1, <2>4, <2>5 DEF InOrder
  <2>7. \E m \in R : \A j \in R : m >= j
    BY <2>6
  <2>8. PICK m : m = Recovery!Max(R)
    OBVIOUS
  <2>9. m \in R /\ \A j \in R : m >= j
    BY <2>7, <2>8 DEF Recovery!Max
  <2>10. m = i
    BY <2>1, <2>6, <2>9
  <2> QED
    BY <1>1, <1>4, <2>4, <2>8, <2>10 DEF Recovery!Prior
<1> QED
  BY <1>3, <1>4

(* What an entry at the end of the log changes. *)
LEMMA Grows ==
  ASSUME Logged, NEW e \in Record, log' = Append(log, e)
  PROVE  /\ Len(log') = Len(log) + 1 /\ DOMAIN log = 1..Len(log) /\ Len(log) \in Nat
         /\ DOMAIN log' = 1..(Len(log) + 1) /\ log' \in Seq(Record)
         /\ \A i \in DOMAIN log : log'[i] = log[i]
         /\ log'[Len(log) + 1] = e
         /\ Len(log) + 1 \notin DOMAIN log
BY DEF Logged

LEMMA OfGrows ==
  ASSUME Logged, NEW e \in Record, log' = Append(log, e), NEW s, NEW p, NEW k
  PROVE  Recovery!Of(s, p, k)' = IF e.step = s /\ e.policy = p /\ e.kind = k
                          THEN Recovery!Of(s, p, k) \cup {Len(log) + 1}
                          ELSE Recovery!Of(s, p, k)
BY Grows DEF Recovery!Of

(* A retry takes the next number, a start none. *)
LEMMA NumbersGrow ==
  ASSUME Logged, Numbered, NEW e \in Record, log' = Append(log, e),
         e.kind = "retry" =>
           LET n == Recovery!Cardinality(Recovery!Of(e.step, e.policy, "retry")) IN
           e.retry = n + 1 /\ (e.policy \notin AlwaysMode => n < Retries[e.policy]),
         Recovery!RequestRecoveryAssumption
  PROVE  Numbered'
<1> SUFFICES ASSUME NEW s \in 1..RequestSteps, NEW p \in Routes
             PROVE  InOrder(s, p)'
  BY DEF Numbered
<1> DEFINE R == Recovery!Of(s, p, "retry")
           n == Recovery!Cardinality(R)
           m == Len(log) + 1
<1>1. InOrder(s, p)
  BY DEF Numbered
<1>2. n \in Nat /\ R \subseteq 1..Len(log) /\ Recovery!IsFiniteSet(R) /\ Len(log) \in Nat
  BY OfFinite DEF Logged
<1>3. /\ \A i \in DOMAIN log : log'[i] = log[i]
      /\ log'[m] = e /\ DOMAIN log = 1..Len(log)
  BY Grows
<1>4. CASE e.step = s /\ e.policy = p /\ e.kind = "retry"
  <2>1. Recovery!Of(s, p, "retry")' = R \cup {m}
    BY <1>4, OfGrows
  <2>2. m \notin R
    BY <1>2
  <2>3. Recovery!Cardinality(R \cup {m}) = n + 1
    BY <1>2, <2>2, SameSizes, FS_AddElement
  <2>4. e.retry = n + 1 /\ (p \notin AlwaysMode => n < Retries[p])
    BY <1>4
  <2>5. \A i \in R : log'[i] = log[i] /\ i < m
    BY <1>2, <1>3
  <2>6. {log'[i].retry : i \in R \cup {m}} = {log[i].retry : i \in R} \cup {n + 1}
    BY <1>3, <2>4, <2>5
  <2>7. {log[i].retry : i \in R} = 1..n
    BY <1>1 DEF InOrder
  <2>8. {log'[i].retry : i \in R \cup {m}} = 1..(n + 1)
    <3>1. (1..n) \cup {n + 1} = 1..(n + 1)
      BY <1>2
    <3> QED
      BY <2>6, <2>7, <3>1, Zenon
  <2>9. ASSUME NEW i \in R \cup {m}, NEW j \in R \cup {m}, i < j
        PROVE  log'[i].retry < log'[j].retry
    <3>1. i \in R
      BY <1>2, <2>5, <2>9
    <3>2. log[i].retry \in 1..n
      BY <2>7, <3>1
    <3>3. CASE j = m
      BY <1>2, <1>3, <2>4, <2>5, <3>1, <3>2, <3>3
    <3>4. CASE j \in R
      BY <1>1, <2>5, <2>9, <3>1, <3>4 DEF InOrder
    <3> QED
      BY <3>3, <3>4
  <2>10. p \notin AlwaysMode => n + 1 <= Retries[p]
    BY <1>2, <2>4 DEF Recovery!RequestRecoveryAssumption
  <2> QED
    BY <2>1, <2>3, <2>8, <2>9, <2>10 DEF InOrder
<1>5. CASE ~(e.step = s /\ e.policy = p /\ e.kind = "retry")
  BY <1>1, <1>2, <1>3, <1>5, OfGrows DEF InOrder
<1> QED
  BY <1>4, <1>5

(* A start names a retry that was not started. *)
LEMMA PairsGrow ==
  ASSUME Logged, Numbered, Recovery!StartsPaired, NEW e \in Record, log' = Append(log, e),
         e.kind = "started" =>
           /\ e.retry \in 1..Recovery!Cardinality(Recovery!Of(e.step, e.policy, "retry"))
           /\ \A i \in Recovery!Of(e.step, e.policy, "started") : log[i].retry < e.retry
  PROVE  Recovery!StartsPaired'
<1> SUFFICES ASSUME NEW s \in 1..RequestSteps, NEW p \in Routes,
                    NEW i \in Recovery!Of(s, p, "started")'
             PROVE  /\ \E j \in Recovery!Of(s, p, "retry")' :
                         j < i /\ log'[j].retry = log'[i].retry
                    /\ \A j \in Recovery!Of(s, p, "started")' :
                         log'[j].retry = log'[i].retry => i = j
  BY DEF Recovery!StartsPaired
<1> DEFINE R == Recovery!Of(s, p, "retry")
           S == Recovery!Of(s, p, "started")
           m == Len(log) + 1
<1>1. /\ \A j \in DOMAIN log : log'[j] = log[j]
      /\ log'[m] = e /\ DOMAIN log = 1..Len(log) /\ Len(log) \in Nat /\ m \notin DOMAIN log
  BY Grows
<1>2. R \subseteq 1..Len(log) /\ S \subseteq 1..Len(log)
  BY OfFinite
<1>3. R \subseteq Recovery!Of(s, p, "retry")'
  BY OfGrows
<1>4. \A j \in S : /\ \E l \in R : l < j /\ log[l].retry = log[j].retry
                   /\ \A l \in S : log[l].retry = log[j].retry => j = l
  BY DEF Recovery!StartsPaired
<1>5. CASE e.step = s /\ e.policy = p /\ e.kind = "started"
  <2>1. Recovery!Of(s, p, "started")' = S \cup {m}
    BY <1>5, OfGrows
  <2>2. e.retry \in 1..Recovery!Cardinality(R) /\ \A j \in S : log[j].retry < e.retry
    BY <1>5
  <2>3. InOrder(s, p)
    BY DEF Numbered
  <2>4. \A j \in S : log[j].retry \in Nat
    <3>1. \A j \in DOMAIN log : log[j] \in Record
      BY DEF Logged
    <3> QED
      BY <1>1, <1>2, <3>1 DEF Record
  <2>5. CASE i = m
    BY <1>1, <1>2, <1>3, <2>1, <2>2, <2>3, <2>4, <2>5 DEF InOrder
  <2>6. CASE i \in S
    BY <1>1, <1>2, <1>3, <1>4, <2>1, <2>2, <2>4, <2>6
  <2> QED
    BY <2>1, <2>5, <2>6
<1>6. CASE ~(e.step = s /\ e.policy = p /\ e.kind = "started")
  BY <1>1, <1>2, <1>3, <1>4, <1>6, OfGrows
<1> QED
  BY <1>5, <1>6

(* The starts of the step are counted as they are written. *)
LEMMA StartsGrow ==
  ASSUME Logged, NEW e \in Record, log' = Append(log, e), rStep' = rStep, e.step = rStep
  PROVE  Recovery!Started' = IF e.kind = "started" THEN Recovery!Started + 1 ELSE Recovery!Started
<1> DEFINE S == {i \in DOMAIN log : log[i].step = rStep /\ log[i].kind = "started"}
           m == Len(log) + 1
<1>1. /\ DOMAIN log' = 1..(Len(log) + 1)
      /\ \A j \in DOMAIN log : log'[j] = log[j]
      /\ log'[m] = e /\ DOMAIN log = 1..Len(log) /\ Len(log) \in Nat /\ m \notin DOMAIN log
  BY Grows
<1>2. Recovery!IsFiniteSet(S)
  <2>1. Recovery!IsFiniteSet(1..Len(log))
    BY <1>1, SameSizes, FS_Interval
  <2> QED
    BY <1>1, <2>1, SameSizes, FS_Subset
<1>3. {i \in DOMAIN log' : log'[i].step = rStep' /\ log'[i].kind = "started"}
        = IF e.kind = "started" THEN S \cup {m} ELSE S
  BY <1>1
<1>4. Recovery!Cardinality(S \cup {m}) = Recovery!Cardinality(S) + 1
  BY <1>1, <1>2, SameSizes, FS_AddElement
<1> QED
  BY <1>3, <1>4 DEF Recovery!Started

--------------------------------------------------------------------------------
(* Steps *)

(* A step may write the next retry under the policy at hand... *)
Plans ==
  /\ Recovery!Event("retry", Recovery!Prior(policy) + 1) \in Record
  /\ log' = Append(log, Recovery!Event("retry", Recovery!Prior(policy) + 1))
  /\ policy \notin AlwaysMode => Recovery!Prior(policy) < Retries[policy]
  /\ attempts = 1 + Recovery!Started + others
  /\ ~Recovery!Fused(hook) /\ rPc' = "backoff" /\ awaiting' = FALSE /\ overflow' = overflow
  /\ policy \in setup.routes /\ UNCHANGED <<rStep, policy, attempts, others, setup>>

(* ...or the start of the retry it waited for... *)
Starts ==
  /\ Recovery!Event("started", Recovery!Prior(policy)) \in Record
  /\ log' = Append(log, Recovery!Event("started", Recovery!Prior(policy)))
  /\ ~Recovery!Fused(hook) /\ rPc = "backoff" /\ rPc' = "unwind" /\ decision' = "retry"
  /\ policy \in setup.routes
       /\ UNCHANGED <<rStep, policy, attempts, others, awaiting, overflow, setup>>

(* ...and nothing otherwise, in this step or on the way to the next. *)
Stays == log' = log /\ rStep' = rStep /\ setup' = setup
Passes == log' = log /\ rStep' = rStep + 1 /\ rStep < RequestSteps /\ setup' = setup

LEMMA SetupType ==
  ASSUME Recovery!RequestRecoveryAssumption, setup \in Setups
  PROVE  /\ setup.routes \subseteq Routes /\ setup.order \in Seq(Recovery!Hooks)
         /\ Attempts[setup] \in Nat /\ NoPolicy \notin setup.routes
         /\ \E i \in DOMAIN setup.order : setup.order[i] = "retry"
BY DEF Recovery!RequestRecoveryAssumption

LEMMA PriorType ==
  ASSUME RecoveryInv, NEW p \in Routes
  PROVE  Recovery!Prior(p) = Recovery!Cardinality(Recovery!Of(rStep, p, "retry"))
           /\ Recovery!Prior(p) \in Nat
BY PriorCounts, OfFinite DEF RecoveryInv, Recovery!TypeOK

LEMMA SchedulesPlans ==
  ASSUME RecoveryInv, Recovery!RequestRecoveryAssumption, Recovery!Schedules, policy \in Routes,
         policy \notin AlwaysMode => ~Recovery!Exhausted(policy, Recovery!Prior(policy)),
           policy \in setup.routes,
         attempts = 1 + Recovery!Started + others, awaiting' = FALSE,
         UNCHANGED <<rStep, policy, attempts, others, overflow, setup>>
  PROVE  Plans \/ (Stays /\ rPc' = "unwind" /\ decision' = "none")
<1>1. Recovery!Prior(policy) \in Nat
  BY PriorType
<1>2. CASE Recovery!Fused(hook)
  BY <1>2 DEF Recovery!Schedules, Stays, Recovery!Goes
<1>3. CASE ~Recovery!Fused(hook)
  <2>1. log' = log \o <<Recovery!Event("retry", Recovery!Prior(policy) + 1)>> /\ rPc' = "backoff"
    BY <1>3 DEF Recovery!Schedules, Recovery!Events
  <2>2. hook \in Nat
    BY DEF RecoveryInv, Recovery!TypeOK, Recovery!Instances, Recovery!RequestRecoveryAssumption
  <2>3. Recovery!Event("retry", Recovery!Prior(policy) + 1) \in Record
    BY <1>1, <2>2 DEF Recovery!Event, Record, RecoveryInv, Recovery!TypeOK
  <2>4. log' = Append(log, Recovery!Event("retry", Recovery!Prior(policy) + 1))
    BY <2>1, <2>3 DEF RecoveryInv, Logged
  <2>5. policy \notin AlwaysMode => Recovery!Prior(policy) < Retries[policy]
    BY <1>1 DEF Recovery!Exhausted, Recovery!RequestRecoveryAssumption
  <2>6. /\ UNCHANGED <<rStep, policy, attempts, others, setup>> /\ overflow' = overflow
        /\ policy \in setup.routes
    OBVIOUS
  <2> QED
    BY <1>3, <2>1, <2>3, <2>4, <2>5, <2>6, Zenon DEF Plans
<1> QED
  BY <1>2, <1>3

LEMMA RetryHookMoves ==
  ASSUME RecoveryInv, Recovery!RequestRecoveryAssumption, Recovery!RetryHook, setup' = setup
  PROVE  Plans \/ (Stays /\ rPc' # "backoff")
<1>1. UNCHANGED <<rStep, attempts, failure, policy, hook, aborted, Recovery!plugin, overflow,
        others, setup>>
  BY DEF Recovery!RetryHook
<1>2. CASE Recovery!Delegates
  BY <1>1, <1>2 DEF Recovery!RetryHook, Stays, Recovery!Asks
<1>3. CASE ~Recovery!Delegates /\ policy \in AlwaysMode
  BY <1>1, <1>3 DEF Recovery!RetryHook, Stays, Recovery!Asks, Recovery!Goes
<1>4. CASE ~Recovery!Delegates /\ policy \notin AlwaysMode
  BY <1>1, <1>4, SetupType, SchedulesPlans DEF Recovery!RetryHook, Recovery!Delegates,
     RecoveryInv, Recovery!TypeOK, Recovery!Hooked, Counted, Delayed
<1> QED
  BY <1>2, <1>3, <1>4

LEMMA WakesMoves ==
  ASSUME RecoveryInv, Recovery!RequestRecoveryAssumption, Recovery!Wakes, setup' = setup
  PROVE  Starts
<1>1. policy \in Routes /\ policy \in setup.routes /\ rPc = "backoff"
  BY SetupType DEF Recovery!Wakes, RecoveryInv, Delayed, Recovery!TypeOK
<1>2. Recovery!Prior(policy) \in Nat
  BY <1>1, PriorType
<1>3. hook \in Nat
  BY DEF RecoveryInv, Recovery!TypeOK, Recovery!Instances, Recovery!RequestRecoveryAssumption
<1>4. Recovery!Event("started", Recovery!Prior(policy)) \in Record
  BY <1>1, <1>2, <1>3 DEF Recovery!Event, Record, RecoveryInv, Recovery!TypeOK
<1> QED
  BY <1>1, <1>4 DEF Recovery!Wakes, Recovery!Goes, Starts

LEMMA UnwindsMoves ==
  ASSUME RecoveryInv, Recovery!RequestRecoveryAssumption, Recovery!Unwinds, setup' = setup
  PROVE  Plans \/ (Stays /\ rPc' # "backoff")
<1>1. UNCHANGED <<rStep, attempts, failure, policy, chain, hook, aborted, Recovery!plugin,
        overflow, setup>>
  BY DEF Recovery!Unwinds
<1>2. CASE awaiting /\ ~Recovery!Fused(hook) /\ decision # "retry"
  BY <1>1, <1>2, SetupType, SchedulesPlans DEF Recovery!Unwinds, RecoveryInv, Delayed,
     Recovery!TypeOK, Recovery!RequestRecoveryAssumption, Counted
<1>3. CASE ~(awaiting /\ ~Recovery!Fused(hook) /\ decision # "retry")
  BY <1>1, <1>3 DEF Recovery!Unwinds, Recovery!Goes, Stays
<1> QED
  BY <1>2, <1>3

LEMMA NextStepMoves ==
  ASSUME RecoveryInv, Recovery!NextStep, setup' = setup
  PROVE  /\ (Stays /\ rPc' = "end") \/ (Passes /\ rPc' = "request")
         /\ attempts' = 0 /\ others' = 0 /\ overflow' = 0
         /\ awaiting' = awaiting /\ active' = active
<1>1. log' = log /\ awaiting' = awaiting /\ active' = active
  BY DEF Recovery!NextStep, Recovery!Forgets
<1>2. attempts' = 0 /\ others' = 0 /\ overflow' = 0
  BY DEF Recovery!NextStep
<1>3. \/ rStep' = rStep /\ rPc' = "end"
      \/ rStep' = rStep + 1 /\ rStep < RequestSteps /\ rPc' = "request"
  BY DEF Recovery!NextStep
<1> QED
  BY <1>1, <1>2, <1>3 DEF Stays, Passes

LEMMA StepMoves ==
  ASSUME RecoveryInv, Recovery!RequestRecoveryAssumption, [Recovery!Next]_recoveryVars
  PROVE  Plans \/ Starts \/ Stays \/ Passes
<1>i. setup' = setup
  BY DEF Recovery!Next, recoveryVars
<1>1. CASE Recovery!Succeeds \/ Recovery!Cancelled \/ Recovery!Decides
  BY <1>1, <1>i, NextStepMoves DEF Recovery!Succeeds, Recovery!Cancelled, Recovery!Decides,
            Recovery!Forgets, Stays
<1>2. CASE \E p \in setup.routes \cup {NoPolicy}, c \in Recovery!Codes, over \in BOOLEAN
             : Recovery!Fails(p, c, over)
  BY <1>2, <1>i DEF Recovery!Fails, Stays
<1>3. CASE Recovery!StaleHook \/ Recovery!CutShort \/ Recovery!CompactHook \/ Recovery!EndOfChain
  BY <1>3, <1>i DEF Recovery!StaleHook, Recovery!CutShort, Recovery!CompactHook,
            Recovery!EndOfChain, Stays
<1>4. CASE Recovery!RetryHook
  BY <1>4, <1>i, RetryHookMoves
<1>5. CASE Recovery!Wakes
  BY <1>5, <1>i, WakesMoves
<1>6. CASE \E progress \in BOOLEAN : Recovery!Compacted(progress)
  BY <1>6, <1>i DEF Recovery!Compacted, Stays
<1>7. CASE \E d \in {"none", "retry", "error"} : Recovery!OtherHook(d)
  BY <1>7, <1>i DEF Recovery!OtherHook, Stays
<1>8. CASE Recovery!Unwinds
  BY <1>8, <1>i, UnwindsMoves
<1>9. CASE Recovery!Abort \/ Recovery!Dispose \/ Recovery!Drained \/ Recovery!Reload
  BY <1>9, <1>i DEF Recovery!Abort, Recovery!Dispose, Recovery!Drained, Recovery!Reload, Stays
<1>10. CASE UNCHANGED recoveryVars
  BY <1>10 DEF recoveryVars, Stays
<1> QED
  BY <1>1, <1>2, <1>3, <1>4, <1>5, <1>6, <1>7, <1>8, <1>9, <1>10 DEF Recovery!Next,
            Recovery!Continues

(* The parts about the log alone. *)
LEMMA LogKept ==
  ASSUME RecoveryInv, Recovery!RequestRecoveryAssumption, [Recovery!Next]_recoveryVars
  PROVE  Logged' /\ Numbered' /\ Recovery!StartsPaired'
<1>1. CASE Stays \/ Passes
  <2>1. Logged'
    <3>1. \A i \in DOMAIN log : /\ log[i].step <= rStep /\ log[i].step \in Nat
                                   /\ log[i].policy \in setup.routes
      <4>1. \A i \in DOMAIN log : log[i] \in Record
        BY DEF RecoveryInv, Logged
      <4> QED
        BY <4>1, Recovery!RequestRecoveryAssumption DEF Record, RecoveryInv, Logged,
                        Recovery!RequestRecoveryAssumption
    <3> QED
      BY <1>1, <3>1 DEF Stays, Passes, RecoveryInv, Logged, Recovery!TypeOK
  <2>2. Numbered' /\ Recovery!StartsPaired'
    <3>1. log' = log
      BY <1>1 DEF Stays, Passes
    <3>2. \A s, p, k : Recovery!Of(s, p, k)' = Recovery!Of(s, p, k)
      BY <3>1 DEF Recovery!Of
    <3>3. Numbered'
      BY <3>1, <3>2 DEF RecoveryInv, Numbered, InOrder
    <3>4. Recovery!StartsPaired'
      BY <3>1, <3>2 DEF RecoveryInv, Recovery!StartsPaired
    <3> QED
      BY <3>3, <3>4
  <2> QED
    BY <2>1, <2>2
<1>2. CASE Plans
  <2>1. PICK e \in Record : e = Recovery!Event("retry", Recovery!Prior(policy) + 1)
    BY <1>2 DEF Plans
  <2>2. e.kind = "retry" /\ e.step = rStep /\ e.policy = policy
          /\ e.retry = Recovery!Prior(policy) + 1
    BY <2>1 DEF Recovery!Event
  <2>3. policy \in Routes
    BY <2>2 DEF Record
  <2>4. log' = Append(log, e)
          /\ (policy \notin AlwaysMode => Recovery!Prior(policy) < Retries[policy])
    BY <1>2, <2>1 DEF Plans
  <2>5. Recovery!Prior(policy) = Recovery!Cardinality(Recovery!Of(rStep, policy, "retry"))
    BY <2>3, PriorType
  <2>6. Numbered'
    BY <2>2, <2>4, <2>5, NumbersGrow DEF RecoveryInv
  <2>7. Recovery!StartsPaired'
    BY <2>2, <2>4, PairsGrow DEF RecoveryInv
  <2>10. Logged'
    BY <1>2, <2>2, <2>4, Grows DEF Plans, RecoveryInv, Recovery!TypeOK, Logged
  <2> QED
    BY <2>6, <2>7, <2>10
<1>3. CASE Starts
  <2>1. PICK e \in Record : e = Recovery!Event("started", Recovery!Prior(policy))
    BY <1>3 DEF Starts
  <2>2. e.kind = "started" /\ e.step = rStep /\ e.policy = policy
          /\ e.retry = Recovery!Prior(policy)
    BY <2>1 DEF Recovery!Event
  <2>3. policy \in Routes /\ rPc = "backoff"
    BY <1>3, <2>2 DEF Record, Starts
  <2>4. log' = Append(log, e)
    BY <1>3, <2>1 DEF Starts
  <2>5. Recovery!Prior(policy) = Recovery!Cardinality(Recovery!Of(rStep, policy, "retry"))
          /\ Recovery!Prior(policy) \in Nat
    BY <2>3, PriorType
  <2>6. Numbered'
    BY <2>2, <2>4, NumbersGrow DEF RecoveryInv
  <2>7. Recovery!Of(rStep, policy, "retry") # {}
          /\ Recovery!IsFiniteSet(Recovery!Of(rStep, policy, "retry"))
    BY <2>3, OfFinite DEF RecoveryInv, Fresh
  <2>8. Recovery!Prior(policy) \in 1..Recovery!Cardinality(Recovery!Of(rStep, policy, "retry"))
    BY <2>5, <2>7, SameSizes, FS_EmptySet
  <2>9. Recovery!StartsPaired'
    BY <2>2, <2>3, <2>4, <2>5, <2>8, PairsGrow DEF RecoveryInv, Fresh
  <2>10. Logged'
    BY <1>3, <2>2, <2>4, Grows DEF Starts, RecoveryInv, Recovery!TypeOK, Logged
  <2> QED
    BY <2>6, <2>9, <2>10
<1> QED
  BY <1>1, <1>2, <1>3, StepMoves

(* Types, and what is known of the policy while something waits. *)
LEMMA TypeKept ==
  ASSUME RecoveryInv, Recovery!RequestRecoveryAssumption, [Recovery!Next]_recoveryVars
  PROVE  Recovery!TypeOK' /\ Lives' /\ Delayed'
<1> DEFINE Kept == Recovery!TypeOK' /\ Lives' /\ Delayed'
<1> USE DEF Recovery!Instances
<1>0. /\ RequestSteps \in Nat \ {0} /\ Compactions \in Nat /\ Attempts[setup] \in Nat
      /\ Plugins \in Nat \ {0} /\ NoPolicy \notin setup.routes
      /\ setup' = setup /\ setup \in Setups
  BY SetupType DEF Recovery!RequestRecoveryAssumption, RecoveryInv, Recovery!TypeOK,
            Recovery!Next, recoveryVars
<1> DEFINE Reason == [code : Recovery!Codes, overcap : BOOLEAN]
<1>f. [code |-> "fatal", overcap |-> FALSE] \in Reason
  BY DEF Recovery!Codes
<1>g. ASSUME Recovery!Forgets, rPc \in {"request", "decided"}
      PROVE  /\ hook' = 0 /\ decision' = "none" /\ policy' = NoPolicy /\ failure' \in Reason
             /\ active' = FALSE /\ awaiting' = FALSE
             /\ instance' = instance /\ lifetime' = lifetime /\ drained' = drained
  BY <1>g, <1>f DEF Recovery!Forgets, RecoveryInv, Recovery!TypeOK, Recovery!plugin
<1>h. ASSUME Recovery!Forgets, rPc \in {"request", "decided"}, rPc' \in {"request", "end"},
             rStep' \in 1..RequestSteps, attempts' \in 0..Attempts[setup],
               overflow' \in 0..Compactions,
             others' \in Nat, aborted' \in BOOLEAN
      PROVE  Kept
  BY <1>0, <1>g, <1>h DEF RecoveryInv, Recovery!TypeOK, Lives, Delayed, Recovery!plugin
<1>1. ASSUME Recovery!NextStep, rPc \in {"request", "decided"} PROVE Kept
  <2>1. /\ Recovery!Forgets /\ attempts' = 0 /\ aborted' = FALSE /\ overflow' = 0 /\ others' = 0
        /\ (rStep' = rStep + 1 /\ rStep < RequestSteps /\ rPc' = "request")
           \/ (rStep' = rStep /\ rPc' = "end")
    BY <1>1 DEF Recovery!NextStep
  <2>2. rStep' \in 1..RequestSteps /\ rPc' \in {"request", "end"}
    BY <1>0, <2>1 DEF RecoveryInv, Recovery!TypeOK
  <2>3. attempts' \in 0..Attempts[setup] /\ overflow' \in 0..Compactions /\ others' \in Nat
    BY <1>0, <2>1
  <2>4. aborted' \in BOOLEAN
    BY <2>1
  <2> QED
    BY <1>1, <2>1, <2>2, <2>3, <2>4, <1>h
<1>2. ASSUME Recovery!Succeeds \/ Recovery!Cancelled PROVE Kept
  BY <1>1, <1>2 DEF Recovery!Succeeds, Recovery!Cancelled
<1>3. ASSUME Recovery!Decides PROVE Kept
  BY <1>1, <1>3, <1>h DEF Recovery!Decides, RecoveryInv, Recovery!TypeOK
<1>4. ASSUME NEW p \in setup.routes \cup {NoPolicy}, NEW c \in Recovery!Codes,
               NEW over \in BOOLEAN,
             Recovery!Fails(p, c, over)
      PROVE  Kept
  BY <1>0, <1>4 DEF Recovery!Fails, RecoveryInv, Recovery!TypeOK, Lives, Delayed, Recovery!plugin,
            Recovery!Codes, Recovery!Installed
<1>5. ASSUME Recovery!StaleHook PROVE Kept
  BY <1>0, <1>5 DEF Recovery!StaleHook, Recovery!Hooked, Recovery!Goes, RecoveryInv,
            Recovery!TypeOK, Lives, Delayed, Recovery!plugin
<1>6. ASSUME Recovery!RetryHook PROVE Kept
  BY <1>0, <1>6 DEF Recovery!RetryHook, Recovery!Hooked, Recovery!Asks, RecoveryInv,
     Recovery!TypeOK, Lives, Delayed, Recovery!plugin, Recovery!Goes, Recovery!Delegates,
     Recovery!Schedules
<1>7. ASSUME Recovery!Wakes PROVE Kept
  BY <1>0, <1>7 DEF Recovery!Wakes, Recovery!Goes, RecoveryInv, Recovery!TypeOK, Lives, Delayed,
            Recovery!plugin
<1>8. ASSUME Recovery!CutShort PROVE Kept
  BY <1>0, <1>8 DEF Recovery!CutShort, Recovery!Goes, RecoveryInv, Recovery!TypeOK, Lives,
            Delayed, Recovery!plugin
<1>9. ASSUME Recovery!CompactHook PROVE Kept
  BY <1>0, <1>9 DEF Recovery!CompactHook, Recovery!Hooked, Recovery!Asks, Recovery!Spent,
            RecoveryInv, Recovery!TypeOK, Lives, Delayed, Recovery!plugin
<1>10. ASSUME NEW progress \in BOOLEAN, Recovery!Compacted(progress) PROVE Kept
  BY <1>0, <1>10 DEF Recovery!Compacted, Recovery!Goes, Recovery!Asks, RecoveryInv,
            Recovery!TypeOK, Lives, Delayed, Recovery!plugin
<1>11. ASSUME NEW d \in {"none", "retry", "error"}, Recovery!OtherHook(d) PROVE Kept
  BY <1>0, <1>11 DEF Recovery!OtherHook, Recovery!Hooked, Recovery!Goes, RecoveryInv,
            Recovery!TypeOK, Lives, Delayed, Recovery!plugin
<1>12. ASSUME Recovery!EndOfChain PROVE Kept
  BY <1>0, <1>12 DEF Recovery!EndOfChain, Recovery!Goes, RecoveryInv, Recovery!TypeOK, Lives,
            Delayed, Recovery!plugin
<1>13. ASSUME Recovery!Unwinds PROVE Kept
  BY <1>0, <1>13 DEF Recovery!Unwinds, Recovery!Schedules, Recovery!Goes, RecoveryInv,
     Recovery!TypeOK, Delayed, Recovery!RequestRecoveryAssumption, Lives, Recovery!plugin,
     Recovery!Leaves
<1>14. ASSUME Recovery!Abort PROVE Kept
  BY <1>0, <1>14 DEF Recovery!Abort, RecoveryInv, Recovery!TypeOK, Lives, Delayed, Recovery!plugin
<1>15. ASSUME Recovery!Dispose PROVE Kept
  BY <1>0, <1>15 DEF Recovery!Dispose, RecoveryInv, Recovery!TypeOK, Lives, Delayed,
       Recovery!plugin
<1>16. ASSUME Recovery!Drained PROVE Kept
  BY <1>0, <1>16 DEF Recovery!Drained, Recovery!Installed, RecoveryInv, Recovery!TypeOK, Lives,
            Delayed, Recovery!plugin
<1>17. ASSUME Recovery!Reload PROVE Kept
  BY <1>0, <1>17 DEF Recovery!Reload, RecoveryInv, Recovery!TypeOK, Lives, Delayed,
       Recovery!plugin
<1>18. ASSUME UNCHANGED recoveryVars PROVE Kept
  BY <1>0, <1>18 DEF recoveryVars, RecoveryInv, Recovery!TypeOK, Lives, Delayed, Recovery!plugin
<1> QED
  BY <1>2, <1>3, <1>4, <1>5, <1>6, <1>7, <1>8, <1>9, <1>10, <1>11, <1>12, <1>13, <1>14, <1>15,
     <1>16, <1>17, <1>18 DEF Recovery!Next, Recovery!Continues

(* A wait begins with a retry in the log. *)
LEMMA UnfoldWait ==
  ASSUME RecoveryInv, Recovery!RequestRecoveryAssumption, [Recovery!Next]_recoveryVars, ~Plans,
           rPc' = "backoff"
  PROVE  rPc = "backoff" /\ policy' = policy /\ rStep' = rStep
<1>i. setup' = setup
  BY DEF Recovery!Next, recoveryVars
<1> DEFINE Goal == rPc = "backoff" /\ policy' = policy /\ rStep' = rStep
<1>1. CASE Recovery!Succeeds \/ Recovery!Cancelled \/ Recovery!Decides
  BY <1>1, <1>i, NextStepMoves DEF Recovery!Succeeds, Recovery!Cancelled, Recovery!Decides
<1>2. CASE \E p \in setup.routes \cup {NoPolicy}, c \in Recovery!Codes, over \in BOOLEAN
             : Recovery!Fails(p, c, over)
  BY <1>2 DEF Recovery!Fails
<1>3. CASE Recovery!StaleHook \/ Recovery!CutShort \/ Recovery!CompactHook \/ Recovery!EndOfChain
  BY <1>3 DEF Recovery!StaleHook, Recovery!CutShort, Recovery!CompactHook, Recovery!EndOfChain,
            Recovery!Goes, Recovery!Asks
<1>4. CASE Recovery!RetryHook
  BY <1>4, <1>i, RetryHookMoves
<1>5. CASE Recovery!Wakes
  BY <1>5 DEF Recovery!Wakes, Recovery!Goes
<1>6. CASE \E progress \in BOOLEAN : Recovery!Compacted(progress)
  BY <1>6 DEF Recovery!Compacted, Recovery!Goes, Recovery!Asks
<1>7. CASE \E d \in {"none", "retry", "error"} : Recovery!OtherHook(d)
  BY <1>7 DEF Recovery!OtherHook, Recovery!Goes
<1>8. CASE Recovery!Unwinds
  BY <1>8, <1>i, UnwindsMoves
<1>9. CASE Recovery!Abort \/ Recovery!Dispose \/ Recovery!Drained \/ Recovery!Reload
  BY <1>9 DEF Recovery!Abort, Recovery!Dispose, Recovery!Drained, Recovery!Reload
<1>10. CASE UNCHANGED recoveryVars
  BY <1>10 DEF recoveryVars
<1> QED
  BY <1>1, <1>2, <1>3, <1>4, <1>5, <1>6, <1>7, <1>8, <1>9, <1>10 DEF Recovery!Next,
            Recovery!Continues

(* The retry that is waited for. *)
LEMMA FreshKept ==
  ASSUME RecoveryInv, Recovery!RequestRecoveryAssumption, [Recovery!Next]_recoveryVars
  PROVE  Fresh'
<1>1. CASE Plans
  <2>1. PICK e \in Record : e = Recovery!Event("retry", Recovery!Prior(policy) + 1)
    BY <1>1 DEF Plans
  <2>2. e.kind = "retry" /\ e.step = rStep /\ e.policy = policy
    BY <2>1 DEF Recovery!Event
  <2>3. log' = Append(log, e) /\ rStep' = rStep /\ policy' = policy /\ policy \in Routes
    BY <1>1, <2>1, <2>2 DEF Plans, Record
  <2> DEFINE R == Recovery!Of(rStep, policy, "retry")
             S == Recovery!Of(rStep, policy, "started")
             m == Len(log) + 1
  <2>4. Recovery!Of(rStep, policy, "retry")' = R \cup {m}
          /\ Recovery!Of(rStep, policy, "started")' = S
    BY <2>2, <2>3, OfGrows DEF RecoveryInv
  <2>5. Recovery!IsFiniteSet(R) /\ Recovery!Cardinality(R) \in Nat
          /\ R \subseteq 1..Len(log) /\ S \subseteq 1..Len(log)
    BY OfFinite DEF RecoveryInv
  <2>6. m \notin R /\ Len(log) \in Nat /\ DOMAIN log = 1..Len(log)
    BY <2>5 DEF RecoveryInv, Logged
  <2>7. Recovery!Cardinality(R \cup {m}) = Recovery!Cardinality(R) + 1
    BY <2>5, <2>6, SameSizes, FS_AddElement
  <2>8. ASSUME NEW i \in S PROVE log'[i].retry < Recovery!Cardinality(R) + 1
    <3>1. log'[i] = log[i]
      BY <2>3, <2>5, Grows DEF RecoveryInv, Logged
    <3>2. PICK j \in R : log[j].retry = log[i].retry
      BY <2>3 DEF RecoveryInv, Recovery!StartsPaired, Recovery!TypeOK
    <3>3. log[j].retry \in 1..Recovery!Cardinality(R)
      BY <2>3 DEF RecoveryInv, Numbered, InOrder, Recovery!TypeOK
    <3> QED
      BY <2>5, <3>1, <3>2, <3>3
  <2> QED
    BY <2>3, <2>4, <2>7, <2>8 DEF Fresh
<1>2. CASE Starts
  BY <1>2 DEF Starts, Fresh
<1>3. CASE ~Plans /\ (Stays \/ Passes)
  BY <1>3, UnfoldWait DEF Fresh, Stays, Passes, RecoveryInv, Recovery!Of
<1> QED
  BY <1>1, <1>2, <1>3, StepMoves

(* Where the policy's hook and a decision on its way go, unless a retry is *)
(* scheduled.                                                              *)
LEMMA RetryHookShape ==
  ASSUME RecoveryInv, Recovery!RequestRecoveryAssumption, Recovery!RetryHook, ~Plans,
         setup' = setup
  PROVE  rPc' = "hook" \/ (rPc' = "unwind" /\ decision' = "none")
<1>1. CASE Recovery!Delegates
  BY <1>1 DEF Recovery!RetryHook, Recovery!Asks
<1>2. CASE ~Recovery!Delegates /\ policy \in AlwaysMode
  BY <1>2 DEF Recovery!RetryHook, Recovery!Asks, Recovery!Goes
<1>3. CASE ~Recovery!Delegates /\ policy \notin AlwaysMode
  BY <1>3, RetryHookMoves DEF Recovery!RetryHook, Recovery!Schedules, Recovery!Goes
<1> QED
  BY <1>1, <1>2, <1>3

LEMMA UnwindsShape ==
  ASSUME RecoveryInv, Recovery!RequestRecoveryAssumption, Recovery!Unwinds, ~Plans, setup' = setup
  PROVE  /\ \/ rPc' = "unwind" /\ decision' = "none" /\ ~awaiting'
            \/ rPc' \in {"unwind", "decided"} /\ decision' = decision /\ ~awaiting'
         /\ others' = others
<1>1. CASE awaiting /\ ~Recovery!Fused(hook) /\ decision # "retry"
  BY <1>1, UnwindsMoves DEF Recovery!Unwinds, Recovery!Schedules, Recovery!Goes
<1>2. CASE awaiting /\ (Recovery!Fused(hook) \/ decision = "retry")
  BY <1>2 DEF Recovery!Unwinds, Recovery!Goes
<1>3. CASE ~awaiting
  BY <1>3 DEF Recovery!Unwinds, RecoveryInv, Recovery!TypeOK
<1> QED
  BY <1>1, <1>2, <1>3

(* Attempts against starts and the other hooks. *)
LEMMA CountedKept ==
  ASSUME RecoveryInv, Recovery!RequestRecoveryAssumption, [Recovery!Next]_recoveryVars
  PROVE  Counted'
<1>i. setup' = setup
  BY DEF Recovery!Next, recoveryVars
<1>0. Recovery!Started \in Nat /\ others \in Nat /\ attempts \in Nat /\ rStep \in Nat
  BY StartedFinite DEF RecoveryInv, Recovery!TypeOK, Recovery!RequestRecoveryAssumption
<1>s. ASSUME Stays PROVE Recovery!Started' = Recovery!Started
  BY <1>s DEF Stays, Recovery!Started
<1>m. ASSUME Passes PROVE Recovery!Started' = 0
  <2>1. ASSUME NEW i \in DOMAIN log PROVE log[i].step # rStep + 1
    <3>1. log[i] \in Record /\ log[i].step <= rStep
      BY DEF RecoveryInv, Logged
    <3> QED
      BY <1>0, <3>1, Recovery!RequestRecoveryAssumption DEF Record,
                    Recovery!RequestRecoveryAssumption
  <2>2. {i \in DOMAIN log' : log'[i].step = rStep' /\ log'[i].kind = "started"} = {}
    BY <2>1, <1>m DEF Passes
  <2> QED
    BY <2>2, SameSizes, FS_EmptySet DEF Recovery!Started
<1>p. ASSUME Plans PROVE Counted'
  BY <1>0, <1>p, StartsGrow DEF Plans, Recovery!Event, RecoveryInv, Counted
<1>w. ASSUME Starts PROVE Counted'
  BY <1>0, <1>w, StartsGrow DEF Starts, Recovery!Event, RecoveryInv, Counted
<1>n. ASSUME Recovery!NextStep PROVE Counted'
  BY <1>0, <1>i, <1>n, NextStepMoves, <1>s, <1>m DEF Counted
<1>1. CASE Recovery!Succeeds \/ Recovery!Cancelled
  BY <1>1, <1>n DEF Recovery!Succeeds, Recovery!Cancelled
<1>2. CASE Recovery!Decides
  BY <1>0, <1>2, <1>i, <1>s, <1>n DEF Recovery!Decides, Recovery!Forgets, Stays, RecoveryInv,
     Counted
<1>3. ASSUME NEW p \in setup.routes \cup {NoPolicy}, NEW c \in Recovery!Codes,
               NEW over \in BOOLEAN,
             Recovery!Fails(p, c, over)
      PROVE  Counted'
  BY <1>0, <1>3, <1>i, <1>s DEF Recovery!Fails, Stays, RecoveryInv, Counted
<1>4. CASE Recovery!StaleHook \/ Recovery!CutShort \/ Recovery!EndOfChain
  BY <1>0, <1>4, <1>i, <1>s DEF Recovery!StaleHook, Recovery!CutShort, Recovery!EndOfChain,
     Recovery!Goes, Recovery!Hooked, Stays, RecoveryInv, Counted
<1>5. CASE Recovery!RetryHook /\ ~Plans
  BY <1>0, <1>5, <1>i, RetryHookMoves, RetryHookShape, <1>s DEF Recovery!RetryHook,
     Recovery!Hooked, RecoveryInv, Counted
<1>6. CASE Recovery!Wakes
  BY <1>6, <1>i, <1>w, WakesMoves
<1>7. CASE Recovery!CompactHook
  BY <1>0, <1>7, <1>i, <1>s DEF Recovery!CompactHook, Recovery!Hooked, Recovery!Asks, Stays,
     RecoveryInv, Counted
<1>8. ASSUME NEW progress \in BOOLEAN, Recovery!Compacted(progress) PROVE Counted'
  BY <1>0, <1>8, <1>i, <1>s DEF Recovery!Compacted, Stays, Recovery!Goes, Recovery!Asks,
     RecoveryInv, Counted
<1>9. ASSUME NEW d \in {"none", "retry", "error"}, Recovery!OtherHook(d) PROVE Counted'
  BY <1>0, <1>9, <1>i, <1>s DEF Recovery!OtherHook, Recovery!Hooked, Recovery!Goes, Stays,
     RecoveryInv, Counted
<1>10. CASE Recovery!Unwinds /\ ~Plans
  BY <1>0, <1>10, <1>i, UnwindsMoves, UnwindsShape, <1>s DEF Recovery!Unwinds, RecoveryInv,
     Counted
<1>11. CASE Recovery!Abort \/ Recovery!Dispose \/ Recovery!Drained \/ Recovery!Reload
              \/ UNCHANGED recoveryVars
  BY <1>0, <1>11, <1>i, <1>s DEF Recovery!Abort, Recovery!Dispose, Recovery!Drained,
     Recovery!Reload, recoveryVars, Stays, RecoveryInv, Counted
<1> QED
  BY <1>1, <1>2, <1>3, <1>4, <1>5, <1>6, <1>7, <1>8, <1>9, <1>10, <1>11, <1>p
  DEF Recovery!Next, Recovery!Continues

(* The other hooks' retries. *)
LEMMA UnwindsOthers ==
  ASSUME RecoveryInv, Recovery!Unwinds
  PROVE  others' = others /\ overflow' = overflow
<1>1. CASE awaiting /\ (Recovery!Fused(hook) \/ decision = "retry")
  BY <1>1 DEF Recovery!Unwinds
<1>2. CASE awaiting /\ ~(Recovery!Fused(hook) \/ decision = "retry")
  BY <1>2 DEF Recovery!Unwinds
<1>3. CASE ~awaiting
  BY <1>3 DEF Recovery!Unwinds
<1> QED
  BY <1>1, <1>2, <1>3

LEMMA AloneKept ==
  ASSUME Recovery!RequestRecoveryAssumption, RecoveryInv, [Recovery!Next]_recoveryVars
  PROVE  OverflowAlone'
<1>s. setup' = setup /\ setup \in Setups
  BY DEF Recovery!Next, recoveryVars, RecoveryInv, Recovery!TypeOK
<1> SUFFICES ASSUME Recovery!Budgeted
             PROVE  /\ others' <= overflow'
                    /\ chain' \in Seq({"retry", "compact"})
                    /\ rPc' = "compacting" => chain' # <<>>
  BY <1>s DEF OverflowAlone, Recovery!Budgeted
<1>a. /\ others <= overflow
      /\ chain \in Seq({"retry", "compact"})
      /\ rPc = "compacting" => chain # <<>>
  BY DEF RecoveryInv, OverflowAlone
<1>0. others \in Nat /\ overflow \in Nat
  BY DEF RecoveryInv, Recovery!TypeOK, Recovery!RequestRecoveryAssumption
<1>1. Recovery!Registered \in Seq({"retry", "compact"})
  BY <1>s, SetupType DEF Recovery!Hooks, Recovery!Budgeted, Recovery!Registered,
     Recovery!RemoveAt
<1>2. chain # <<>> => Tail(chain) \in Seq({"retry", "compact"}) /\ Head(chain) # "other"
  BY <1>a
<1>3. \/ chain' = chain
      \/ chain' = <<>>
      \/ chain' = Recovery!Registered
      \/ chain # <<>> /\ chain' = Tail(chain)
  <2>1. CASE Recovery!Succeeds \/ Recovery!Cancelled \/ Recovery!Decides
    BY <2>1 DEF Recovery!Succeeds, Recovery!Cancelled, Recovery!Decides, Recovery!NextStep,
                Recovery!Forgets
  <2>2. CASE \E p \in setup.routes \cup {NoPolicy}, c \in Recovery!Codes, over \in BOOLEAN
               : Recovery!Fails(p, c, over)
    BY <2>2 DEF Recovery!Fails
  <2>3. CASE Recovery!StaleHook \/ Recovery!CutShort \/ Recovery!EndOfChain \/ Recovery!Wakes
    BY <2>3 DEF Recovery!StaleHook, Recovery!CutShort, Recovery!EndOfChain, Recovery!Wakes
  <2>4. CASE Recovery!RetryHook
    BY <2>4 DEF Recovery!RetryHook, Recovery!Hooked, Recovery!Asks
  <2>5. CASE Recovery!CompactHook
    BY <2>5 DEF Recovery!CompactHook, Recovery!Hooked, Recovery!Asks
  <2>6. ASSUME NEW progress \in BOOLEAN, Recovery!Compacted(progress)
        PROVE  chain' = chain \/ (chain # <<>> /\ chain' = Tail(chain))
    BY <2>6, <1>a DEF Recovery!Compacted, Recovery!Asks
  <2>7. CASE \E d \in {"none", "retry", "error"} : Recovery!OtherHook(d)
    BY <2>7 DEF Recovery!OtherHook
  <2>8. CASE Recovery!Unwinds
    BY <2>8 DEF Recovery!Unwinds
  <2>9. CASE Recovery!Abort \/ Recovery!Dispose \/ Recovery!Drained \/ Recovery!Reload
               \/ UNCHANGED recoveryVars
    BY <2>9 DEF Recovery!Abort, Recovery!Dispose, Recovery!Drained, Recovery!Reload, recoveryVars
  <2> QED
    BY <2>1, <2>2, <2>3, <2>4, <2>5, <2>6, <2>7, <2>8, <2>9 DEF Recovery!Next, Recovery!Continues
<1>4. chain' \in Seq({"retry", "compact"})
  <2>1. <<>> \in Seq({"retry", "compact"}) /\ chain \in Seq({"retry", "compact"})
    BY <1>a
  <2> QED
    BY <1>1, <1>2, <1>3, <2>1, Zenon
<1>5. \/ others' = others /\ overflow' = overflow
      \/ others' = 0 /\ overflow' = 0
      \/ others' = others + 1 /\ overflow' = overflow + 1
  <2>1. CASE Recovery!Succeeds \/ Recovery!Cancelled \/ Recovery!Decides
    BY <2>1 DEF Recovery!Succeeds, Recovery!Cancelled, Recovery!Decides, Recovery!NextStep
  <2>2. CASE \E p \in setup.routes \cup {NoPolicy}, c \in Recovery!Codes, over \in BOOLEAN
               : Recovery!Fails(p, c, over)
    BY <2>2 DEF Recovery!Fails
  <2>3. CASE Recovery!StaleHook \/ Recovery!CutShort \/ Recovery!EndOfChain
               \/ Recovery!Wakes \/ Recovery!CompactHook \/ Recovery!RetryHook
    BY <2>3 DEF Recovery!StaleHook, Recovery!CutShort, Recovery!EndOfChain, Recovery!Wakes,
                Recovery!CompactHook, Recovery!RetryHook
  <2>4. CASE \E progress \in BOOLEAN : Recovery!Compacted(progress)
    BY <2>4 DEF Recovery!Compacted
  <2>5. ~ \E d \in {"none", "retry", "error"} : Recovery!OtherHook(d)
    BY <1>2 DEF Recovery!OtherHook, Recovery!Hooked
  <2>6. CASE Recovery!Unwinds
    BY <2>6, <1>s, UnwindsOthers
  <2>7. CASE Recovery!Abort \/ Recovery!Dispose \/ Recovery!Drained \/ Recovery!Reload
               \/ UNCHANGED recoveryVars
    BY <2>7 DEF Recovery!Abort, Recovery!Dispose, Recovery!Drained, Recovery!Reload, recoveryVars
  <2> QED
    BY <2>1, <2>2, <2>3, <2>4, <2>5, <2>6, <2>7 DEF Recovery!Next, Recovery!Continues
<1>6. rPc' = "compacting" => chain' # <<>>
  <2> SUFFICES ASSUME rPc' = "compacting" PROVE chain' # <<>>
    OBVIOUS
  <2>1. ~(Recovery!Succeeds \/ Recovery!Cancelled \/ Recovery!Decides)
    BY DEF Recovery!Succeeds, Recovery!Cancelled, Recovery!Decides, Recovery!NextStep
  <2>2. ~ \E p \in setup.routes \cup {NoPolicy}, c \in Recovery!Codes, over \in BOOLEAN
          : Recovery!Fails(p, c, over)
    BY DEF Recovery!Fails
  <2>3. ~(Recovery!StaleHook \/ Recovery!CutShort \/ Recovery!EndOfChain \/ Recovery!Wakes)
    BY DEF Recovery!StaleHook, Recovery!CutShort, Recovery!EndOfChain, Recovery!Wakes,
         Recovery!Goes
  <2>4. CASE Recovery!CompactHook
    BY <2>4 DEF Recovery!CompactHook, Recovery!Hooked, Recovery!Asks
  <2>5. ~ Recovery!RetryHook
    BY <1>s, RetryHookMoves, RetryHookShape DEF Plans
  <2>6. ~ \E progress \in BOOLEAN : Recovery!Compacted(progress)
    BY DEF Recovery!Compacted, Recovery!Goes, Recovery!Asks
  <2>7. ~ \E d \in {"none", "retry", "error"} : Recovery!OtherHook(d)
    BY DEF Recovery!OtherHook, Recovery!Goes
  <2>8. ~ Recovery!Unwinds
    BY <1>s, UnwindsMoves, UnwindsShape DEF Plans
  <2>9. CASE Recovery!Abort \/ Recovery!Dispose \/ Recovery!Drained \/ Recovery!Reload
               \/ UNCHANGED recoveryVars
    BY <2>9, <1>a DEF Recovery!Abort, Recovery!Dispose, Recovery!Drained, Recovery!Reload,
                recoveryVars
  <2> QED
    BY <2>1, <2>2, <2>3, <2>4, <2>5, <2>6, <2>7, <2>8, <2>9 DEF Recovery!Next, Recovery!Continues
<1> QED
  BY <1>0, <1>4, <1>5, <1>6, <1>a

--------------------------------------------------------------------------------
(* The most requests of a step *)

(* A set of natural numbers that is not empty has a least element. *)
LEMMA Least ==
  ASSUME NEW S \in SUBSET Nat, S # {}
  PROVE  \E x \in S : \A y \in S : x <= y
<1>1. \E x \in S : \A y \in S : ~ (<<y, x>> \in OpToRel(<, Nat))
  BY NatLessThanWellFounded, WFMin
<1>2. PICK x \in S : \A y \in S : ~ (<<y, x>> \in OpToRel(<, Nat))
  BY <1>1
<1>3. \A y \in S : ~ (y < x)
  BY <1>2 DEF OpToRel
<1> QED
  BY <1>3

(* The retries that the budgets of some policies allow. *)
Tickets(P) == UNION {{p} \X (1..Retries[p]) : p \in P}

LEMMA TicketsOf ==
  ASSUME Recovery!RequestRecoveryAssumption, NEW p \in Routes
  PROVE  /\ Recovery!IsFiniteSet({p} \X (1..Retries[p]))
         /\ Recovery!Cardinality({p} \X (1..Retries[p])) = Retries[p]
<1>1. Retries[p] \in Nat
  BY DEF Recovery!RequestRecoveryAssumption
<1>2. Recovery!IsFiniteSet(1..Retries[p]) /\ Recovery!Cardinality(1..Retries[p]) = Retries[p]
  BY <1>1, SameSizes, FS_Interval
<1>3. Recovery!IsFiniteSet({p}) /\ Recovery!Cardinality({p}) = 1
  BY SameSizes, FS_Singleton
<1>4. /\ Recovery!IsFiniteSet({p} \X (1..Retries[p]))
      /\ Recovery!Cardinality({p} \X (1..Retries[p]))
           = Recovery!Cardinality({p}) * Recovery!Cardinality(1..Retries[p])
  BY <1>2, <1>3, SameSizes, FS_Product
<1> QED
  BY <1>1, <1>2, <1>3, <1>4

LEMMA TicketsFinite ==
  ASSUME Recovery!RequestRecoveryAssumption, NEW P \in SUBSET Routes
  PROVE  Recovery!IsFiniteSet(P) /\ Recovery!IsFiniteSet(Tickets(P))
           /\ Recovery!Cardinality(Tickets(P)) \in Nat
<1>1. Recovery!IsFiniteSet(P)
  BY SameSizes, FS_Subset DEF Recovery!RequestRecoveryAssumption
<1>2. Recovery!IsFiniteSet({{p} \X (1..Retries[p]) : p \in P})
  <2> DEFINE S == {{p} \X (1..Retries[p]) : p \in P}
             f == [p \in P |-> {p} \X (1..Retries[p])]
  <2>1. f \in Surjection(P, S)
    BY DEF Surjection
  <2> QED
    BY <1>1, <2>1, SameSizes, FS_Surjection
<1>3. \A T \in {{p} \X (1..Retries[p]) : p \in P} : Recovery!IsFiniteSet(T)
  BY TicketsOf
<1>4. Recovery!IsFiniteSet(Tickets(P))
  BY <1>2, <1>3, SameSizes, FS_UNION DEF Tickets
<1> QED
  BY <1>1, <1>4, SameSizes, FS_CardinalityType

LEMMA TicketsSplit ==
  ASSUME Recovery!RequestRecoveryAssumption, NEW P \in SUBSET Routes, NEW p \in P
  PROVE  Recovery!Cardinality(Tickets(P)) = Retries[p] + Recovery!Cardinality(Tickets(P \ {p}))
<1> DEFINE A == {p} \X (1..Retries[p])
           B == Tickets(P \ {p})
<1>1. Tickets(P) = A \cup B
  BY DEF Tickets
<1>2. A \cap B = {}
  BY DEF Tickets
<1>3. Recovery!IsFiniteSet(A) /\ Recovery!Cardinality(A) = Retries[p]
  BY TicketsOf
<1>4. Recovery!IsFiniteSet(B) /\ Recovery!Cardinality(B) \in Nat
  BY TicketsFinite
<1>5. Recovery!Cardinality(A \cup B)
        = Recovery!Cardinality(A) + Recovery!Cardinality(B) - Recovery!Cardinality(A \cap B)
  BY <1>3, <1>4, SameSizes, FS_Union
<1>6. Recovery!Cardinality({}) = 0
  BY SameSizes, FS_EmptySet
<1>7. Retries[p] \in Nat
  BY DEF Recovery!RequestRecoveryAssumption
<1>8. Recovery!Cardinality(A \cap B) = 0
  BY <1>2, <1>6
<1> HIDE DEF A, B
<1>9. Recovery!Cardinality(A \cup B) = Retries[p] + Recovery!Cardinality(B)
  BY <1>3, <1>4, <1>5, <1>7, <1>8
<1> QED
  BY <1>1, <1>9 DEF B

(* The sum of the budgets, as it is folded, is the number of those retries. *)
LEMMA BudgetsAddUp ==
  ASSUME Recovery!RequestRecoveryAssumption, NEW P \in SUBSET Routes
  PROVE  Recovery!MapThenSumSet(LAMBDA p : Retries[p], P) = Recovery!Cardinality(Tickets(P))
<1> DEFINE Pick(s) == CHOOSE x \in s : TRUE
           Sums(f) == f = [s \in SUBSET P |->
                             IF s = {} THEN 0 ELSE Retries[Pick(s)] + f[s \ {Pick(s)}]]
           tickets == [s \in SUBSET P |-> Recovery!Cardinality(Tickets(s))]
<1>1. Sums(tickets)
  <2>1. Tickets({}) = {} /\ Recovery!Cardinality({}) = 0
    BY SameSizes, FS_EmptySet DEF Tickets
  <2>2. ASSUME NEW s \in SUBSET P, s # {}
        PROVE  tickets[s] = Retries[Pick(s)] + tickets[s \ {Pick(s)}]
    <3>1. Pick(s) \in s
      BY <2>2
    <3>2. s \ {Pick(s)} \in SUBSET P
      OBVIOUS
    <3> HIDE DEF Pick
    <3>3. Recovery!Cardinality(Tickets(s))
            = Retries[Pick(s)] + Recovery!Cardinality(Tickets(s \ {Pick(s)}))
      BY <3>1, TicketsSplit
    <3> QED
      BY <3>2, <3>3
  <2> HIDE DEF Pick
  <2> QED
    BY <2>1, <2>2
<1>2. PICK f : f = CHOOSE g : Sums(g)
  OBVIOUS
<1>3. Sums(f)
  <2> HIDE DEF Sums
  <2> QED
    BY <1>1, <1>2, Zenon
<1>4. Recovery!MapThenSumSet(LAMBDA p : Retries[p], P) = f[P]
  BY <1>2 DEF Recovery!MapThenSumSet, Recovery!MapThenFoldSet
<1>5. \A s \in SUBSET P : f[s] = Recovery!Cardinality(Tickets(s))
  <2> DEFINE Off == {s \in SUBSET P : f[s] # Recovery!Cardinality(Tickets(s))}
             Sizes == {Recovery!Cardinality(s) : s \in Off}
  <2> SUFFICES ASSUME Off # {} PROVE FALSE
    OBVIOUS
  <2>1. Sizes \in SUBSET Nat /\ Sizes # {}
    BY SameSizes, TicketsFinite, FS_CardinalityType
  <2>2. PICK n \in Sizes : \A m \in Sizes : n <= m
    BY <2>1, Least
  <2>3. PICK s \in Off : Recovery!Cardinality(s) = n
    BY <2>2
  <2>4. Recovery!IsFiniteSet(s)
    BY TicketsFinite
  <2>5. CASE s = {}
    <3>1. f[s] = 0
      BY <1>3, <2>5
    <3>2. Tickets(s) = {} /\ Recovery!Cardinality({}) = 0
      BY <2>5, SameSizes, FS_EmptySet DEF Tickets
    <3> QED
      BY <3>1, <3>2
  <2>6. CASE s # {}
    <3>1. PICK x : x = Pick(s)
      OBVIOUS
    <3>2. x \in s
      BY <2>6, <3>1
    <3>3. f[s] = Retries[x] + f[s \ {x}]
      BY <1>3, <2>6, <3>1
    <3>4. Recovery!Cardinality(s \ {x}) = Recovery!Cardinality(s) - 1
            /\ Recovery!Cardinality(s) \in Nat
      BY <2>4, <3>2, SameSizes, FS_RemoveElement, FS_CardinalityType
    <3>5. s \ {x} \notin Off
      <4> SUFFICES ASSUME s \ {x} \in Off PROVE FALSE
        OBVIOUS
      <4>1. PICK m : m = Recovery!Cardinality(s \ {x})
        OBVIOUS
      <4>2. m \in Sizes
        BY <4>1
      <4>3. n <= m
        BY <2>2, <4>2
      <4> QED
        BY <2>3, <3>4, <4>1, <4>3
    <3>6. f[s \ {x}] = Recovery!Cardinality(Tickets(s \ {x}))
      BY <3>5
    <3> QED
      BY <3>2, <3>3, <3>6, TicketsSplit
  <2> QED
    BY <2>5, <2>6
<1> QED
  BY <1>4, <1>5

(* The starts of a step are tickets. *)
LEMMA StartsAreTickets ==
  ASSUME Recovery!RequestRecoveryAssumption, RecoveryInv, Recovery!Budgeted
  PROVE  Recovery!Started <= Recovery!Cardinality(Tickets(setup.routes))
<1> DEFINE S == {i \in DOMAIN log : log[i].step = rStep /\ log[i].kind = "started"}
           f == [i \in S |-> <<log[i].policy, log[i].retry>>]
<1>1. ASSUME NEW i \in S
      PROVE  /\ log[i].policy \in setup.routes /\ log[i].retry \in 1..Retries[log[i].policy]
             /\ i \in Recovery!Of(rStep, log[i].policy, "started")
  <2>1. log[i] \in Record
    BY DEF RecoveryInv, Logged
  <2>2. PICK p \in Routes : p = log[i].policy /\ p \in setup.routes /\ p \notin AlwaysMode
    BY <2>1 DEF Record, RecoveryInv, Logged, Recovery!Budgeted
  <2>3. i \in Recovery!Of(rStep, p, "started") /\ rStep \in 1..RequestSteps
    BY <2>2 DEF Recovery!Of, RecoveryInv, Recovery!TypeOK
  <2>4. PICK j \in Recovery!Of(rStep, p, "retry") : log[j].retry = log[i].retry
    BY <2>3 DEF RecoveryInv, Recovery!StartsPaired
  <2>5. InOrder(rStep, p) /\ Retries[p] \in Nat
          /\ Recovery!Cardinality(Recovery!Of(rStep, p, "retry")) \in Nat
    BY <2>3, OfFinite DEF RecoveryInv, Numbered, Recovery!RequestRecoveryAssumption
  <2>6. log[j].retry \in 1..Recovery!Cardinality(Recovery!Of(rStep, p, "retry"))
    BY <2>4, <2>5 DEF InOrder
  <2>7. Recovery!Cardinality(Recovery!Of(rStep, p, "retry")) <= Retries[p]
    BY <2>2, <2>5 DEF InOrder
  <2> QED
    BY <2>2, <2>3, <2>4, <2>5, <2>6, <2>7
<1>2. ASSUME NEW i \in S, NEW j \in S, f[i] = f[j] PROVE i = j
  BY <1>1, <1>2, SetupType DEF RecoveryInv, Recovery!TypeOK, Recovery!StartsPaired
<1>3. f \in [S -> Tickets(setup.routes)]
  BY <1>1 DEF Tickets
<1>4. f \in Injection(S, Tickets(setup.routes))
  BY <1>2, <1>3 DEF Injection, IsInjective
<1> QED
  BY <1>4, SameSizes, SetupType, TicketsFinite, FS_Injection DEF Recovery!Started, RecoveryInv,
            Recovery!TypeOK

LEMMA BudgetsBind ==
  ASSUME Recovery!RequestRecoveryAssumption, RecoveryInv
  PROVE  Recovery!AttemptsBounded
<1> SUFFICES ASSUME Recovery!Budgeted
             PROVE  attempts <= 1 + Compactions
                                  + Recovery!MapThenSumSet(LAMBDA p : Retries[p], setup.routes)
  BY DEF Recovery!AttemptsBounded
<1>1. PICK P \in SUBSET Routes : P = setup.routes
  BY SetupType DEF RecoveryInv, Recovery!TypeOK
<1>2. PICK n : n = Recovery!MapThenSumSet(LAMBDA p : Retries[p], P)
  OBVIOUS
<1>3. n = Recovery!Cardinality(Tickets(P))
  BY <1>2, BudgetsAddUp
<1>4. Recovery!Started <= n /\ n \in Nat /\ Recovery!Started \in Nat
  BY <1>1, <1>3, StartsAreTickets, StartedFinite, TicketsFinite DEF RecoveryInv
<1>5. /\ attempts <= 1 + Recovery!Started + others /\ others <= overflow
           /\ overflow <= Compactions
      /\ attempts \in Nat /\ others \in Nat /\ overflow \in Nat /\ Compactions \in Nat
  BY SetupType DEF RecoveryInv, Counted, Recovery!TypeOK, OverflowAlone,
            Recovery!RequestRecoveryAssumption
<1>6. attempts <= 1 + Compactions + n
  BY <1>4, <1>5
<1> QED
  BY <1>1, <1>2, <1>6

--------------------------------------------------------------------------------
(* Theorems *)

LEMMA RecoveryInit ==
  ASSUME Recovery!Init, Recovery!RequestRecoveryAssumption
  PROVE  RecoveryInv
<1>0. RequestSteps \in Nat \ {0} /\ Plugins \in Nat \ {0} /\ Compactions \in Nat
        /\ Attempts[setup] \in Nat /\ setup \in Setups
  BY SetupType DEF Recovery!RequestRecoveryAssumption, Recovery!Init
<1>1. log = <<>> /\ log \in Seq(Record) /\ DOMAIN log = {}
  BY DEF Recovery!Init
<1>2. \A s, p, k : Recovery!Of(s, p, k) = {}
  BY <1>1 DEF Recovery!Of
<1>3. Recovery!Cardinality({}) = 0
  BY SameSizes, FS_EmptySet
<1>4. Recovery!TypeOK
  <2>1. [code |-> "fatal", overcap |-> FALSE] \in [code : Recovery!Codes, overcap : BOOLEAN]
    BY DEF Recovery!Codes
  <2>2. /\ rStep = 1 /\ rPc = "request" /\ attempts = 0 /\ policy = NoPolicy /\ hook = 0
        /\ decision = "none" /\ instance = 1 /\ lifetime = {} /\ drained = {}
        /\ overflow = 0 /\ others = 0
    BY DEF Recovery!Init
  <2>3. active = FALSE /\ awaiting = FALSE /\ aborted = FALSE
    BY DEF Recovery!Init
  <2>4. failure \in [code : Recovery!Codes, overcap : BOOLEAN]
    BY <2>1 DEF Recovery!Init
  <2> QED
    <3>1. active \in BOOLEAN /\ awaiting \in BOOLEAN /\ aborted \in BOOLEAN /\ ~active
            /\ ~awaiting
      BY <2>3
    <3>2. /\ rStep \in 1..RequestSteps /\ attempts \in 0..Attempts[setup]
               /\ overflow \in 0..Compactions
          /\ others \in Nat
      BY <1>0, <2>2
    <3> QED
      BY <1>0, <2>2, <2>4, <3>1, <3>2 DEF Recovery!TypeOK
<1>5. Numbered /\ Recovery!StartsPaired
  <2>1. \A p \in Routes : Retries[p] >= 0
    BY DEF Recovery!RequestRecoveryAssumption
  <2>2. ASSUME NEW s, NEW p \in Routes PROVE InOrder(s, p)
    BY <1>2, <1>3, <2>1 DEF InOrder
  <2> QED
    BY <1>2, <2>2 DEF Numbered, Recovery!StartsPaired
<1>6. Recovery!Started = 0
  BY <1>1, <1>3 DEF Recovery!Started
<1>7. Lives /\ Logged /\ Delayed /\ Fresh /\ Counted /\ OverflowAlone
  BY <1>0, <1>1, <1>6 DEF Recovery!Init, OverflowAlone, Lives, Recovery!Instances, Logged,
            Delayed, Fresh, Counted
<1> QED
  BY <1>4, <1>5, <1>7 DEF RecoveryInv

LEMMA RecoveryNext ==
  ASSUME RecoveryInv, Recovery!RequestRecoveryAssumption, [Recovery!Next]_recoveryVars
  PROVE  RecoveryInv'
BY LogKept, TypeKept, FreshKept, CountedKept, AloneKept DEF RecoveryInv

(* Budgets and the log of retries agree with the requests that were sent,     *)
(* whatever routes fail, turns are cancelled and plugins reloaded: the run's  *)
(* RecoveryHolds, for any policies, budgets, orders of the hooks and bounds.  *)
THEOREM RecoveryAlwaysHolds == MCSpec => []RecoveryHolds
<1>1. MCInit => RecoveryInv
  BY RecoveryBounds, RecoveryInit DEF MCInit
<1>2. RecoveryInv /\ [MCNext]_<<part, agentVars, recoveryVars, crashVars>> => RecoveryInv'
  BY RecoveryBounds, RecoveryNext DEF MCNext
<1>3. RecoveryInv => RecoveryHolds
  BY RecoveryBounds, BudgetsBind DEF RecoveryHolds, RecoveryInv, Recovery!RecoverySafe,
     Numbered, InOrder, Recovery!BudgetRespected, Counted, Recovery!AttemptsAccounted
<1> QED
  BY <1>1, <1>2, <1>3, PTL DEF MCSpec

LEMMA WritesByTheLiving ==
  ASSUME RecoveryInv, [Recovery!Next]_recoveryVars, log' # log
  PROVE  Recovery!Last(log').by \notin lifetime
<1>1. PICK e \in Record : log' = Append(log, e) /\ e.by = hook /\ ~Recovery!Fused(hook)
  BY RecoveryBounds, StepMoves DEF Stays, Passes, Plans, Starts, Recovery!Event
<1>2. Len(log') = Len(log) + 1 /\ log'[Len(log) + 1] = e
  BY <1>1, Grows DEF RecoveryInv
<1> QED
  BY <1>1, <1>2 DEF Recovery!Last, Recovery!Fused

LEMMA NothingAfterAbort ==
  ASSUME RecoveryInv, [Recovery!Next]_recoveryVars, aborted
  PROVE  log' = log /\ attempts' <= attempts
<1>1. log' = log
  BY RecoveryBounds, StepMoves DEF Plans, Starts, Stays, Passes, Recovery!Fused
<1>2. attempts' = attempts \/ attempts' = 0
  BY DEF Recovery!Next, Recovery!Continues, Recovery!Succeeds, Recovery!Cancelled,
         Recovery!Decides, Recovery!NextStep, Recovery!Fails, Recovery!StaleHook,
         Recovery!RetryHook, Recovery!Wakes, Recovery!CutShort, Recovery!CompactHook,
         Recovery!Compacted, Recovery!OtherHook, Recovery!EndOfChain, Recovery!Unwinds,
         Recovery!Abort, Recovery!Dispose, Recovery!Drained, Recovery!Reload, recoveryVars
<1>3. attempts \in Nat
  BY RecoveryBounds DEF RecoveryInv, Recovery!TypeOK, Recovery!RequestRecoveryAssumption
<1> QED
  BY <1>1, <1>2, <1>3

(* No turn opens that nobody asked for; an unloaded instance of the retry    *)
(* policy writes nothing more, and in a cancelled turn nothing is scheduled  *)
(* or sent: the run's TurnSteps, for any messages, policies and bounds.      *)
THEOREM TurnStepsHold == MCSpec => TurnSteps
<1> DEFINE Living == Recovery!Last(log').by \notin lifetime
           Wins == aborted /\ aborted' => log' = log /\ attempts' <= attempts
<1>1. MCInit => RecoveryInv
  BY RecoveryBounds, RecoveryInit DEF MCInit
<1>2. ASSUME RecoveryInv, [MCNext]_<<part, agentVars, recoveryVars, crashVars>>
      PROVE  RecoveryInv' /\ (log' # log => Living) /\ Wins
  BY <1>2, RecoveryBounds, RecoveryNext, WritesByTheLiving, NothingAfterAbort DEF MCNext
<1>3. MCSpec => [][log' # log => Living]_log /\ [][Wins]_Recovery!vars
  BY <1>1, <1>2, PTL DEF MCSpec
<1>4. MCSpec => Spec
  <2>1. MCInit => Init
    BY DEF MCInit
  <2>2. [MCNext]_<<part, agentVars, recoveryVars, crashVars>> => [Next]_vars
    BY DEF MCNext, agentVars
  <2> QED
    BY <2>1, <2>2, PTL DEF MCSpec, Spec
<1> QED
  BY <1>3, <1>4, AgentStepsHold
  DEF TurnSteps, Recovery!RecoverySteps, Recovery!SilentAfterDispose, Recovery!AbortWins

--------------------------------------------------------------------------------
(* What a crash leaves of the turns.  First what the model sees of a log,     *)
(* then the events that may follow one, the repair of a prefix, and the steps *)
(* of the driver, its calls, the crashes and the resumption.                  *)

Kinds == {"turn/start", "turn/end", "step/start", "step/end", "user/message", "assistant/message",
          "tool/call", "tool/result", "session/end-seed"}
Codes == {"none", "settled", "TOOL_NOT_STARTED", "TOOL_OUTCOME_UNKNOWN"}
Events == [kind : Kinds, turn : Nat, step : Nat, calls : Seq(Nat \ {0}), call : Nat,
           code : Codes, cites : Nat]
Traces == [ok : BOOLEAN, openTurn : Nat, openStep : Nat, nextTurn : Nat \ {0},
           nextStep : Nat \ {0}, pending : SUBSET Nat]
Waiting == [call : Nat \ {0}, step : Nat, seq : Nat]
Opens == [turn : Nat, step : Nat, pending : Seq(Waiting)]

(* Where a repair finds the log open is where its relations see it open, and *)
(* the calls recorded without a result are the same.                         *)
Agree(t, r) ==
  /\ t.ok /\ r.turn = t.openTurn /\ r.step = t.openStep
  /\ r.turn # 0 => r.turn = t.nextTurn
  /\ r.step # 0 => r.turn # 0 /\ r.step = t.nextStep
  /\ r.step = 0 => r.pending = <<>>
  /\ \A i, j \in 1 .. Len(r.pending) : r.pending[i].call = r.pending[j].call => i = j
  /\ \A k \in 1 .. Len(r.pending) : r.pending[k].step = r.step
  /\ t.pending = {r.pending[k].call : k \in {k \in 1 .. Len(r.pending) : r.pending[k].seq # 0}}

(* The calls of an answer are followed by their results; those whose result *)
(* is not there yet are pending, in the order of the calls.                  *)
Paired(s, r, m) ==
  /\ \A n \in 1 .. Len(m) : m[n].kind = "assistant/message" =>
       \A k \in 1 .. Len(m[n].calls) :
         IF n + k <= Len(m)
           THEN m[n + k].kind = "tool/result" /\ m[n + k].call = m[n].calls[k]
           ELSE /\ n + k - Len(m) <= Len(r.pending)
                /\ r.pending[n + k - Len(m)].call = m[n].calls[k]
  /\ \A i, j \in 1 .. Len(m) :
       m[i].kind = "tool/result" /\ m[j].kind = "tool/result" /\ m[i].call = m[j].call => i = j
  /\ \A i \in 1 .. Len(m) : \E n \in 1 .. Len(s) : m[i] = s[n]

Called(s, c) == \E n \in 1 .. Len(s) : s[n].kind = "tool/call" /\ s[n].call = c
Replied(s, c) == \E n \in 1 .. Len(s) : s[n].kind = "tool/result" /\ s[n].call = c
Asked(s, c) == \E n \in 1 .. Len(s) : \E j \in 1 .. Len(s[n].calls) : s[n].calls[j] = c

(* What is pending was asked for and has no result; it has a record of its   *)
(* start if the scan found one, and nothing else is said not to have started. *)
Recorded(s, r) ==
  /\ \A k \in 1 .. Len(r.pending) :
       /\ r.pending[k].seq # 0 <=> Called(s, r.pending[k].call)
       /\ Asked(s, r.pending[k].call) /\ ~Replied(s, r.pending[k].call)
  /\ \A n \in 1 .. Len(s) :
       s[n].kind = "tool/result" /\ s[n].code = "TOOL_NOT_STARTED" => ~Called(s, s[n].call)

TurnsCount(s, t) == Crash!LastTurn(s) = IF t.openTurn = 0 THEN t.nextTurn - 1 ELSE t.nextTurn

Good(s) ==
  /\ s \in Seq(Events) /\ Crash!TraceOf(s) \in Traces /\ Crash!OpenAt(s) \in Opens
  /\ Crash!Transcript(s) \in Seq(Events)
  /\ Agree(Crash!TraceOf(s), Crash!OpenAt(s))
  /\ Paired(s, Crash!OpenAt(s), Crash!Transcript(s))
  /\ Recorded(s, Crash!OpenAt(s))
  /\ TurnsCount(s, Crash!TraceOf(s))

(* What may be written behind s. *)
InOpenStep(e, r) == r.turn = e.turn /\ r.step = e.step /\ e.step # 0

Allowed(t, r, e) ==
  \/ e.kind = "turn/start" /\ r.turn = 0 /\ e.turn = t.nextTurn
  \/ e.kind = "turn/end" /\ r.turn = e.turn /\ e.turn # 0 /\ r.step = 0
  \/ e.kind = "step/start" /\ r.turn = e.turn /\ e.turn # 0 /\ r.step = 0 /\ e.step = t.nextStep
  \/ e.kind = "step/end" /\ InOpenStep(e, r) /\ r.pending = <<>>
  \/ e.kind = "user/message" /\ r.pending = <<>>
  \/ /\ e.kind = "assistant/message" /\ InOpenStep(e, r) /\ r.pending = <<>>
     /\ \A i, j \in 1 .. Len(e.calls) : e.calls[i] = e.calls[j] => i = j
  \/ /\ e.kind = "tool/call" /\ InOpenStep(e, r)
     /\ \E k \in 1 .. Len(r.pending) : r.pending[k].call = e.call
  \/ /\ e.kind = "tool/result" /\ InOpenStep(e, r)
     /\ r.pending # <<>> /\ r.pending[1].call = e.call
     /\ r.pending[1].seq = 0 <=> e.code = "TOOL_NOT_STARTED"
  \/ e.kind = "session/end-seed"

Follows(s, e) ==
  /\ e \in Events /\ Allowed(Crash!TraceOf(s), Crash!OpenAt(s), e)
  /\ e.kind # "assistant/message" => e.calls = <<>>
  /\ \A i \in 1 .. Len(e.calls) : \A n \in 1 .. Len(s) : s[n].call # e.calls[i]

Wholly(s) == \A n \in 0 .. Len(s) : Good(SubSeq(s, 1, n))

(* Where the driver stands is where the log is open. *)
Standing ==
  LET r == Crash!OpenAt(cLog)
      t == Crash!TraceOf(cLog)
  IN
  /\ cPc = "idle" => r.turn = 0 /\ t.nextTurn = cTurn + 1
  /\ cPc \notin {"idle", "cold"} => r.turn = cTurn /\ cTurn # 0
  /\ cPc \in {"prestep", "turnend"} => r.step = 0
  /\ cPc = "prestep" => t.nextStep = cStep + 1
  /\ cPc \in {"step", "answer", "tools", "stepend", "stepfail"} => r.step = cStep /\ cStep # 0
  /\ cPc \in {"step", "answer", "stepend", "stepfail"} => r.pending = <<>>
  /\ cPc = "step" => awaited = Len(cLog)
  /\ cPc = "answer" => seen = cLog /\ durable = Len(cLog)

(* The calls without a result are pending in their order, and those that     *)
(* were started are recorded.                                                *)
Working ==
  LET r == Crash!OpenAt(cLog) IN
  cPc = "tools" =>
    /\ \E d \in 0 .. Len(calls) :
         /\ \A i \in Crash!Index : phase[i] = "done" <=> i <= d
         /\ Len(r.pending) = Len(calls) - d
         /\ \A k \in 1 .. Len(r.pending) :
              /\ r.pending[k].call = calls[d + k]
              /\ r.pending[k].seq # 0 <=> Crash!Started(d + k)
    /\ \A i \in Crash!Index : \A j \in 1 .. i - 1 : Crash!Started(i) => Crash!Started(j)
    /\ \A i \in Crash!Index : phase[i] = "flushing" =>
         \E n \in 1 .. goal[i] : cLog[n].kind = "tool/call" /\ cLog[n].call = calls[i]

(* A log names calls up to m and turns up to b. *)
Within(s, m, b) ==
  \A n \in 1 .. Len(s) :
    /\ s[n].call <= m /\ s[n].turn <= b
    /\ \A j \in 1 .. Len(s[n].calls) : s[n].calls[j] <= m

Longer(s, p) == Len(s) <= Len(p) /\ \A n \in 1 .. Len(s) : p[n] = s[n]

(* Calls that are named were made, and turns are within the bound. *)
Made == Within(cLog, minted, cSetup.turns) /\ \A i \in Crash!Index : calls[i] <= minted

(* The call of a body that was entered is stored. *)
Entered == \A c \in ran : \E n \in 1 .. durable : cLog[n].kind = "tool/call" /\ cLog[n].call = c

CrashTyped ==
  /\ Crash!TypeOK
  /\ cLog \in Seq(Events) /\ calls \in Seq(Nat \ {0}) /\ phase \in Seq(Crash!Phases)
  /\ goal \in Seq(Nat)

CrashInv == CrashTyped /\ Wholly(cLog) /\ Standing /\ Working /\ Made /\ Entered

(* A message is heard, other events are not. *)
Heard(m, e) == IF Crash!Said(e) THEN Append(m, e) ELSE m

LEMMA Smallest ==
  ASSUME NEW S \in SUBSET Nat, S # {}
  PROVE  \E x \in S : \A y \in S : x <= y
<1>1. \E x \in S : \A y \in S : ~ (<<y, x>> \in OpToRel(<, Nat))
  BY NatLessThanWellFounded, WFMin
<1>2. PICK x \in S : \A y \in S : ~ (<<y, x>> \in OpToRel(<, Nat))
  BY <1>1
<1>3. \A y \in S : ~ (y < x)
  BY <1>2 DEF OpToRel
<1> QED
  BY <1>3

(* The relations after each of the first n events of q. *)
Tracing(g, q, n) == g = [i \in 0 .. n |-> IF i = 0 THEN Crash!FreshTrace ELSE Crash!Advance(g[i - 1], q[i])]

LEMMA TracingExists ==
  ASSUME NEW q
  PROVE  \A n \in Nat : \E g : Tracing(g, q, n)
<1> DEFINE Off == {n \in Nat : ~ \E g : Tracing(g, q, n)}
<1> SUFFICES ASSUME Off # {} PROVE FALSE
  OBVIOUS
<1>1. PICK n \in Off : \A m \in Off : n <= m
  <2>1. Off \in SUBSET Nat
    OBVIOUS
  <2> HIDE DEF Off
  <2> QED BY <2>1, Smallest
<1>2. CASE n = 0
  <2> DEFINE g == [i \in 0 .. 0 |-> Crash!FreshTrace]
  <2>1. Tracing(g, q, 0)
    <3>1. \A i \in 0 .. 0 : i = 0
      OBVIOUS
    <3> QED BY <3>1, Zenon DEF Tracing
  <2> QED BY <1>2, <2>1
<1>3. CASE n > 0
  <2>1. n - 1 \in Nat /\ n \in Nat /\ ~(n <= n - 1)
    BY <1>3
  <2>2. PICK g : Tracing(g, q, n - 1)
    BY <1>1, <2>1
  <2> DEFINE h == [i \in 0 .. n |-> IF i < n THEN g[i] ELSE Crash!Advance(g[n - 1], q[n])]
  <2>3. ASSUME NEW i \in 0 .. n
        PROVE  h[i] = IF i = 0 THEN Crash!FreshTrace ELSE Crash!Advance(h[i - 1], q[i])
    <3>1. CASE i = n
      <4>1. i # 0 /\ h[i - 1] = g[n - 1]
        BY <2>1, <3>1
      <4>2. h[i] = Crash!Advance(g[n - 1], q[n])
        BY <2>1, <3>1
      <4> HIDE DEF h
      <4> QED BY <3>1, <4>1, <4>2
    <3>2. CASE i < n
      <4>1. i \in 0 .. n - 1
        BY <2>1, <3>2
      <4>2. g[i] = IF i = 0 THEN Crash!FreshTrace ELSE Crash!Advance(g[i - 1], q[i])
        BY <2>2, <4>1, Zenon DEF Tracing
      <4>3. h[i] = g[i] /\ (i # 0 => h[i - 1] = g[i - 1])
        BY <2>1, <3>2
      <4> HIDE DEF h
      <4> QED BY <4>2, <4>3
    <3> QED BY <2>1, <3>1, <3>2
  <2>4. Tracing(h, q, n)
    BY <2>3, Zenon DEF Tracing
  <2> QED BY <2>4
<1> QED BY <1>2, <1>3

LEMMA TracingAgree ==
  ASSUME NEW n \in Nat, NEW m \in Nat, NEW k \in Nat, k <= n, k <= m, NEW q, NEW p,
         \A i \in 1 .. k : q[i] = p[i], NEW g, NEW h, Tracing(g, q, n), Tracing(h, p, m)
  PROVE  g[k] = h[k]
<1> DEFINE Off == {i \in 0 .. k : g[i] # h[i]}
<1> SUFFICES ASSUME Off # {} PROVE FALSE
  OBVIOUS
<1>1. PICK i \in Off : \A j \in Off : i <= j
  <2>1. Off \in SUBSET Nat
    OBVIOUS
  <2> HIDE DEF Off
  <2> QED BY <2>1, Smallest
<1>2. i \in 0 .. n /\ i \in 0 .. m /\ (i # 0 => q[i] = p[i]) /\ ~(i <= i - 1)
  OBVIOUS
<1>3. g[i] = (IF i = 0 THEN Crash!FreshTrace ELSE Crash!Advance(g[i - 1], q[i]))
        /\ h[i] = (IF i = 0 THEN Crash!FreshTrace ELSE Crash!Advance(h[i - 1], p[i]))
  BY <1>2, Zenon DEF Tracing
<1>4. i # 0 => g[i - 1] = h[i - 1]
  BY <1>1, <1>2
<1> QED BY <1>2, <1>3, <1>4

LEMMA TracingFits ==
  ASSUME NEW q, Len(q) \in Nat
  PROVE  \E g : Tracing(g, q, Len(q)) /\ Crash!TraceOf(q) = g[Len(q)]
<1>1. PICK f : f = CHOOSE g : Tracing(g, q, Len(q))
  OBVIOUS
<1>2. Tracing(f, q, Len(q))
  <2>1. \E g : Tracing(g, q, Len(q))
    BY TracingExists
  <2> QED BY <1>1, <2>1, Zenon
<1>3. Crash!TraceOf(q) = f[Len(q)]
  BY <1>1 DEF Crash!TraceOf, Tracing
<1> QED BY <1>2, <1>3

LEMMA TraceOfNothing == Crash!TraceOf(<<>>) = Crash!FreshTrace
<1>1. Len(<<>>) = 0
  OBVIOUS
<1>2. PICK g : Tracing(g, <<>>, 0) /\ Crash!TraceOf(<<>>) = g[0]
  BY <1>1, TracingFits
<1>3. 0 \in 0 .. 0
  OBVIOUS
<1> QED BY <1>2, <1>3, Zenon DEF Tracing

LEMMA TraceOfAppend ==
  ASSUME NEW s \in Seq(Events), NEW e \in Events
  PROVE  Crash!TraceOf(Append(s, e)) = Crash!Advance(Crash!TraceOf(s), e)
<1> DEFINE p == Append(s, e)
<1>1. /\ Len(s) \in Nat /\ Len(p) = Len(s) + 1 /\ p[Len(s) + 1] = e
      /\ \A i \in 1 .. Len(s) : s[i] = p[i]
  BY AppendProperties, LenProperties
<1> HIDE DEF p
<1>2. PICK n \in Nat : n = Len(s)
  BY <1>1
<1>3. PICK g : Tracing(g, s, n) /\ Crash!TraceOf(s) = g[n]
  BY <1>2, TracingFits
<1>4. n + 1 \in Nat /\ Len(p) = n + 1
  BY <1>1, <1>2
<1>5. PICK h : Tracing(h, p, n + 1) /\ Crash!TraceOf(p) = h[n + 1]
  BY <1>4, TracingFits
<1>6. g[n] = h[n]
  <2>1. n <= n /\ n <= n + 1 /\ \A i \in 1 .. n : s[i] = p[i]
    BY <1>1, <1>2
  <2> QED BY <1>3, <1>4, <1>5, <2>1, TracingAgree
<1>7. PICK k \in Nat \ {0} : k = n + 1
  OBVIOUS
<1>8. h[k] = Crash!Advance(h[k - 1], p[k])
  <2>1. k \in 0 .. k /\ k # 0 /\ Tracing(h, p, k)
    BY <1>5, <1>7
  <2> QED BY <2>1, Zenon DEF Tracing
<1>9. k - 1 = n
  BY <1>7
<1> QED BY <1>1, <1>2, <1>3, <1>5, <1>6, <1>7, <1>8, <1>9 DEF p

(* What a scan of q finds open after each of its first n events. *)
Scanning(g, q, n) == g = [i \in 0 .. n |-> IF i = 0 THEN Crash!NothingOpen ELSE Crash!Scan(g[i - 1], i, q[i])]

LEMMA ScanningExists ==
  ASSUME NEW q
  PROVE  \A n \in Nat : \E g : Scanning(g, q, n)
<1> DEFINE Off == {n \in Nat : ~ \E g : Scanning(g, q, n)}
<1> SUFFICES ASSUME Off # {} PROVE FALSE
  OBVIOUS
<1>1. PICK n \in Off : \A m \in Off : n <= m
  <2>1. Off \in SUBSET Nat
    OBVIOUS
  <2> HIDE DEF Off
  <2> QED BY <2>1, Smallest
<1>2. CASE n = 0
  <2> DEFINE g == [i \in 0 .. 0 |-> Crash!NothingOpen]
  <2>1. Scanning(g, q, 0)
    <3>1. \A i \in 0 .. 0 : i = 0
      OBVIOUS
    <3> QED BY <3>1, Zenon DEF Scanning
  <2> QED BY <1>2, <2>1
<1>3. CASE n > 0
  <2>1. n - 1 \in Nat /\ n \in Nat /\ ~(n <= n - 1)
    BY <1>3
  <2>2. PICK g : Scanning(g, q, n - 1)
    BY <1>1, <2>1
  <2> DEFINE h == [i \in 0 .. n |-> IF i < n THEN g[i] ELSE Crash!Scan(g[n - 1], n, q[n])]
  <2>3. ASSUME NEW i \in 0 .. n
        PROVE  h[i] = IF i = 0 THEN Crash!NothingOpen ELSE Crash!Scan(h[i - 1], i, q[i])
    <3>1. CASE i = n
      <4>1. i # 0 /\ h[i - 1] = g[n - 1]
        BY <2>1, <3>1
      <4>2. h[i] = Crash!Scan(g[n - 1], n, q[n])
        BY <2>1, <3>1
      <4> HIDE DEF h
      <4> QED BY <3>1, <4>1, <4>2
    <3>2. CASE i < n
      <4>1. i \in 0 .. n - 1
        BY <2>1, <3>2
      <4>2. g[i] = IF i = 0 THEN Crash!NothingOpen ELSE Crash!Scan(g[i - 1], i, q[i])
        BY <2>2, <4>1, Zenon DEF Scanning
      <4>3. h[i] = g[i] /\ (i # 0 => h[i - 1] = g[i - 1])
        BY <2>1, <3>2
      <4> HIDE DEF h
      <4> QED BY <4>2, <4>3
    <3> QED BY <2>1, <3>1, <3>2
  <2>4. Scanning(h, q, n)
    BY <2>3, Zenon DEF Scanning
  <2> QED BY <2>4
<1> QED BY <1>2, <1>3

LEMMA ScanningAgree ==
  ASSUME NEW n \in Nat, NEW m \in Nat, NEW k \in Nat, k <= n, k <= m, NEW q, NEW p,
         \A i \in 1 .. k : q[i] = p[i], NEW g, NEW h, Scanning(g, q, n), Scanning(h, p, m)
  PROVE  g[k] = h[k]
<1> DEFINE Off == {i \in 0 .. k : g[i] # h[i]}
<1> SUFFICES ASSUME Off # {} PROVE FALSE
  OBVIOUS
<1>1. PICK i \in Off : \A j \in Off : i <= j
  <2>1. Off \in SUBSET Nat
    OBVIOUS
  <2> HIDE DEF Off
  <2> QED BY <2>1, Smallest
<1>2. i \in 0 .. n /\ i \in 0 .. m /\ (i # 0 => q[i] = p[i]) /\ ~(i <= i - 1)
  OBVIOUS
<1>3. g[i] = (IF i = 0 THEN Crash!NothingOpen ELSE Crash!Scan(g[i - 1], i, q[i]))
        /\ h[i] = (IF i = 0 THEN Crash!NothingOpen ELSE Crash!Scan(h[i - 1], i, p[i]))
  BY <1>2, Zenon DEF Scanning
<1>4. i # 0 => g[i - 1] = h[i - 1]
  BY <1>1, <1>2
<1> QED BY <1>2, <1>3, <1>4

LEMMA ScanningFits ==
  ASSUME NEW q, Len(q) \in Nat
  PROVE  \E g : Scanning(g, q, Len(q)) /\ Crash!OpenAt(q) = g[Len(q)]
<1>1. PICK f : f = CHOOSE g : Scanning(g, q, Len(q))
  OBVIOUS
<1>2. Scanning(f, q, Len(q))
  <2>1. \E g : Scanning(g, q, Len(q))
    BY ScanningExists
  <2> QED BY <1>1, <2>1, Zenon
<1>3. Crash!OpenAt(q) = f[Len(q)]
  BY <1>1 DEF Crash!OpenAt, Scanning
<1> QED BY <1>2, <1>3

LEMMA OpenAtNothing == Crash!OpenAt(<<>>) = Crash!NothingOpen
<1>1. Len(<<>>) = 0
  OBVIOUS
<1>2. PICK g : Scanning(g, <<>>, 0) /\ Crash!OpenAt(<<>>) = g[0]
  BY <1>1, ScanningFits
<1>3. 0 \in 0 .. 0
  OBVIOUS
<1> QED BY <1>2, <1>3, Zenon DEF Scanning

LEMMA OpenAtAppend ==
  ASSUME NEW s \in Seq(Events), NEW e \in Events
  PROVE  Crash!OpenAt(Append(s, e)) = Crash!Scan(Crash!OpenAt(s), Len(s) + 1, e)
<1> DEFINE p == Append(s, e)
<1>1. /\ Len(s) \in Nat /\ Len(p) = Len(s) + 1 /\ p[Len(s) + 1] = e
      /\ \A i \in 1 .. Len(s) : s[i] = p[i]
  BY AppendProperties, LenProperties
<1> HIDE DEF p
<1>2. PICK n \in Nat : n = Len(s)
  BY <1>1
<1>3. PICK g : Scanning(g, s, n) /\ Crash!OpenAt(s) = g[n]
  BY <1>2, ScanningFits
<1>4. n + 1 \in Nat /\ Len(p) = n + 1
  BY <1>1, <1>2
<1>5. PICK h : Scanning(h, p, n + 1) /\ Crash!OpenAt(p) = h[n + 1]
  BY <1>4, ScanningFits
<1>6. g[n] = h[n]
  <2>1. n <= n /\ n <= n + 1 /\ \A i \in 1 .. n : s[i] = p[i]
    BY <1>1, <1>2
  <2> QED BY <1>3, <1>4, <1>5, <2>1, ScanningAgree
<1>7. PICK k \in Nat \ {0} : k = n + 1
  OBVIOUS
<1>8. h[k] = Crash!Scan(h[k - 1], k, p[k])
  <2>1. k \in 0 .. k /\ k # 0 /\ Scanning(h, p, k)
    BY <1>5, <1>7
  <2> QED BY <2>1, Zenon DEF Scanning
<1>9. k - 1 = n
  BY <1>7
<1> QED BY <1>1, <1>2, <1>3, <1>5, <1>6, <1>7, <1>8, <1>9 DEF p

(* The messages among the first n events of q. *)
Telling(g, q, n) == g = [i \in 0 .. n |-> IF i = 0 THEN <<>> ELSE Heard(g[i - 1], q[i])]

LEMMA TellingExists ==
  ASSUME NEW q
  PROVE  \A n \in Nat : \E g : Telling(g, q, n)
<1> DEFINE Off == {n \in Nat : ~ \E g : Telling(g, q, n)}
<1> SUFFICES ASSUME Off # {} PROVE FALSE
  OBVIOUS
<1>1. PICK n \in Off : \A m \in Off : n <= m
  <2>1. Off \in SUBSET Nat
    OBVIOUS
  <2> HIDE DEF Off
  <2> QED BY <2>1, Smallest
<1>2. CASE n = 0
  <2> DEFINE g == [i \in 0 .. 0 |-> <<>>]
  <2>1. Telling(g, q, 0)
    <3>1. \A i \in 0 .. 0 : i = 0
      OBVIOUS
    <3> QED BY <3>1, Zenon DEF Telling
  <2> QED BY <1>2, <2>1
<1>3. CASE n > 0
  <2>1. n - 1 \in Nat /\ n \in Nat /\ ~(n <= n - 1)
    BY <1>3
  <2>2. PICK g : Telling(g, q, n - 1)
    BY <1>1, <2>1
  <2> DEFINE h == [i \in 0 .. n |-> IF i < n THEN g[i] ELSE Heard(g[n - 1], q[n])]
  <2>3. ASSUME NEW i \in 0 .. n
        PROVE  h[i] = IF i = 0 THEN <<>> ELSE Heard(h[i - 1], q[i])
    <3>1. CASE i = n
      <4>1. i # 0 /\ h[i - 1] = g[n - 1]
        BY <2>1, <3>1
      <4>2. h[i] = Heard(g[n - 1], q[n])
        BY <2>1, <3>1
      <4> HIDE DEF h
      <4> QED BY <3>1, <4>1, <4>2
    <3>2. CASE i < n
      <4>1. i \in 0 .. n - 1
        BY <2>1, <3>2
      <4>2. g[i] = IF i = 0 THEN <<>> ELSE Heard(g[i - 1], q[i])
        BY <2>2, <4>1, Zenon DEF Telling
      <4>3. h[i] = g[i] /\ (i # 0 => h[i - 1] = g[i - 1])
        BY <2>1, <3>2
      <4> HIDE DEF h
      <4> QED BY <4>2, <4>3
    <3> QED BY <2>1, <3>1, <3>2
  <2>4. Telling(h, q, n)
    BY <2>3, Zenon DEF Telling
  <2> QED BY <2>4
<1> QED BY <1>2, <1>3

LEMMA TellingAgree ==
  ASSUME NEW n \in Nat, NEW m \in Nat, NEW k \in Nat, k <= n, k <= m, NEW q, NEW p,
         \A i \in 1 .. k : q[i] = p[i], NEW g, NEW h, Telling(g, q, n), Telling(h, p, m)
  PROVE  g[k] = h[k]
<1> DEFINE Off == {i \in 0 .. k : g[i] # h[i]}
<1> SUFFICES ASSUME Off # {} PROVE FALSE
  OBVIOUS
<1>1. PICK i \in Off : \A j \in Off : i <= j
  <2>1. Off \in SUBSET Nat
    OBVIOUS
  <2> HIDE DEF Off
  <2> QED BY <2>1, Smallest
<1>2. i \in 0 .. n /\ i \in 0 .. m /\ (i # 0 => q[i] = p[i]) /\ ~(i <= i - 1)
  OBVIOUS
<1>3. g[i] = (IF i = 0 THEN <<>> ELSE Heard(g[i - 1], q[i]))
        /\ h[i] = (IF i = 0 THEN <<>> ELSE Heard(h[i - 1], p[i]))
  BY <1>2, Zenon DEF Telling
<1>4. i # 0 => g[i - 1] = h[i - 1]
  BY <1>1, <1>2
<1> QED BY <1>2, <1>3, <1>4

LEMMA TellingFits ==
  ASSUME NEW q, Len(q) \in Nat
  PROVE  \E g : Telling(g, q, Len(q)) /\ Crash!Transcript(q) = g[Len(q)]
<1>1. PICK f : f = CHOOSE g : Telling(g, q, Len(q))
  OBVIOUS
<1>2. Telling(f, q, Len(q))
  <2>1. \E g : Telling(g, q, Len(q))
    BY TellingExists
  <2> QED BY <1>1, <2>1, Zenon
<1>3. Crash!Transcript(q) = f[Len(q)]
  BY <1>1 DEF Crash!Transcript, Telling, Heard
<1> QED BY <1>2, <1>3

LEMMA MessagesNothing == Crash!Transcript(<<>>) = <<>>
<1>1. Len(<<>>) = 0
  OBVIOUS
<1>2. PICK g : Telling(g, <<>>, 0) /\ Crash!Transcript(<<>>) = g[0]
  BY <1>1, TellingFits
<1>3. 0 \in 0 .. 0
  OBVIOUS
<1> QED BY <1>2, <1>3, Zenon DEF Telling

LEMMA MessagesAppend ==
  ASSUME NEW s \in Seq(Events), NEW e \in Events
  PROVE  Crash!Transcript(Append(s, e)) = Heard(Crash!Transcript(s), e)
<1> DEFINE p == Append(s, e)
<1>1. /\ Len(s) \in Nat /\ Len(p) = Len(s) + 1 /\ p[Len(s) + 1] = e
      /\ \A i \in 1 .. Len(s) : s[i] = p[i]
  BY AppendProperties, LenProperties
<1> HIDE DEF p
<1>2. PICK n \in Nat : n = Len(s)
  BY <1>1
<1>3. PICK g : Telling(g, s, n) /\ Crash!Transcript(s) = g[n]
  BY <1>2, TellingFits
<1>4. n + 1 \in Nat /\ Len(p) = n + 1
  BY <1>1, <1>2
<1>5. PICK h : Telling(h, p, n + 1) /\ Crash!Transcript(p) = h[n + 1]
  BY <1>4, TellingFits
<1>6. g[n] = h[n]
  <2>1. n <= n /\ n <= n + 1 /\ \A i \in 1 .. n : s[i] = p[i]
    BY <1>1, <1>2
  <2> QED BY <1>3, <1>4, <1>5, <2>1, TellingAgree
<1>7. PICK k \in Nat \ {0} : k = n + 1
  OBVIOUS
<1>8. h[k] = Heard(h[k - 1], p[k])
  <2>1. k \in 0 .. k /\ k # 0 /\ Telling(h, p, k)
    BY <1>5, <1>7
  <2> QED BY <2>1, Zenon DEF Telling
<1>9. k - 1 = n
  BY <1>7
<1> QED BY <1>1, <1>2, <1>3, <1>5, <1>6, <1>7, <1>8, <1>9 DEF p


LEMMA WithoutFirst ==
  ASSUME NEW q \in Seq(Waiting), q # <<>>,
         \A i, j \in 1 .. Len(q) : q[i].call = q[j].call => i = j
  PROVE  /\ Crash!Without(q, q[1].call) \in Seq(Waiting)
         /\ Len(Crash!Without(q, q[1].call)) = Len(q) - 1
         /\ \A k \in 1 .. Len(q) - 1 : Crash!Without(q, q[1].call)[k] = q[k + 1]
<1>1. Len(q) \in Nat \ {0}
  BY EmptySeq
<1>2. {k \in 1 .. Len(q) : q[k].call = q[1].call} = {1}
  BY <1>1
<1>3. (CHOOSE k \in {1} : TRUE) = 1
  OBVIOUS
<1>4. Crash!Without(q, q[1].call) = Crash!RemoveAt(q, 1)
  BY <1>2, <1>3, Zenon DEF Crash!Without
<1>5. SubSeq(q, 1, 0) = <<>>
  BY SubSeqEmpty
<1>6. /\ SubSeq(q, 2, Len(q)) \in Seq(Waiting) /\ Len(SubSeq(q, 2, Len(q))) = Len(q) - 1
      /\ \A k \in 1 .. Len(q) - 1 : SubSeq(q, 2, Len(q))[k] = q[k + 1]
  <2>1. \A i \in 2 .. Len(q) : q[i] \in Waiting
    BY <1>1, ElementOfSeq
  <2>2. 2 \in Int /\ Len(q) \in Int
    BY <1>1
  <2>3. SubSeq(q, 2, Len(q)) \in Seq(Waiting)
        /\ Len(SubSeq(q, 2, Len(q))) = (IF 2 <= Len(q) THEN Len(q) - 2 + 1 ELSE 0)
        /\ \A k \in 1 .. Len(q) - 2 + 1 : SubSeq(q, 2, Len(q))[k] = q[2 + k - 1]
    BY <2>1, <2>2, SubSeqProperties
  <2>4. PICK n \in Nat \ {0} : n = Len(q)
    BY <1>1
  <2>5. n - 2 + 1 = n - 1 /\ (~(2 <= n) => n - 1 = 0) /\ \A k \in 1 .. n - 1 : 2 + k - 1 = k + 1
    OBVIOUS
  <2>6. Len(SubSeq(q, 2, Len(q))) = n - 1
    BY <2>3, <2>4, <2>5
  <2>7. \A k \in 1 .. n - 1 : SubSeq(q, 2, Len(q))[k] = q[k + 1]
    BY <2>3, <2>4, <2>5
  <2> QED BY <2>3, <2>4, <2>6, <2>7
<1>7. Crash!RemoveAt(q, 1) = SubSeq(q, 2, Len(q))
  BY <1>5, <1>6, ConcatEmptySeq DEF Crash!RemoveAt
<1> QED BY <1>4, <1>6, <1>7

(* What a scan makes of one more event. *)
LEMMA ScanOfCall ==
  ASSUME NEW r \in Opens, NEW e \in Events, e.kind = "tool/call", NEW i \in Nat \ {0}
  PROVE  /\ Crash!Scan(r, i, e) \in Opens /\ Crash!Scan(r, i, e).turn = r.turn
         /\ Crash!Scan(r, i, e).step = r.step
         /\ Len(Crash!Scan(r, i, e).pending) = Len(r.pending)
         /\ \A k \in 1 .. Len(r.pending) :
              /\ Crash!Scan(r, i, e).pending[k].call = r.pending[k].call
              /\ Crash!Scan(r, i, e).pending[k].step = r.pending[k].step
              /\ Crash!Scan(r, i, e).pending[k].seq = IF r.pending[k].call = e.call THEN i ELSE r.pending[k].seq
<1> DEFINE p == r.pending
           q == [k \in 1 .. Len(p) |-> IF p[k].call = e.call THEN [p[k] EXCEPT !.seq = i] ELSE p[k]]
<1>1. p \in Seq(Waiting) /\ Len(p) \in Nat
  BY DEF Opens
<1>2. \A k \in 1 .. Len(p) : p[k] \in Waiting
  BY <1>1, ElementOfSeq
<1>3. \A k \in 1 .. Len(p) : q[k] \in Waiting
  BY <1>2 DEF Waiting
<1>4. q \in Seq(Waiting) /\ Len(q) = Len(p)
  <2>1. q \in [1 .. Len(p) -> Waiting]
    BY <1>3
  <2> HIDE DEF q
  <2> QED BY <1>1, <2>1
<1>5. Crash!Scan(r, i, e) = [r EXCEPT !.pending = q]
  BY DEF Crash!Scan
<1>6. \A k \in 1 .. Len(p) : /\ q[k].call = p[k].call /\ q[k].step = p[k].step
                             /\ q[k].seq = IF p[k].call = e.call THEN i ELSE p[k].seq
  BY <1>2 DEF Waiting
<1> HIDE DEF q
<1>7. Crash!Scan(r, i, e).pending = q /\ Crash!Scan(r, i, e) \in Opens
      /\ Crash!Scan(r, i, e).turn = r.turn /\ Crash!Scan(r, i, e).step = r.step
  BY <1>4, <1>5 DEF Opens
<1> QED BY <1>4, <1>6, <1>7

LEMMA ScanOfResult ==
  ASSUME NEW r \in Opens, NEW e \in Events, e.kind = "tool/result", NEW i \in Nat \ {0},
         r.pending # <<>>, r.pending[1].call = e.call,
         \A k, j \in 1 .. Len(r.pending) : r.pending[k].call = r.pending[j].call => k = j
  PROVE  /\ Crash!Scan(r, i, e) \in Opens /\ Crash!Scan(r, i, e).turn = r.turn
         /\ Crash!Scan(r, i, e).step = r.step
         /\ Len(Crash!Scan(r, i, e).pending) = Len(r.pending) - 1
         /\ \A k \in 1 .. Len(r.pending) - 1 : Crash!Scan(r, i, e).pending[k] = r.pending[k + 1]
<1> DEFINE q == Crash!Without(r.pending, e.call)
<1>1. r.pending \in Seq(Waiting)
  BY DEF Opens
<1>2. q \in Seq(Waiting) /\ Len(q) = Len(r.pending) - 1
      /\ \A k \in 1 .. Len(r.pending) - 1 : q[k] = r.pending[k + 1]
  BY <1>1, WithoutFirst
<1>3. Crash!Scan(r, i, e) = [r EXCEPT !.pending = q]
  BY DEF Crash!Scan
<1> HIDE DEF q
<1>4. Crash!Scan(r, i, e).pending = q /\ Crash!Scan(r, i, e) \in Opens
      /\ Crash!Scan(r, i, e).turn = r.turn /\ Crash!Scan(r, i, e).step = r.step
  BY <1>2, <1>3 DEF Opens
<1> QED BY <1>2, <1>4

LEMMA ScanOfAnswer ==
  ASSUME NEW r \in Opens, NEW e \in Events, e.kind = "assistant/message", NEW i \in Nat \ {0},
         r.pending = <<>>
  PROVE  /\ Crash!Scan(r, i, e) \in Opens /\ Crash!Scan(r, i, e).turn = r.turn
         /\ Crash!Scan(r, i, e).step = r.step
         /\ Len(Crash!Scan(r, i, e).pending) = Len(e.calls)
         /\ \A k \in 1 .. Len(e.calls) :
              Crash!Scan(r, i, e).pending[k] = [call |-> e.calls[k], step |-> e.step, seq |-> 0]
<1> DEFINE q == Crash!Unanswered(e)
<1>1. e.calls \in Seq(Nat \ {0}) /\ e.step \in Nat
  BY DEF Events
<1>2. Len(e.calls) \in Nat /\ \A k \in 1 .. Len(e.calls) : e.calls[k] \in Nat \ {0}
  BY <1>1, ElementOfSeq, LenProperties
<1>3. q = [k \in 1 .. Len(e.calls) |-> [call |-> e.calls[k], step |-> e.step, seq |-> 0]]
  BY DEF Crash!Unanswered
<1>4. \A k \in 1 .. Len(e.calls) : [call |-> e.calls[k], step |-> e.step, seq |-> 0] \in Waiting
  BY <1>1, <1>2 DEF Waiting
<1>5. q \in Seq(Waiting) /\ Len(q) = Len(e.calls)
      /\ \A k \in 1 .. Len(e.calls) : q[k] = [call |-> e.calls[k], step |-> e.step, seq |-> 0]
  BY <1>2, <1>3, <1>4
<1>6. Crash!Scan(r, i, e) = [r EXCEPT !.pending = r.pending \o q]
  BY DEF Crash!Scan
<1> HIDE DEF q
<1>7. r.pending \o q = q
  BY <1>5, ConcatEmptySeq
<1>8. Crash!Scan(r, i, e).pending = q /\ Crash!Scan(r, i, e) \in Opens
      /\ Crash!Scan(r, i, e).turn = r.turn /\ Crash!Scan(r, i, e).step = r.step
  BY <1>5, <1>6, <1>7 DEF Opens
<1> QED BY <1>5, <1>8

LEMMA ScanOfRest ==
  ASSUME NEW r \in Opens, NEW e \in Events, NEW i \in Nat \ {0}
  PROVE  /\ e.kind = "turn/start" => Crash!Scan(r, i, e) = [turn |-> e.turn, step |-> 0,
              pending |-> <<>>]
         /\ e.kind = "turn/end" => Crash!Scan(r, i, e) = [turn |-> 0, step |-> 0,
              pending |-> <<>>]
         /\ e.kind = "step/start" => Crash!Scan(r, i, e) = [turn |-> r.turn, step |-> e.step,
              pending |-> r.pending]
         /\ e.kind = "step/end" => Crash!Scan(r, i, e) = [turn |-> r.turn, step |-> 0,
              pending |-> <<>>]
         /\ e.kind \in {"user/message", "session/end-seed"} => Crash!Scan(r, i, e) = r
BY DEF Crash!Scan, Crash!NothingOpen, Opens

(* What the relations make of one more event. *)
LEMMA AdvanceIs ==
  ASSUME NEW t \in Traces, NEW e \in Events
  PROVE  LET n == Crash!Advance(t, e) IN
         /\ n.ok = (t.ok /\ Crash!Accepts(t, e))
         /\ e.kind = "turn/start" =>
              n = [ok |-> t.ok /\ Crash!Accepts(t, e), openTurn |-> e.turn,
                openStep |-> t.openStep,
                   nextTurn |-> t.nextTurn, nextStep |-> 1, pending |-> t.pending]
         /\ e.kind = "turn/end" =>
              n = [ok |-> t.ok /\ Crash!Accepts(t, e), openTurn |-> 0, openStep |-> t.openStep,
                   nextTurn |-> t.nextTurn + 1, nextStep |-> t.nextStep, pending |-> t.pending]
         /\ e.kind = "step/start" =>
              n = [ok |-> t.ok /\ Crash!Accepts(t, e), openTurn |-> t.openTurn,
                openStep |-> e.step,
                   nextTurn |-> t.nextTurn, nextStep |-> t.nextStep, pending |-> t.pending]
         /\ e.kind = "step/end" =>
              n = [ok |-> t.ok /\ Crash!Accepts(t, e), openTurn |-> t.openTurn, openStep |-> 0,
                   nextTurn |-> t.nextTurn, nextStep |-> t.nextStep + 1, pending |-> {}]
         /\ e.kind = "tool/call" =>
              n = [ok |-> t.ok /\ Crash!Accepts(t, e), openTurn |-> t.openTurn,
                openStep |-> t.openStep,
                   nextTurn |-> t.nextTurn, nextStep |-> t.nextStep,
                     pending |-> t.pending \cup {e.call}]
         /\ e.kind = "tool/result" =>
              n = [ok |-> t.ok /\ Crash!Accepts(t, e), openTurn |-> t.openTurn,
                openStep |-> t.openStep,
                   nextTurn |-> t.nextTurn, nextStep |-> t.nextStep,
                     pending |-> t.pending \ {e.call}]
         /\ e.kind \in {"user/message", "assistant/message", "session/end-seed"} =>
              n = [ok |-> t.ok /\ Crash!Accepts(t, e), openTurn |-> t.openTurn,
                openStep |-> t.openStep,
                   nextTurn |-> t.nextTurn, nextStep |-> t.nextStep, pending |-> t.pending]
<1>1. PICK b : b = (t.ok /\ Crash!Accepts(t, e))
  OBVIOUS
<1> QED BY <1>1 DEF Crash!Advance, Traces


(* The calls a scan has seen started. *)
Begun(p) == {p[k].call : k \in {k \in 1 .. Len(p) : p[k].seq # 0}}

LEMMA BegunIs ==
  ASSUME NEW p
  PROVE  \A c : c \in Begun(p) <=> \E k \in 1 .. Len(p) : p[k].call = c /\ p[k].seq # 0
BY DEF Begun

LEMMA AgreeIs ==
  ASSUME NEW t, NEW r
  PROVE  Agree(t, r) <=>
           /\ t.ok /\ r.turn = t.openTurn /\ r.step = t.openStep
           /\ r.turn # 0 => r.turn = t.nextTurn
           /\ r.step # 0 => r.turn # 0 /\ r.step = t.nextStep
           /\ r.step = 0 => r.pending = <<>>
           /\ \A i, j \in 1 .. Len(r.pending) : r.pending[i].call = r.pending[j].call => i = j
           /\ \A k \in 1 .. Len(r.pending) : r.pending[k].step = r.step
           /\ t.pending = Begun(r.pending)
BY Zenon DEF Agree, Begun

LEMMA BegunOfNothing == Begun(<<>>) = {}
<1>1. 1 .. Len(<<>>) = {}
  OBVIOUS
<1> QED BY <1>1 DEF Begun

LEMMA Pendings ==
  ASSUME NEW r \in Opens
  PROVE  /\ r.turn \in Nat /\ r.step \in Nat /\ r.pending \in Seq(Waiting)
         /\ Len(r.pending) \in Nat
         /\ \A k \in 1 .. Len(r.pending) :
              r.pending[k] \in Waiting /\ r.pending[k].call \in Nat \ {0} /\
                r.pending[k].seq \in Nat
         /\ r.pending # <<>> <=> Len(r.pending) # 0
<1>1. r.turn \in Nat /\ r.step \in Nat /\ r.pending \in Seq(Waiting)
  BY DEF Opens
<1>2. Len(r.pending) \in Nat /\ \A k \in 1 .. Len(r.pending) : r.pending[k] \in Waiting
  BY <1>1, ElementOfSeq, LenProperties
<1>3. \A w \in Waiting : w.call \in Nat \ {0} /\ w.seq \in Nat
  BY DEF Waiting
<1>4. r.pending # <<>> <=> Len(r.pending) # 0
  BY <1>1, EmptySeq
<1> QED BY <1>1, <1>2, <1>3, <1>4

LEMMA AgreeOnNothing ==
  ASSUME NEW t, NEW r, r.pending = <<>>, t.pending = {}, t.ok, r.turn = t.openTurn,
           r.step = t.openStep,
         r.turn # 0 => r.turn = t.nextTurn, r.step # 0 => r.turn # 0 /\ r.step = t.nextStep
  PROVE  Agree(t, r)
<1>1. 1 .. Len(<<>>) = {}
  OBVIOUS
<1>2. /\ \A k \in 1 .. Len(r.pending) : r.pending[k].step = r.step
      /\ \A i, j \in 1 .. Len(r.pending) : r.pending[i].call = r.pending[j].call => i = j
  BY <1>1
<1> QED BY <1>2, BegunOfNothing, AgreeIs

LEMMA AgreeGrows ==
  ASSUME NEW t \in Traces, NEW r \in Opens, NEW e \in Events, Agree(t, r), Allowed(t, r, e),
         NEW i \in Nat \ {0}
  PROVE  /\ Crash!Advance(t, e) \in Traces /\ Crash!Scan(r, i, e) \in Opens
         /\ Agree(Crash!Advance(t, e), Crash!Scan(r, i, e))
<1>1. PICK n : n = Crash!Advance(t, e)
  OBVIOUS
<1>2. PICK q : q = Crash!Scan(r, i, e)
  OBVIOUS
<1>3. /\ t.ok /\ r.turn = t.openTurn /\ r.step = t.openStep
      /\ r.turn # 0 => r.turn = t.nextTurn
      /\ r.step # 0 => r.turn # 0 /\ r.step = t.nextStep
      /\ r.step = 0 => r.pending = <<>>
      /\ \A k, j \in 1 .. Len(r.pending) : r.pending[k].call = r.pending[j].call => k = j
      /\ \A k \in 1 .. Len(r.pending) : r.pending[k].step = r.step
      /\ t.pending = Begun(r.pending)
  BY AgreeIs
<1>4. /\ t.ok \in BOOLEAN /\ t.openTurn \in Nat /\ t.openStep \in Nat
      /\ t.nextTurn \in Nat \ {0}
      /\ t.nextStep \in Nat \ {0} /\ t.pending \in SUBSET Nat
      /\ e.turn \in Nat /\ e.step \in Nat /\ e.call \in Nat
  BY DEF Traces, Events
<1>5. /\ r.turn \in Nat /\ r.step \in Nat /\ r.pending \in Seq(Waiting)
      /\ Len(r.pending) \in Nat
      /\ \A k \in 1 .. Len(r.pending) :
           r.pending[k] \in Waiting /\ r.pending[k].call \in Nat \ {0} /\ r.pending[k].seq \in Nat
      /\ r.pending # <<>> <=> Len(r.pending) # 0
  BY Pendings
<1>6. <<>> \in Seq(Waiting) /\ Len(<<>>) = 0 /\ Begun(<<>>) = {}
  BY BegunOfNothing, EmptySeq
<1>7. SUFFICES n \in Traces /\ q \in Opens /\ Agree(n, q)
  BY <1>1, <1>2
<1>8. CASE e.kind = "turn/start"
  <2>1. r.turn = 0 /\ e.turn = t.nextTurn
    BY <1>8 DEF Allowed
  <2>2. Crash!Accepts(t, e)
    BY <1>3, <1>8, <2>1 DEF Crash!Accepts
  <2>3. n = [ok |-> TRUE, openTurn |-> e.turn, openStep |-> t.openStep,
             nextTurn |-> t.nextTurn, nextStep |-> 1, pending |-> t.pending]
    BY <1>1, <1>3, <1>4, <1>8, <2>2, AdvanceIs
  <2>4. q = [turn |-> e.turn, step |-> 0, pending |-> <<>>]
    BY <1>2, <1>8, ScanOfRest
  <2>5. t.pending = {} /\ t.openStep = 0
    BY <1>3, <1>6, <2>1
  <2>6. n \in Traces /\ q \in Opens
    BY <1>4, <1>6, <2>3, <2>4 DEF Traces, Opens
  <2>7. Agree(n, q)
    BY <1>4, <2>1, <2>3, <2>4, <2>5, AgreeOnNothing
  <2> QED BY <2>6, <2>7
<1>9. CASE e.kind = "turn/end"
  <2>1. r.turn = e.turn /\ e.turn # 0 /\ r.step = 0
    BY <1>9 DEF Allowed
  <2>2. Crash!Accepts(t, e)
    BY <1>3, <1>9, <2>1 DEF Crash!Accepts
  <2>3. n = [ok |-> TRUE, openTurn |-> 0, openStep |-> t.openStep,
             nextTurn |-> t.nextTurn + 1, nextStep |-> t.nextStep, pending |-> t.pending]
    BY <1>1, <1>3, <1>4, <1>9, <2>2, AdvanceIs
  <2>4. q = [turn |-> 0, step |-> 0, pending |-> <<>>]
    BY <1>2, <1>9, ScanOfRest
  <2>5. t.pending = {} /\ t.openStep = 0
    BY <1>3, <1>6, <2>1
  <2>6. n \in Traces /\ q \in Opens
    BY <1>4, <1>6, <2>3, <2>4 DEF Traces, Opens
  <2>7. Agree(n, q)
    BY <2>3, <2>4, <2>5, AgreeOnNothing
  <2> QED BY <2>6, <2>7
<1>10. CASE e.kind = "step/start"
  <2>1. r.turn = e.turn /\ e.turn # 0 /\ r.step = 0 /\ e.step = t.nextStep
    BY <1>10 DEF Allowed
  <2>2. Crash!Accepts(t, e)
    BY <1>3, <1>10, <2>1 DEF Crash!Accepts
  <2>3. n = [ok |-> TRUE, openTurn |-> t.openTurn, openStep |-> e.step,
             nextTurn |-> t.nextTurn, nextStep |-> t.nextStep, pending |-> t.pending]
    BY <1>1, <1>3, <1>4, <1>10, <2>2, AdvanceIs
  <2>4. q = [turn |-> r.turn, step |-> e.step, pending |-> <<>>]
    BY <1>2, <1>3, <1>10, <2>1, ScanOfRest
  <2>5. t.pending = {}
    BY <1>3, <1>6, <2>1
  <2>6. n \in Traces /\ q \in Opens
    BY <1>4, <1>5, <1>6, <2>3, <2>4 DEF Traces, Opens
  <2>7. Agree(n, q)
    <3>1. n.ok /\ n.pending = {} /\ n.openTurn = r.turn /\ n.openStep = e.step /\ n.nextTurn = t.nextTurn
            /\ n.nextStep = t.nextStep
      BY <1>3, <2>3, <2>5
    <3>2. q.pending = <<>> /\ q.turn = r.turn /\ q.step = e.step
      BY <2>4
    <3>3. r.turn = t.nextTurn /\ r.turn # 0 /\ e.step = t.nextStep
      BY <1>3, <2>1
    <3>4. q.turn = n.openTurn /\ q.step = n.openStep /\ q.turn = n.nextTurn /\ q.turn # 0
            /\ q.step = n.nextStep
      BY <3>1, <3>2, <3>3
    <3> QED BY <3>1, <3>2, <3>4, AgreeOnNothing
  <2> QED BY <2>6, <2>7
<1>11. CASE e.kind = "step/end"
  <2>1. r.turn = e.turn /\ r.step = e.step /\ e.step # 0 /\ r.pending = <<>>
    BY <1>11 DEF Allowed, InOpenStep
  <2>2. Crash!Accepts(t, e)
    BY <1>3, <1>11, <2>1 DEF Crash!Accepts, Crash!InStep
  <2>3. n = [ok |-> TRUE, openTurn |-> t.openTurn, openStep |-> 0,
             nextTurn |-> t.nextTurn, nextStep |-> t.nextStep + 1, pending |-> {}]
    BY <1>1, <1>3, <1>4, <1>11, <2>2, AdvanceIs
  <2>4. q = [turn |-> r.turn, step |-> 0, pending |-> <<>>]
    BY <1>2, <1>11, ScanOfRest
  <2>5. n \in Traces /\ q \in Opens
    BY <1>4, <1>5, <1>6, <2>3, <2>4 DEF Traces, Opens
  <2>6. Agree(n, q)
    BY <1>3, <2>3, <2>4, AgreeOnNothing
  <2> QED BY <2>5, <2>6
<1>12. CASE e.kind \in {"user/message", "session/end-seed"}
  <2>1. Crash!Accepts(t, e)
    BY <1>12 DEF Crash!Accepts
  <2>2. n = [ok |-> TRUE, openTurn |-> t.openTurn, openStep |-> t.openStep,
             nextTurn |-> t.nextTurn, nextStep |-> t.nextStep, pending |-> t.pending]
    BY <1>1, <1>3, <1>4, <1>12, <2>1, AdvanceIs
  <2>3. n \in Traces /\ q = r
    BY <1>2, <1>4, <1>12, <2>2, ScanOfRest DEF Traces
  <2>4. Agree(n, q)
    BY <1>3, <2>2, <2>3, AgreeIs
  <2> QED BY <2>3, <2>4
<1>13. CASE e.kind = "assistant/message"
  <2>1. r.turn = e.turn /\ r.step = e.step /\ e.step # 0 /\ r.pending = <<>>
        /\ \A k, j \in 1 .. Len(e.calls) : e.calls[k] = e.calls[j] => k = j
    BY <1>13 DEF Allowed, InOpenStep
  <2>2. Crash!Accepts(t, e)
    BY <1>3, <1>13, <2>1 DEF Crash!Accepts, Crash!InStep
  <2>3. n = [ok |-> TRUE, openTurn |-> t.openTurn, openStep |-> t.openStep,
             nextTurn |-> t.nextTurn, nextStep |-> t.nextStep, pending |-> t.pending]
    BY <1>1, <1>3, <1>4, <1>13, <2>2, AdvanceIs
  <2>4. /\ q \in Opens /\ q.turn = r.turn /\ q.step = r.step /\ Len(q.pending) = Len(e.calls)
        /\ \A k \in 1 .. Len(q.pending) :
             q.pending[k] = [call |-> e.calls[k], step |-> e.step, seq |-> 0]
    BY <1>2, <1>13, <2>1, ScanOfAnswer
  <2>5. \A k \in 1 .. Len(q.pending) :
          q.pending[k].call = e.calls[k] /\ q.pending[k].step = e.step /\ q.pending[k].seq = 0
    <3> TAKE k \in 1 .. Len(q.pending)
    <3>1. q.pending[k] = [call |-> e.calls[k], step |-> e.step, seq |-> 0]
      BY <2>4
    <3> QED BY <3>1
  <2>6. Begun(q.pending) = {}
    BY <2>5, BegunIs
  <2>7. n \in Traces
    BY <1>4, <2>3 DEF Traces
  <2>8. t.pending = {}
    BY <1>3, <1>6, <2>1
  <2>9. \A k, j \in 1 .. Len(q.pending) : q.pending[k].call = q.pending[j].call => k = j
    BY <2>1, <2>4, <2>5
  <2>10. Agree(n, q)
    BY <1>3, <2>1, <2>3, <2>4, <2>5, <2>6, <2>8, <2>9, AgreeIs
  <2> QED BY <2>4, <2>7, <2>10
<1>14. CASE e.kind = "tool/call"
  <2>1. r.turn = e.turn /\ r.step = e.step /\ e.step # 0
        /\ \E k \in 1 .. Len(r.pending) : r.pending[k].call = e.call
    BY <1>14 DEF Allowed, InOpenStep
  <2>2. Crash!Accepts(t, e)
    BY <1>3, <1>14, <2>1 DEF Crash!Accepts, Crash!InStep
  <2>3. n = [ok |-> TRUE, openTurn |-> t.openTurn, openStep |-> t.openStep,
             nextTurn |-> t.nextTurn, nextStep |-> t.nextStep,
               pending |-> t.pending \cup {e.call}]
    BY <1>1, <1>3, <1>4, <1>14, <2>2, AdvanceIs
  <2>4. /\ q \in Opens /\ q.turn = r.turn /\ q.step = r.step /\ Len(q.pending) = Len(r.pending)
        /\ \A k \in 1 .. Len(r.pending) :
             /\ q.pending[k].call = r.pending[k].call /\ q.pending[k].step = r.pending[k].step
             /\ q.pending[k].seq = IF r.pending[k].call = e.call THEN i ELSE r.pending[k].seq
    BY <1>2, <1>14, ScanOfCall
  <2>5. t.pending \cup {e.call} = Begun(q.pending)
    BY <1>3, <2>1, <2>4, BegunIs
  <2>6. n \in Traces
    BY <1>4, <2>3 DEF Traces
  <2>7. Agree(n, q)
    <3>1. q.step # 0 /\ q.turn = r.turn /\ q.step = r.step
      BY <2>1, <2>4
    <3>2. \A k, j \in 1 .. Len(q.pending) : q.pending[k].call = q.pending[j].call => k = j
      BY <1>3, <2>4
    <3>3. \A k \in 1 .. Len(q.pending) : q.pending[k].step = q.step
      BY <1>3, <2>4
    <3> QED BY <1>3, <2>3, <2>5, <3>1, <3>2, <3>3, AgreeIs
  <2> QED BY <2>4, <2>6, <2>7
<1>15. CASE e.kind = "tool/result"
  <2>1. /\ r.turn = e.turn /\ r.step = e.step /\ e.step # 0 /\ r.pending # <<>>
        /\ r.pending[1].call = e.call
        /\ r.pending[1].seq = 0 <=> e.code = "TOOL_NOT_STARTED"
    BY <1>15 DEF Allowed, InOpenStep
  <2>2. 1 \in 1 .. Len(r.pending)
    BY <1>5, <2>1
  <2>3. Crash!Accepts(t, e)
    BY <1>3, <1>15, <2>1, <2>2, BegunIs DEF Crash!Accepts, Crash!InStep
  <2>4. n = [ok |-> TRUE, openTurn |-> t.openTurn, openStep |-> t.openStep,
             nextTurn |-> t.nextTurn, nextStep |-> t.nextStep, pending |-> t.pending \ {e.call}]
    BY <1>1, <1>3, <1>4, <1>15, <2>3, AdvanceIs
  <2>5. /\ q \in Opens /\ q.turn = r.turn /\ q.step = r.step
        /\ Len(q.pending) = Len(r.pending) - 1
        /\ \A k \in 1 .. Len(r.pending) - 1 : q.pending[k] = r.pending[k + 1]
    BY <1>2, <1>3, <1>15, <2>1, ScanOfResult
  <2>6. PICK l \in Nat : Len(r.pending) = l + 1 /\ Len(q.pending) = l
    BY <1>5, <2>1, <2>5
  <2>7. \A k \in 1 .. l : q.pending[k] = r.pending[k + 1] /\ k + 1 \in 1 .. l + 1 /\ k + 1 # 1
    BY <2>5, <2>6
  <2>8. t.pending \ {e.call} = Begun(q.pending)
    <3>1. ASSUME NEW c PROVE c \in Begun(q.pending) <=> c \in t.pending \ {e.call}
      <4>1. c \in Begun(q.pending) <=> \E k \in 1 .. l : q.pending[k].call = c /\
              q.pending[k].seq # 0
        BY <2>6, BegunIs
      <4>2. c \in t.pending <=> \E k \in 1 .. l + 1 : r.pending[k].call = c /\
              r.pending[k].seq # 0
        BY <1>3, <2>6, BegunIs
      <4>3. ASSUME c \in Begun(q.pending) PROVE c \in t.pending \ {e.call}
        <5>1. PICK k \in 1 .. l : q.pending[k].call = c /\ q.pending[k].seq # 0
          BY <4>1, <4>3
        <5>2. r.pending[k + 1].call = c /\ r.pending[k + 1].seq # 0 /\ k + 1 \in 1 .. l + 1 /\
                k + 1 # 1
          BY <2>7, <5>1
        <5>3. c # e.call
          BY <1>3, <2>1, <2>2, <2>6, <5>2
        <5> QED BY <4>2, <5>2, <5>3
      <4>4. ASSUME c \in t.pending \ {e.call} PROVE c \in Begun(q.pending)
        <5>1. PICK k \in 1 .. l + 1 : r.pending[k].call = c /\ r.pending[k].seq # 0
          BY <4>2, <4>4
        <5>2. k # 1
          BY <2>1, <4>4, <5>1
        <5>3. PICK j \in 1 .. l : k = j + 1
          BY <5>2
        <5>4. q.pending[j] = r.pending[k]
          BY <2>7, <5>3
        <5> QED BY <4>1, <5>1, <5>4
      <4> QED BY <4>3, <4>4
    <3> QED BY <3>1
  <2>9. n \in Traces
    BY <1>4, <2>4 DEF Traces
  <2>10. \A k, j \in 1 .. l : q.pending[k].call = q.pending[j].call => k = j
    <3> SUFFICES ASSUME NEW k \in 1 .. l, NEW j \in 1 .. l, q.pending[k].call = q.pending[j].call
                 PROVE  k = j
      OBVIOUS
    <3>1. r.pending[k + 1].call = r.pending[j + 1].call
      BY <2>7
    <3>2. k + 1 = j + 1
      BY <1>3, <2>6, <2>7, <3>1
    <3> QED BY <3>2
  <2>11. Agree(n, q)
    <3>1. q.step # 0 /\ q.turn = r.turn /\ q.step = r.step
      BY <2>1, <2>5
    <3>2. \A k \in 1 .. Len(q.pending) : q.pending[k].step = q.step
      <4>1. \A k \in 1 .. l : q.pending[k].step = r.step
        <5> TAKE k \in 1 .. l
        <5>1. k + 1 \in 1 .. Len(r.pending) /\ q.pending[k] = r.pending[k + 1]
          BY <2>6, <2>7
        <5> QED BY <1>3, <5>1
      <4> QED BY <2>6, <3>1, <4>1
    <3> QED BY <1>3, <2>4, <2>6, <2>8, <2>10, <3>1, <3>2, AgreeIs
  <2> QED BY <2>5, <2>9, <2>11
<1> QED
  BY <1>8, <1>9, <1>10, <1>11, <1>12, <1>13, <1>14, <1>15 DEF Allowed


LEMMA Appended ==
  ASSUME NEW s \in Seq(Events), NEW e \in Events
  PROVE  /\ Append(s, e) \in Seq(Events) /\ Len(s) \in Nat /\ Len(Append(s, e)) = Len(s) + 1
         /\ Append(s, e)[Len(s) + 1] = e /\ \A n \in 1 .. Len(s) : Append(s, e)[n] = s[n]
         /\ \A n \in 1 .. Len(s) : s[n] \in Events
BY AppendProperties, ElementOfSeq, LenProperties

LEMMA CalledGrows ==
  ASSUME NEW s \in Seq(Events), NEW e \in Events, NEW c
  PROVE  Called(Append(s, e), c) <=> Called(s, c) \/ (e.kind = "tool/call" /\ e.call = c)
<1> DEFINE p == Append(s, e)
<1>1. PICK l \in Nat : l = Len(s) /\ Len(p) = l + 1 /\ p[l + 1] = e /\ \A n \in 1 .. l :
             p[n] = s[n]
  BY Appended
<1> HIDE DEF p
<1>2. ASSUME Called(p, c) PROVE Called(s, c) \/ (e.kind = "tool/call" /\ e.call = c)
  BY <1>1, <1>2 DEF Called
<1>3. ASSUME Called(s, c) PROVE Called(p, c)
  BY <1>1, <1>3 DEF Called
<1>4. ASSUME (e.kind = "tool/call" /\ e.call = c) PROVE Called(p, c)
  BY <1>1, <1>4 DEF Called
<1> QED BY <1>2, <1>3, <1>4 DEF p

LEMMA RepliedGrows ==
  ASSUME NEW s \in Seq(Events), NEW e \in Events, NEW c
  PROVE  Replied(Append(s, e), c) <=> Replied(s, c) \/ (e.kind = "tool/result" /\ e.call = c)
<1> DEFINE p == Append(s, e)
<1>1. PICK l \in Nat : l = Len(s) /\ Len(p) = l + 1 /\ p[l + 1] = e /\ \A n \in 1 .. l :
             p[n] = s[n]
  BY Appended
<1> HIDE DEF p
<1>2. ASSUME Replied(p, c) PROVE Replied(s, c) \/ (e.kind = "tool/result" /\ e.call = c)
  BY <1>1, <1>2 DEF Replied
<1>3. ASSUME Replied(s, c) PROVE Replied(p, c)
  BY <1>1, <1>3 DEF Replied
<1>4. ASSUME (e.kind = "tool/result" /\ e.call = c) PROVE Replied(p, c)
  BY <1>1, <1>4 DEF Replied
<1> QED BY <1>2, <1>3, <1>4 DEF p

LEMMA AskedGrows ==
  ASSUME NEW s \in Seq(Events), NEW e \in Events, NEW c
  PROVE  Asked(Append(s, e), c) <=> Asked(s, c) \/ (\E j \in 1 .. Len(e.calls) : e.calls[j] = c)
<1> DEFINE p == Append(s, e)
<1>1. PICK l \in Nat : l = Len(s) /\ Len(p) = l + 1 /\ p[l + 1] = e /\ \A n \in 1 .. l :
             p[n] = s[n]
  BY Appended
<1> HIDE DEF p
<1>2. ASSUME Asked(p, c) PROVE Asked(s, c) \/ (\E j \in 1 .. Len(e.calls) : e.calls[j] = c)
  BY <1>1, <1>2 DEF Asked
<1>3. ASSUME Asked(s, c) PROVE Asked(p, c)
  BY <1>1, <1>3 DEF Asked
<1>4. ASSUME (\E j \in 1 .. Len(e.calls) : e.calls[j] = c) PROVE Asked(p, c)
  BY <1>1, <1>4 DEF Asked
<1> QED BY <1>2, <1>3, <1>4 DEF p

(* What a scan leaves pending, kind by kind. *)
LEMMA PendingGrows ==
  ASSUME NEW t \in Traces, NEW r \in Opens, NEW e \in Events, Agree(t, r), Allowed(t, r, e),
         NEW i \in Nat \ {0}
  PROVE  LET q == Crash!Scan(r, i, e) IN
         \/ /\ e.kind \notin {"assistant/message", "tool/call", "tool/result"}
            /\ q.pending = r.pending
            /\ e.kind = "user/message" => r.pending = <<>>
         \/ /\ e.kind = "assistant/message" /\ r.pending = <<>> /\ Len(q.pending) = Len(e.calls)
            /\ \A k \in 1 .. Len(e.calls) : q.pending[k].call = e.calls[k] /\ q.pending[k].seq = 0
         \/ /\ e.kind = "tool/call" /\ Len(q.pending) = Len(r.pending)
            /\ \E k \in 1 .. Len(r.pending) : r.pending[k].call = e.call
            /\ \A k \in 1 .. Len(r.pending) :
                 /\ q.pending[k].call = r.pending[k].call
                 /\ q.pending[k].seq = IF r.pending[k].call = e.call THEN i ELSE r.pending[k].seq
         \/ /\ e.kind = "tool/result" /\ Len(r.pending) \in Nat \ {0} /\
              r.pending[1].call = e.call
            /\ r.pending[1].seq = 0 <=> e.code = "TOOL_NOT_STARTED"
            /\ Len(q.pending) = Len(r.pending) - 1
            /\ \A k \in 1 .. Len(r.pending) - 1 : q.pending[k] = r.pending[k + 1]
<1>1. PICK q : q = Crash!Scan(r, i, e)
  OBVIOUS
<1>2. /\ r.step = 0 => r.pending = <<>>
      /\ r.step # 0 => r.turn # 0
      /\ \A k, j \in 1 .. Len(r.pending) : r.pending[k].call = r.pending[j].call => k = j
  BY AgreeIs
<1>3. CASE e.kind = "turn/start"
  BY <1>1, <1>2, <1>3, ScanOfRest DEF Allowed
<1>4. CASE e.kind = "turn/end"
  BY <1>1, <1>2, <1>4, ScanOfRest DEF Allowed
<1>5. CASE e.kind = "step/start"
  BY <1>1, <1>5, ScanOfRest
<1>6. CASE e.kind = "step/end"
  BY <1>1, <1>6, ScanOfRest DEF Allowed
<1>7. CASE e.kind \in {"user/message", "session/end-seed"}
  BY <1>1, <1>7, ScanOfRest DEF Allowed
<1>8. CASE e.kind = "assistant/message"
  <2>1. r.pending = <<>>
    BY <1>8 DEF Allowed
  <2>2. /\ Len(q.pending) = Len(e.calls)
        /\ \A k \in 1 .. Len(e.calls) : q.pending[k] = [call |-> e.calls[k], step |-> e.step,
             seq |-> 0]
    BY <1>1, <1>8, <2>1, ScanOfAnswer
  <2>3. \A k \in 1 .. Len(e.calls) : q.pending[k].call = e.calls[k] /\ q.pending[k].seq = 0
    <3> TAKE k \in 1 .. Len(e.calls)
    <3>1. q.pending[k] = [call |-> e.calls[k], step |-> e.step, seq |-> 0]
      BY <2>2
    <3> QED BY <3>1
  <2> QED BY <1>1, <1>8, <2>1, <2>2, <2>3
<1>9. CASE e.kind = "tool/call"
  BY <1>1, <1>9, ScanOfCall DEF Allowed
<1>10. CASE e.kind = "tool/result"
  BY <1>1, <1>2, <1>10, ScanOfResult, Pendings DEF Allowed
<1> QED BY <1>3, <1>4, <1>5, <1>6, <1>7, <1>8, <1>9, <1>10 DEF Allowed

LEMMA RecordedGrows ==
  ASSUME NEW t \in Traces, NEW r \in Opens, NEW e \in Events, Agree(t, r), Allowed(t, r, e),
         NEW s \in Seq(Events), Recorded(s, r),
         \A i \in 1 .. Len(e.calls) : \A n \in 1 .. Len(s) : s[n].call # e.calls[i]
  PROVE  Recorded(Append(s, e), Crash!Scan(r, Len(s) + 1, e))
<1>1. PICK l \in Nat : l = Len(s)
  BY LenProperties
<1>2. PICK p : p = Append(s, e)
  OBVIOUS
<1>3. PICK q : q = Crash!Scan(r, l + 1, e)
  OBVIOUS
<1>4. Len(p) = l + 1 /\ p[l + 1] = e /\ \A n \in 1 .. l : p[n] = s[n]
  BY <1>1, <1>2, Appended
<1>5. /\ \A c : Called(p, c) <=> Called(s, c) \/ (e.kind = "tool/call" /\ e.call = c)
      /\ \A c : Replied(p, c) <=> Replied(s, c) \/ (e.kind = "tool/result" /\ e.call = c)
      /\ \A c : Asked(p, c) <=> Asked(s, c) \/ (\E j \in 1 .. Len(e.calls) : e.calls[j] = c)
  BY <1>2, CalledGrows, RepliedGrows, AskedGrows
<1>6. /\ \A k \in 1 .. Len(r.pending) :
           /\ r.pending[k].seq # 0 <=> Called(s, r.pending[k].call)
           /\ Asked(s, r.pending[k].call) /\ ~Replied(s, r.pending[k].call)
      /\ \A n \in 1 .. l :
           s[n].kind = "tool/result" /\ s[n].code = "TOOL_NOT_STARTED" => ~Called(s, s[n].call)
  BY <1>1 DEF Recorded
<1>7. \A k, j \in 1 .. Len(r.pending) : r.pending[k].call = r.pending[j].call => k = j
  BY AgreeIs
<1>8. \A n \in 1 .. l : s[n].kind = "tool/result" => Replied(s, s[n].call)
  BY <1>1 DEF Replied
<1>9. SUFFICES
        /\ \A k \in 1 .. Len(q.pending) :
             /\ q.pending[k].seq # 0 <=> Called(p, q.pending[k].call)
             /\ Asked(p, q.pending[k].call) /\ ~Replied(p, q.pending[k].call)
        /\ \A n \in 1 .. l + 1 :
             p[n].kind = "tool/result" /\ p[n].code = "TOOL_NOT_STARTED" => ~Called(p, p[n].call)
  BY <1>1, <1>2, <1>3, <1>4 DEF Recorded
<1>10. ASSUME e.kind # "tool/call",
              e.kind = "tool/result" /\ e.code = "TOOL_NOT_STARTED" => ~Called(s, e.call)
       PROVE  \A n \in 1 .. l + 1 :
                p[n].kind = "tool/result" /\ p[n].code = "TOOL_NOT_STARTED" =>
                  ~Called(p, p[n].call)
  BY <1>4, <1>5, <1>6, <1>10
<1>11. l + 1 \in Nat \ {0}
  OBVIOUS
<1>12. CASE e.kind \notin {"assistant/message", "tool/call", "tool/result"}
  BY <1>3, <1>5, <1>6, <1>10, <1>11, <1>12, PendingGrows
<1>13. CASE e.kind = "assistant/message"
  <2>1. /\ Len(q.pending) = Len(e.calls)
        /\ \A k \in 1 .. Len(e.calls) : q.pending[k].call = e.calls[k] /\ q.pending[k].seq = 0
    BY <1>3, <1>11, <1>13, PendingGrows
  <2>2. ASSUME NEW k \in 1 .. Len(e.calls)
        PROVE  /\ q.pending[k].seq # 0 <=> Called(p, q.pending[k].call)
               /\ Asked(p, q.pending[k].call) /\ ~Replied(p, q.pending[k].call)
    <3>1. ~Called(s, e.calls[k]) /\ ~Replied(s, e.calls[k])
      BY DEF Called, Replied
    <3> QED BY <1>5, <1>13, <2>1, <3>1
  <2> QED BY <1>10, <1>13, <2>1, <2>2
<1>14. CASE e.kind = "tool/call"
  <2>1. /\ Len(q.pending) = Len(r.pending)
        /\ \E k \in 1 .. Len(r.pending) : r.pending[k].call = e.call
        /\ \A k \in 1 .. Len(r.pending) :
             /\ q.pending[k].call = r.pending[k].call
             /\ q.pending[k].seq = IF r.pending[k].call = e.call THEN l + 1 ELSE r.pending[k].seq
    BY <1>3, <1>11, <1>14, PendingGrows
  <2>2. ASSUME NEW k \in 1 .. Len(r.pending)
        PROVE  /\ q.pending[k].seq # 0 <=> Called(p, q.pending[k].call)
               /\ Asked(p, q.pending[k].call) /\ ~Replied(p, q.pending[k].call)
    BY <1>5, <1>6, <1>11, <1>14, <2>1
  <2>3. ASSUME NEW n \in 1 .. l + 1, p[n].kind = "tool/result", p[n].code = "TOOL_NOT_STARTED"
        PROVE  ~Called(p, p[n].call)
    BY <1>4, <1>5, <1>6, <1>8, <1>14, <2>1, <2>3
  <2> QED BY <2>1, <2>2, <2>3
<1>15. CASE e.kind = "tool/result"
  <2>1. /\ Len(r.pending) \in Nat \ {0} /\ r.pending[1].call = e.call
        /\ r.pending[1].seq = 0 <=> e.code = "TOOL_NOT_STARTED"
        /\ Len(q.pending) = Len(r.pending) - 1
        /\ \A k \in 1 .. Len(r.pending) - 1 : q.pending[k] = r.pending[k + 1]
    BY <1>3, <1>11, <1>15, PendingGrows
  <2>2. PICK z \in Nat : Len(r.pending) = z + 1 /\ Len(q.pending) = z
    BY <2>1
  <2>3. ASSUME NEW k \in 1 .. z
        PROVE  /\ q.pending[k].seq # 0 <=> Called(p, q.pending[k].call)
               /\ Asked(p, q.pending[k].call) /\ ~Replied(p, q.pending[k].call)
    <3>1. k + 1 \in 1 .. z + 1 /\ k + 1 # 1 /\ 1 \in 1 .. z + 1 /\ k \in 1 .. z + 1 - 1
      OBVIOUS
    <3>2. q.pending[k] = r.pending[k + 1]
      BY <2>1, <2>2, <3>1
    <3>3. r.pending[k + 1].call # e.call
      BY <1>7, <2>1, <2>2, <3>1
    <3> QED BY <1>5, <1>6, <1>15, <2>2, <3>1, <3>2, <3>3
  <2>4. e.code = "TOOL_NOT_STARTED" => ~Called(s, e.call)
    BY <1>6, <2>1, <2>2
  <2> QED BY <1>10, <1>15, <2>2, <2>3, <2>4
<1> QED BY <1>12, <1>13, <1>14, <1>15


(* What lies beyond the events listed is one more than what is left after the next of them. *)
LEMMA Beyond ==
  ASSUME NEW n \in Nat, NEW k \in Nat, NEW z \in Nat, ~(n + k <= z)
  PROVE  \E j \in Nat : /\ n + k - z = j + 1
                        /\ j = 0 => n + k = z + 1
                        /\ j # 0 => ~(n + k <= z + 1) /\ n + k - (z + 1) = j
<1>1. n + k - z - 1 \in Nat
  OBVIOUS
<1>2. WITNESS n + k - z - 1 \in Nat
<1> QED OBVIOUS

LEMMA PairedGrows ==
  ASSUME NEW t \in Traces, NEW r \in Opens, NEW e \in Events, Agree(t, r), Allowed(t, r, e),
         NEW s \in Seq(Events), Recorded(s, r), NEW m \in Seq(Events), Paired(s, r, m)
  PROVE  Paired(Append(s, e), Crash!Scan(r, Len(s) + 1, e), Heard(m, e)) /\
           Heard(m, e) \in Seq(Events)
<1>1. PICK l \in Nat : l = Len(s)
  BY LenProperties
<1>2. PICK p : p = Append(s, e)
  OBVIOUS
<1>3. PICK q : q = Crash!Scan(r, l + 1, e)
  OBVIOUS
<1>4. Len(p) = l + 1 /\ p[l + 1] = e /\ \A n \in 1 .. l : p[n] = s[n]
  BY <1>1, <1>2, Appended
<1>5. PICK g : g = Heard(m, e)
  OBVIOUS
<1>6. PICK z \in Nat : z = Len(m)
  BY LenProperties
<1>7. /\ \A n \in 1 .. z : m[n].kind = "assistant/message" =>
           \A k \in 1 .. Len(m[n].calls) :
             IF n + k <= z
               THEN m[n + k].kind = "tool/result" /\ m[n + k].call = m[n].calls[k]
               ELSE n + k - z <= Len(r.pending) /\ r.pending[n + k - z].call = m[n].calls[k]
      /\ \A i, j \in 1 .. z :
           m[i].kind = "tool/result" /\ m[j].kind = "tool/result" /\ m[i].call = m[j].call =>
             i = j
      /\ \A i \in 1 .. z : \E n \in 1 .. l : m[i] = s[n]
  BY <1>1, <1>6 DEF Paired
<1>8. \A n \in 1 .. z : m[n] \in Events /\ Len(m[n].calls) \in Nat
  <2>1. \A v \in Events : Len(v.calls) \in Nat
    BY LenProperties DEF Events
  <2>2. \A n \in 1 .. z : m[n] \in Events
    BY <1>6, ElementOfSeq
  <2> QED BY <2>1, <2>2
<1>9. l + 1 \in Nat \ {0}
  OBVIOUS
<1>10. \A i \in 1 .. z : \E n \in 1 .. l + 1 : m[i] = p[n]
  BY <1>4, <1>7
<1>11. Len(r.pending) \in Nat
  BY Pendings
<1>12. CASE e.kind \notin {"user/message", "assistant/message", "tool/result"}
  <2>1. g = m
    BY <1>5, <1>12 DEF Heard, Crash!Said
  <2>2. Len(q.pending) = Len(r.pending) /\ \A k \in 1 .. Len(r.pending) :
          q.pending[k].call = r.pending[k].call
    BY <1>3, <1>9, <1>12, PendingGrows
  <2>3. ASSUME NEW n \in 1 .. z, m[n].kind = "assistant/message", NEW k \in 1 .. Len(m[n].calls)
        PROVE  IF n + k <= z
                 THEN m[n + k].kind = "tool/result" /\ m[n + k].call = m[n].calls[k]
                 ELSE n + k - z <= Len(q.pending) /\ q.pending[n + k - z].call = m[n].calls[k]
    <3>1. CASE n + k <= z
      BY <1>7, <2>3, <3>1
    <3>2. CASE ~(n + k <= z)
      BY <1>7, <1>8, <1>11, <2>2, <2>3, <3>2
    <3> QED BY <3>1, <3>2
  <2>4. Paired(p, q, m)
    BY <1>4, <1>6, <1>7, <1>10, <2>3 DEF Paired
  <2> QED BY <1>1, <1>2, <1>3, <1>5, <2>1, <2>4
<1>13. CASE e.kind \in {"user/message", "assistant/message", "tool/result"}
  <2>1. g = Append(m, e)
    BY <1>5, <1>13 DEF Heard, Crash!Said
  <2>2. /\ g \in Seq(Events) /\ Len(g) = z + 1 /\ g[z + 1] = e /\ \A n \in 1 .. z : g[n] = m[n]
    BY <1>6, <2>1, Appended
  <2>3. \A i \in 1 .. z + 1 : \E n \in 1 .. l + 1 : g[i] = p[n]
    BY <1>4, <1>10, <2>2
  <2>4. ASSUME e.kind = "tool/result", NEW i \in 1 .. z, m[i].kind = "tool/result"
        PROVE  m[i].call # e.call
    <3>1. Len(r.pending) \in Nat \ {0} /\ r.pending[1].call = e.call
      BY <1>9, <2>4, PendingGrows
    <3>2. ~Replied(s, e.call)
      BY <3>1 DEF Recorded
    <3>3. PICK n \in 1 .. l : m[i] = s[n]
      BY <1>7
    <3> QED BY <1>1, <2>4, <3>2, <3>3 DEF Replied
  <2>5. ASSUME NEW i \in 1 .. z + 1, NEW j \in 1 .. z + 1, g[i].kind = "tool/result",
               g[j].kind = "tool/result", g[i].call = g[j].call
        PROVE  i = j
    <3>1. CASE i \in 1 .. z /\ j \in 1 .. z
      BY <1>7, <2>2, <2>5, <3>1
    <3>2. CASE i = z + 1 /\ j \in 1 .. z
      BY <2>2, <2>4, <2>5, <3>2
    <3>3. CASE i \in 1 .. z /\ j = z + 1
      BY <2>2, <2>4, <2>5, <3>3
    <3>4. CASE i = z + 1 /\ j = z + 1
      BY <3>4
    <3> QED BY <3>1, <3>2, <3>3, <3>4
  <2>6. ASSUME NEW n \in 1 .. z + 1, g[n].kind = "assistant/message",
                 NEW k \in 1 .. Len(g[n].calls)
        PROVE  IF n + k <= z + 1
                 THEN g[n + k].kind = "tool/result" /\ g[n + k].call = g[n].calls[k]
                 ELSE n + k - (z + 1) <= Len(q.pending) /\
                   q.pending[n + k - (z + 1)].call = g[n].calls[k]
    <3>1. CASE n = z + 1
      <4>1. e.kind = "assistant/message" /\ k \in 1 .. Len(e.calls) /\ g[n] = e
        BY <2>2, <2>6, <3>1
      <4>2. Len(q.pending) = Len(e.calls) /\ q.pending[k].call = e.calls[k]
        BY <1>3, <1>9, <4>1, PendingGrows
      <4>3. Len(e.calls) \in Nat
        BY LenProperties DEF Events
      <4>4. ~(n + k <= z + 1) /\ n + k - (z + 1) = k /\ k <= Len(e.calls)
        BY <3>1, <4>1, <4>3
      <4> QED BY <4>1, <4>2, <4>4
    <3>2. CASE n # z + 1
      <4>1. n \in 1 .. z /\ g[n] = m[n] /\ m[n].kind = "assistant/message" /\
              k \in 1 .. Len(m[n].calls)
        BY <2>2, <2>6, <3>2
      <4>2. k \in Nat \ {0}
        BY <1>8, <4>1
      <4>3. CASE n + k <= z
        <5>1. n + k \in 1 .. z /\ n + k <= z + 1
          BY <4>1, <4>2, <4>3
        <5>2. m[n + k].kind = "tool/result" /\ m[n + k].call = m[n].calls[k]
          BY <1>7, <4>1, <4>3
        <5> QED BY <2>2, <4>1, <5>1, <5>2
      <4>4. CASE ~(n + k <= z)
        <5>1. n + k - z <= Len(r.pending) /\ r.pending[n + k - z].call = m[n].calls[k]
          BY <1>7, <4>1, <4>4
        <5>2. PICK j \in Nat :
                /\ n + k - z = j + 1
                /\ j = 0 => n + k = z + 1
                /\ j # 0 => ~(n + k <= z + 1) /\ n + k - (z + 1) = j
          <6>1. n \in Nat /\ k \in Nat
            BY <4>1, <4>2
          <6> QED BY <4>4, <6>1, Beyond
        <5>3. Len(r.pending) # 0 /\ Len(r.pending) \in Nat
          BY <1>11, <5>1, <5>2
        <5>4. 1 .. Len(<<>>) = {} /\ Len(<<>>) = 0
          OBVIOUS
        <5>5. e.kind = "tool/result"
          BY <1>13, <5>3, <5>4 DEF Allowed
        <5>6. /\ r.pending[1].call = e.call /\ Len(q.pending) = Len(r.pending) - 1
              /\ \A i \in 1 .. Len(r.pending) - 1 : q.pending[i] = r.pending[i + 1]
          BY <1>3, <1>9, <5>5, PendingGrows
        <5>7. CASE j = 0
          <6>1. n + k = z + 1 /\ n + k - z = 1
            BY <5>2, <5>7
          <6> QED BY <2>2, <4>1, <5>1, <5>5, <5>6, <6>1
        <5>8. CASE j # 0
          <6>1. ~(n + k <= z + 1) /\ n + k - (z + 1) = j /\ j + 1 <= Len(r.pending)
            BY <5>1, <5>2, <5>8
          <6>2. j \in 1 .. Len(r.pending) - 1 /\ j <= Len(r.pending) - 1
            BY <5>3, <5>8, <6>1
          <6>3. q.pending[j] = r.pending[j + 1]
            BY <5>6, <6>2
          <6> QED BY <4>1, <5>1, <5>2, <5>6, <6>1, <6>2, <6>3
        <5> QED BY <5>7, <5>8
      <4> QED BY <4>3, <4>4
    <3> QED BY <3>1, <3>2
  <2>7. Paired(p, q, g)
    BY <1>4, <2>2, <2>3, <2>5, <2>6 DEF Paired
  <2> QED BY <1>1, <1>2, <1>3, <1>5, <2>2, <2>7
<1> QED BY <1>12, <1>13

(* The last turn that was started. *)
LEMMA LargestOf ==
  ASSUME NEW b \in Nat, NEW S \in SUBSET (1 .. b), S # {}
  PROVE  Crash!Max(S) \in S /\ \A y \in S : Crash!Max(S) >= y
<1> DEFINE R == {b - x : x \in S}
<1>1. R \in SUBSET Nat /\ R # {}
  OBVIOUS
<1>2. PICK y \in R : \A w \in R : y <= w
  BY <1>1, Smallest
<1>3. PICK x \in S : y = b - x
  BY <1>2
<1>4. \A w \in S : x >= w
  <2> TAKE w \in S
  <2>1. y <= b - w
    BY <1>2
  <2> QED BY <1>3, <2>1
<1> QED BY <1>4 DEF Crash!Max

LEMMA LastTurnGrows ==
  ASSUME NEW s \in Seq(Events), NEW e \in Events
  PROVE  Crash!LastTurn(Append(s, e)) = IF e.kind = "turn/start" THEN e.turn ELSE Crash!LastTurn(s)
<1> DEFINE p == Append(s, e)
<1>1. PICK l \in Nat : l = Len(s) /\ Len(p) = l + 1 /\ p[l + 1] = e /\ \A n \in 1 .. l :
             p[n] = s[n]
  BY Appended
<1> HIDE DEF p
<1> DEFINE A == {n \in 1 .. l : s[n].kind = "turn/start"}
           B == {n \in 1 .. l + 1 : p[n].kind = "turn/start"}
<1>2. /\ Crash!LastTurn(s) = IF A = {} THEN 0 ELSE s[Crash!Max(A)].turn
      /\ Crash!LastTurn(p) = IF B = {} THEN 0 ELSE p[Crash!Max(B)].turn
  BY <1>1, Zenon DEF Crash!LastTurn
<1>3. B = IF e.kind = "turn/start" THEN A \cup {l + 1} ELSE A
  BY <1>1
<1>4. CASE e.kind = "turn/start"
  <2>1. l + 1 \in B /\ B \in SUBSET (1 .. l + 1) /\ l + 1 \in Nat
    BY <1>3, <1>4
  <2>2. Crash!Max(B) \in B /\ Crash!Max(B) >= l + 1
    BY <2>1, LargestOf
  <2>3. Crash!Max(B) = l + 1
    BY <2>1, <2>2
  <2> QED BY <1>1, <1>2, <1>4, <2>1, <2>3 DEF p
<1>5. CASE e.kind # "turn/start"
  BY <1>1, <1>2, <1>3, <1>5, LargestOf DEF p
<1> QED BY <1>4, <1>5

LEMMA NumberedGrows ==
  ASSUME NEW t \in Traces, NEW r \in Opens, NEW e \in Events, Agree(t, r), Allowed(t, r, e),
         NEW s \in Seq(Events), TurnsCount(s, t)
  PROVE  TurnsCount(Append(s, e), Crash!Advance(t, e))
<1>1. PICK n : n = Crash!Advance(t, e)
  OBVIOUS
<1>2. Crash!LastTurn(Append(s, e)) = IF e.kind = "turn/start" THEN e.turn ELSE Crash!LastTurn(s)
  BY LastTurnGrows
<1>3. Crash!LastTurn(s) = IF t.openTurn = 0 THEN t.nextTurn - 1 ELSE t.nextTurn
  BY DEF TurnsCount
<1>4. t.openTurn \in Nat /\ t.nextTurn \in Nat \ {0} /\ e.turn \in Nat /\ r.turn = t.openTurn
  BY AgreeIs DEF Traces, Events
<1>5. CASE e.kind = "turn/start"
  BY <1>1, <1>2, <1>4, <1>5, AdvanceIs DEF Allowed, TurnsCount
<1>6. CASE e.kind = "turn/end"
  BY <1>1, <1>2, <1>3, <1>4, <1>6, AdvanceIs DEF Allowed, TurnsCount
<1>7. CASE e.kind \notin {"turn/start", "turn/end"}
  BY <1>1, <1>2, <1>3, <1>7, AdvanceIs DEF Allowed, TurnsCount
<1> QED BY <1>5, <1>6, <1>7

--------------------------------------------------------------------------------
(* Logs that satisfy their relations and can be closed *)

LEMMA GoodGrows ==
  ASSUME NEW s, Good(s), NEW e, Follows(s, e)
  PROVE  Good(Append(s, e))
<1>1. /\ s \in Seq(Events) /\ Crash!TraceOf(s) \in Traces /\ Crash!OpenAt(s) \in Opens
      /\ Crash!Transcript(s) \in Seq(Events)
      /\ Agree(Crash!TraceOf(s), Crash!OpenAt(s))
      /\ Paired(s, Crash!OpenAt(s), Crash!Transcript(s))
      /\ Recorded(s, Crash!OpenAt(s)) /\ TurnsCount(s, Crash!TraceOf(s))
  BY DEF Good
<1>2. /\ e \in Events /\ Allowed(Crash!TraceOf(s), Crash!OpenAt(s), e)
      /\ \A i \in 1 .. Len(e.calls) : \A n \in 1 .. Len(s) : s[n].call # e.calls[i]
  BY DEF Follows
<1>3. Len(s) + 1 \in Nat \ {0} /\ Append(s, e) \in Seq(Events)
  BY <1>1, <1>2, Appended
<1>4. /\ Crash!TraceOf(Append(s, e)) = Crash!Advance(Crash!TraceOf(s), e)
      /\ Crash!OpenAt(Append(s, e)) = Crash!Scan(Crash!OpenAt(s), Len(s) + 1, e)
      /\ Crash!Transcript(Append(s, e)) = Heard(Crash!Transcript(s), e)
  BY <1>1, <1>2, TraceOfAppend, OpenAtAppend, MessagesAppend
<1>5. /\ Crash!TraceOf(Append(s, e)) \in Traces /\ Crash!OpenAt(Append(s, e)) \in Opens
      /\ Agree(Crash!TraceOf(Append(s, e)), Crash!OpenAt(Append(s, e)))
  BY <1>1, <1>2, <1>3, <1>4, AgreeGrows
<1>6. Recorded(Append(s, e), Crash!OpenAt(Append(s, e)))
  BY <1>1, <1>2, <1>4, RecordedGrows
<1>7. /\ Paired(Append(s, e), Crash!OpenAt(Append(s, e)), Crash!Transcript(Append(s, e)))
      /\ Crash!Transcript(Append(s, e)) \in Seq(Events)
  BY <1>1, <1>2, <1>4, PairedGrows
<1>8. TurnsCount(Append(s, e), Crash!TraceOf(Append(s, e)))
  BY <1>1, <1>2, <1>4, NumberedGrows
<1> QED BY <1>3, <1>5, <1>6, <1>7, <1>8 DEF Good

LEMMA GoodBegins == Good(<<>>)
<1>1. 1 .. Len(<<>>) = {} /\ Len(<<>>) = 0 /\ \A S : <<>> \in Seq(S)
  BY EmptySeq
<1>2. Crash!TraceOf(<<>>) = Crash!FreshTrace /\ Crash!OpenAt(<<>>) = Crash!NothingOpen /\
        Crash!Transcript(<<>>) = <<>>
  BY TraceOfNothing, OpenAtNothing, MessagesNothing
<1>3. Crash!FreshTrace \in Traces /\ Crash!NothingOpen \in Opens
  BY <1>1 DEF Crash!FreshTrace, Crash!NothingOpen, Traces, Opens
<1>4. Agree(Crash!FreshTrace, Crash!NothingOpen)
  BY AgreeOnNothing DEF Crash!FreshTrace, Crash!NothingOpen
<1>5. Paired(<<>>, Crash!NothingOpen, <<>>)
  BY <1>1 DEF Paired
<1>6. Recorded(<<>>, Crash!NothingOpen)
  BY <1>1 DEF Recorded, Crash!NothingOpen
<1>7. TurnsCount(<<>>, Crash!FreshTrace)
  BY <1>1 DEF Crash!LastTurn, TurnsCount, Crash!FreshTrace
<1> QED BY <1>1, <1>2, <1>3, <1>4, <1>5, <1>6, <1>7 DEF Good


LEMMA PrefixIs ==
  ASSUME NEW s \in Seq(Events), NEW n \in 0 .. Len(s)
  PROVE  /\ SubSeq(s, 1, n) \in Seq(Events) /\ Len(SubSeq(s, 1, n)) = n
         /\ \A i \in 1 .. n : SubSeq(s, 1, n)[i] = s[i]
<1>1. PICK l \in Nat : l = Len(s)
  BY LenProperties
<1>2. n \in Nat /\ n <= l
  BY <1>1
<1>3. \A i \in 1 .. n : s[i] \in Events
  BY <1>1, <1>2, ElementOfSeq
<1> QED BY <1>2, <1>3

LEMMA WholePrefix ==
  ASSUME NEW s \in Seq(Events)
  PROVE  SubSeq(s, 1, Len(s)) = s /\ Len(s) \in 0 .. Len(s)
<1>1. Len(s) \in Nat
  BY LenProperties
<1>2. Len(s) \in 0 .. Len(s)
  BY <1>1
<1> QED BY <1>2, PrefixIs, SeqEqual

LEMMA PrefixOfPrefix ==
  ASSUME NEW s \in Seq(Events), NEW n \in 0 .. Len(s), NEW m \in 0 .. n
  PROVE  SubSeq(SubSeq(s, 1, n), 1, m) = SubSeq(s, 1, m)
<1>1. PICK l \in Nat : l = Len(s)
  BY LenProperties
<1>2. m \in 0 .. Len(s) /\ \A i \in 1 .. m : i \in 1 .. n
  BY <1>1
<1>3. PICK p : p = SubSeq(s, 1, n)
  OBVIOUS
<1>4. p \in Seq(Events) /\ Len(p) = n /\ \A i \in 1 .. n : p[i] = s[i]
  BY <1>3, PrefixIs
<1>5. /\ SubSeq(p, 1, m) \in Seq(Events) /\ Len(SubSeq(p, 1, m)) = m
      /\ \A i \in 1 .. m : SubSeq(p, 1, m)[i] = p[i]
  BY <1>4, PrefixIs
<1>6. /\ SubSeq(s, 1, m) \in Seq(Events) /\ Len(SubSeq(s, 1, m)) = m
      /\ \A i \in 1 .. m : SubSeq(s, 1, m)[i] = s[i]
  BY <1>2, PrefixIs
<1>7. SubSeq(p, 1, m) = SubSeq(s, 1, m)
  BY <1>2, <1>4, <1>5, <1>6, SeqEqual
<1> QED BY <1>3, <1>7

LEMMA PrefixOfLonger ==
  ASSUME NEW s \in Seq(Events), NEW e \in Events, NEW n \in 0 .. Len(s)
  PROVE  SubSeq(Append(s, e), 1, n) = SubSeq(s, 1, n)
<1>1. PICK p : p = Append(s, e)
  OBVIOUS
<1>2. PICK l \in Nat : l = Len(s)
  BY LenProperties
<1>3. p \in Seq(Events) /\ Len(p) = l + 1 /\ \A i \in 1 .. l : p[i] = s[i]
  BY <1>1, <1>2, Appended
<1>4. n \in 0 .. Len(p) /\ \A i \in 1 .. n : i \in 1 .. l
  BY <1>2, <1>3
<1>5. /\ SubSeq(p, 1, n) \in Seq(Events) /\ Len(SubSeq(p, 1, n)) = n
      /\ \A i \in 1 .. n : SubSeq(p, 1, n)[i] = p[i]
  BY <1>3, <1>4, PrefixIs
<1>6. /\ SubSeq(s, 1, n) \in Seq(Events) /\ Len(SubSeq(s, 1, n)) = n
      /\ \A i \in 1 .. n : SubSeq(s, 1, n)[i] = s[i]
  BY PrefixIs
<1>7. SubSeq(p, 1, n) = SubSeq(s, 1, n)
  BY <1>3, <1>4, <1>5, <1>6, SeqEqual
<1> QED BY <1>1, <1>7

LEMMA WhollyIsGood ==
  ASSUME NEW s \in Seq(Events), Wholly(s)
  PROVE  Good(s)
BY WholePrefix DEF Wholly

LEMMA WhollyShrinks ==
  ASSUME NEW s \in Seq(Events), Wholly(s), NEW n \in 0 .. Len(s)
  PROVE  Wholly(SubSeq(s, 1, n))
<1>1. PICK l \in Nat : l = Len(s)
  BY LenProperties
<1>2. PICK p : p = SubSeq(s, 1, n)
  OBVIOUS
<1>3. Len(p) = n
  BY <1>2, PrefixIs
<1>4. ASSUME NEW m \in 0 .. n PROVE Good(SubSeq(p, 1, m))
  <2>1. SubSeq(p, 1, m) = SubSeq(s, 1, m)
    BY <1>2, PrefixOfPrefix
  <2>2. m \in 0 .. Len(s)
    BY <1>1
  <2> QED BY <2>1, <2>2 DEF Wholly
<1> QED BY <1>2, <1>3, <1>4 DEF Wholly

LEMMA WhollyBegins == Wholly(<<>>)
<1>1. <<>> \in Seq(Events) /\ Len(<<>>) = 0 /\ 0 .. 0 = {0}
  BY EmptySeq
<1>2. SubSeq(<<>>, 1, 0) = <<>>
  BY <1>1, WholePrefix
<1> QED BY <1>1, <1>2, GoodBegins DEF Wholly

LEMMA WhollyGrows ==
  ASSUME NEW s \in Seq(Events), Wholly(s), NEW e, Follows(s, e)
  PROVE  Append(s, e) \in Seq(Events) /\ Wholly(Append(s, e))
<1>1. e \in Events
  BY DEF Follows
<1>2. PICK l \in Nat : l = Len(s)
  BY LenProperties
<1>3. PICK p : p = Append(s, e)
  OBVIOUS
<1>4. p \in Seq(Events) /\ Len(p) = l + 1
  BY <1>1, <1>2, <1>3, Appended
<1>5. ASSUME NEW n \in 0 .. l + 1 PROVE Good(SubSeq(p, 1, n))
  <2>1. CASE n = l + 1
    <3>1. SubSeq(p, 1, n) = p
      BY <1>4, <2>1, WholePrefix
    <3>2. Good(p)
      BY <1>3, WhollyIsGood, GoodGrows
    <3> QED BY <3>1, <3>2
  <2>2. CASE n # l + 1
    <3>1. n \in 0 .. Len(s)
      BY <1>2, <2>2
    <3>2. SubSeq(p, 1, n) = SubSeq(s, 1, n)
      BY <1>1, <1>3, <3>1, PrefixOfLonger
    <3> QED BY <3>1, <3>2 DEF Wholly
  <2> QED BY <2>1, <2>2
<1> QED BY <1>3, <1>4, <1>5 DEF Wholly

(* What a log that was continued keeps. *)
LEMMA LongerIs ==
  ASSUME NEW s \in Seq(Events), NEW e \in Events
  PROVE  Longer(s, Append(s, e)) /\ Longer(s, s)
<1>1. PICK l \in Nat : l = Len(s)
  BY LenProperties
<1>2. PICK p : p = Append(s, e)
  OBVIOUS
<1>3. Len(p) = l + 1 /\ \A n \in 1 .. l : p[n] = s[n]
  BY <1>1, <1>2, Appended
<1> QED BY <1>1, <1>2, <1>3 DEF Longer

LEMMA LongerStill ==
  ASSUME NEW s \in Seq(Events), NEW p \in Seq(Events), NEW q \in Seq(Events), Longer(s, p),
           Longer(p, q)
  PROVE  Longer(s, q)
<1>1. PICK l \in Nat, m \in Nat, n \in Nat : l = Len(s) /\ m = Len(p) /\ n = Len(q)
  BY LenProperties
<1>2. l <= m /\ m <= n /\ (\A i \in 1 .. l : p[i] = s[i]) /\ \A i \in 1 .. m : q[i] = p[i]
  BY <1>1 DEF Longer
<1>3. l <= n /\ \A i \in 1 .. l : i \in 1 .. m
  BY <1>2
<1> QED BY <1>1, <1>2, <1>3 DEF Longer

LEMMA WithinGrows ==
  ASSUME NEW s \in Seq(Events), NEW e \in Events, NEW m, NEW b, Within(s, m, b),
         e.call <= m, e.turn <= b, \A j \in 1 .. Len(e.calls) : e.calls[j] <= m
  PROVE  Within(Append(s, e), m, b)
<1>1. PICK l \in Nat : l = Len(s)
  BY LenProperties
<1>2. PICK p : p = Append(s, e)
  OBVIOUS
<1>3. Len(p) = l + 1 /\ p[l + 1] = e /\ \A n \in 1 .. l : p[n] = s[n]
  BY <1>1, <1>2, Appended
<1>4. \A n \in 1 .. l + 1 : n = l + 1 \/ n \in 1 .. l
  OBVIOUS
<1> QED BY <1>1, <1>2, <1>3, <1>4 DEF Within

LEMMA JoinOne ==
  ASSUME NEW s \in Seq(Events), NEW e \in Events
  PROVE  s \o <<e>> = Append(s, e)
OBVIOUS

LEMMA JoinTwo ==
  ASSUME NEW S, NEW u \in S, NEW v \in S, NEW s \in Seq(S)
  PROVE  s \o <<u, v>> = (s \o <<u>>) \o <<v>>
<1>1. <<u, v>> = Append(<<u>>, v)
  OBVIOUS
<1>2. <<u>> \in Seq(S) /\ <<v>> \in Seq(S)
  OBVIOUS
<1>3. PICK f \in Seq(S) : f = <<u>>
  BY <1>2
<1>4. f \o <<v>> = Append(f, v)
  OBVIOUS
<1>5. s \o (f \o <<v>>) = (s \o f) \o <<v>>
  BY <1>2, ConcatAssociative
<1> QED BY <1>1, <1>3, <1>4, <1>5

LEMMA JoinNext ==
  ASSUME NEW s \in Seq(Events), NEW c \in Seq(Events), NEW n \in 0 .. Len(c), n < Len(c)
  PROVE  /\ s \o SubSeq(c, 1, n + 1) = Append(s \o SubSeq(c, 1, n), c[n + 1])
         /\ c[n + 1] \in Events /\ s \o SubSeq(c, 1, n) \in Seq(Events)
<1>1. PICK l \in Nat : l = Len(c)
  BY LenProperties
<1>2. n \in Nat /\ n + 1 \in 0 .. Len(c) /\ n + 1 \in 1 .. l
  BY <1>1
<1>3. c[n + 1] \in Events
  BY <1>1, <1>2, ElementOfSeq
<1>4. PICK a : a = SubSeq(c, 1, n)
  OBVIOUS
<1>5. PICK b : b = SubSeq(c, 1, n + 1)
  OBVIOUS
<1>6. a \in Seq(Events) /\ Len(a) = n /\ \A i \in 1 .. n : a[i] = c[i]
  BY <1>4, PrefixIs
<1>7. b \in Seq(Events) /\ Len(b) = n + 1 /\ \A i \in 1 .. n + 1 : b[i] = c[i]
  BY <1>2, <1>5, PrefixIs
<1>8. b = Append(a, c[n + 1])
  BY <1>2, <1>3, <1>6, <1>7, Appended, SeqEqual
<1>9. s \o Append(a, c[n + 1]) = Append(s \o a, c[n + 1])
  BY <1>3, <1>6
<1>10. s \o a \in Seq(Events)
  BY <1>6
<1> QED BY <1>3, <1>4, <1>5, <1>8, <1>9, <1>10


(* The events that are written. *)
LEMMA EventsAre ==
  ASSUME NEW t \in Nat, NEW n \in Nat
  PROVE  /\ \A k \in Kinds : Crash!E(k, t, n) \in Events
         /\ \A cs \in Seq(Nat \ {0}) : Crash!Answer(t, n, cs) \in Events
         /\ \A c \in Nat : Crash!CallEvent(t, n, c) \in Events
         /\ \A c \in Nat, q \in Nat : \A code \in Codes :
              Crash!ResultEvent(t, n, c, code, q) \in Events
<1>1. <<>> \in Seq(Nat \ {0})
  BY EmptySeq
<1>2. "none" \in Codes /\ "tool/result" \in Kinds /\ "tool/call" \in Kinds /\
        "assistant/message" \in Kinds
  BY DEF Codes, Kinds
<1>3. ASSUME NEW k \in Kinds PROVE Crash!E(k, t, n) \in Events
  BY <1>1, <1>2 DEF Crash!E, Events
<1>4. ASSUME NEW cs \in Seq(Nat \ {0}) PROVE Crash!Answer(t, n, cs) \in Events
  BY <1>2 DEF Crash!Answer, Crash!E, Events
<1>5. ASSUME NEW c \in Nat PROVE Crash!CallEvent(t, n, c) \in Events
  BY <1>1, <1>2 DEF Crash!CallEvent, Crash!E, Events
<1>6. ASSUME NEW c \in Nat, NEW q \in Nat, NEW code \in Codes PROVE Crash!ResultEvent(t, n, c,
               code, q) \in Events
  <2>1. Crash!ResultEvent(t, n, c, code, q) =
          [kind |-> "tool/result", turn |-> t, step |-> n, calls |-> <<>>, call |-> c,
            code |-> code,
           cites |-> q]
    <3>1. PICK e : e = Crash!E("tool/result", t, n)
      OBVIOUS
    <3>2. PICK f : f = [e EXCEPT !.call = c]
      OBVIOUS
    <3>3. PICK g : g = [f EXCEPT !.code = code]
      OBVIOUS
    <3>4. PICK h : h = [g EXCEPT !.cites = q]
      OBVIOUS
    <3>5. h = Crash!ResultEvent(t, n, c, code, q)
      BY <3>1, <3>2, <3>3, <3>4 DEF Crash!ResultEvent
    <3>6. f = [kind |-> "tool/result", turn |-> t, step |-> n, calls |-> <<>>, call |-> c,
               code |-> "none", cites |-> 0]
      BY <3>1, <3>2 DEF Crash!E
    <3>7. g = [kind |-> "tool/result", turn |-> t, step |-> n, calls |-> <<>>, call |-> c,
               code |-> code, cites |-> 0]
      BY <3>3, <3>6
    <3>8. h = [kind |-> "tool/result", turn |-> t, step |-> n, calls |-> <<>>, call |-> c,
               code |-> code, cites |-> q]
      BY <3>4, <3>7
    <3> QED BY <3>5, <3>8
  <2> QED BY <1>1, <1>2, <2>1 DEF Events
<1> QED BY <1>3, <1>4, <1>5, <1>6

(* What an interrupted turn is closed with. *)
LEMMA ClosersAre ==
  ASSUME NEW s \in Seq(Events), Good(s), Crash!OpenAt(s).turn # 0
  PROVE  LET r == Crash!OpenAt(s)
             w == Len(r.pending)
             o == IF r.step = 0 THEN 0 ELSE 1
             c == Crash!Closers(s)
         IN
         /\ c \in Seq(Events) /\ w \in Nat /\ Len(c) = w + o + 1
         /\ \A k \in 1 .. w :
              c[k] = Crash!ResultEvent(r.turn, r.pending[k].step, r.pending[k].call,
                       IF r.pending[k].seq = 0 THEN "TOOL_NOT_STARTED" ELSE "TOOL_OUTCOME_UNKNOWN",
                       r.pending[k].seq)
         /\ r.step # 0 => c[w + 1] = Crash!E("step/end", r.turn, r.step)
         /\ c[w + o + 1] = Crash!E("turn/end", r.turn, 0)
<1> DEFINE r == Crash!OpenAt(s)
<1>1. r \in Opens
  BY DEF Good
<1>2. /\ r.turn \in Nat /\ r.step \in Nat /\ Len(r.pending) \in Nat
      /\ \A k \in 1 .. Len(r.pending) : r.pending[k] \in Waiting
  BY <1>1, Pendings
<1> HIDE DEF r
<1>3. PICK w \in Nat : w = Len(r.pending)
  BY <1>2
<1> DEFINE a == [k \in 1 .. w |-> Crash!Interrupted(r.turn, r.pending[k])]
           b == IF r.step = 0 THEN <<>> ELSE <<Crash!E("step/end", r.turn, r.step)>>
           d == <<Crash!E("turn/end", r.turn, 0)>>
           o == IF r.step = 0 THEN 0 ELSE 1
<1>5. \A k \in 1 .. w : Crash!Interrupted(r.turn, r.pending[k]) \in Events
  BY <1>2, <1>3, EventsAre DEF Waiting, Codes, Crash!Interrupted
<1>6. a \in Seq(Events) /\ Len(a) = w /\ \A k \in 1 .. w :
        a[k] = Crash!Interrupted(r.turn, r.pending[k])
  BY <1>5
<1>7. Crash!E("step/end", r.turn, r.step) \in Events /\ Crash!E("turn/end", r.turn, 0) \in Events
  BY <1>2, EventsAre DEF Kinds
<1>8. PICK u \in Events, v \in Events : u = Crash!E("step/end", r.turn, r.step) /\
             v = Crash!E("turn/end", r.turn, 0)
  BY <1>7
<1>9. r.turn # 0
  BY DEF r
<1>10. Crash!Closers(s) = a \o b \o d
  BY <1>3, <1>9, Zenon DEF Crash!Closers, r
<1> HIDE DEF a
<1>11. CASE r.step = 0
  BY <1>3, <1>6, <1>8, <1>10, <1>11, ConcatEmptySeq, JoinOne, Appended DEF Crash!Interrupted, r
<1>12. CASE r.step # 0
  <2>1. PICK f \in Seq(Events) : f = Append(a, u) /\ Len(f) = w + 1 /\ f[w + 1] = u
                                  /\ \A k \in 1 .. w : f[k] = a[k]
    BY <1>6, <1>8, Appended
  <2>2. PICK c \in Seq(Events) : c = Append(f, v) /\ Len(c) = w + 2 /\ c[w + 2] = v
                                  /\ \A k \in 1 .. w + 1 : c[k] = f[k]
    <3>1. /\ Append(f, v) \in Seq(Events) /\ Len(f) \in Nat /\ Len(Append(f, v)) = Len(f) + 1
          /\ Append(f, v)[Len(f) + 1] = v /\ \A k \in 1 .. Len(f) : Append(f, v)[k] = f[k]
      BY Appended
    <3>2. PICK x \in Seq(Events) : x = Append(f, v)
      BY <3>1
    <3>3. Len(f) = w + 1 /\ (w + 1) + 1 = w + 2
      BY <1>3, <2>1
    <3> QED BY <3>1, <3>2, <3>3
  <2>3. b = <<u>> /\ d = <<v>> /\ o = 1
    BY <1>8, <1>12
  <2>4. Crash!Closers(s) = c
    BY <1>6, <1>8, <1>10, <2>1, <2>2, <2>3, JoinOne
  <2>5. c[w + 1] = u /\ c[w + 2] = v /\ \A k \in 1 .. w : c[k] = a[k]
    BY <1>3, <2>1, <2>2
  <2>6. \A k \in 1 .. w :
          a[k] = Crash!ResultEvent(r.turn, r.pending[k].step, r.pending[k].call,
                   IF r.pending[k].seq = 0 THEN "TOOL_NOT_STARTED" ELSE "TOOL_OUTCOME_UNKNOWN",
                   r.pending[k].seq)
    BY <1>6 DEF Crash!Interrupted
  <2> HIDE DEF b, d
  <2>7. w + o + 1 = w + 2
    BY <2>3
  <2> QED BY <1>3, <1>8, <2>2, <2>3, <2>4, <2>5, <2>6, <2>7 DEF r
<1> QED BY <1>11, <1>12

LEMMA ClosersOfClosed ==
  ASSUME NEW s \in Seq(Events), Crash!OpenAt(s).turn = 0
  PROVE  Crash!Closers(s) = <<>> /\ s \o Crash!Closers(s) = s
<1>1. Crash!Closers(s) = <<>>
  BY DEF Crash!Closers
<1> QED BY <1>1, ConcatEmptySeq

LEMMA ClosersInSeq ==
  ASSUME NEW s \in Seq(Events), Good(s)
  PROVE  Crash!Closers(s) \in Seq(Events) /\ Len(Crash!Closers(s)) \in Nat
<1>1. Crash!Closers(s) \in Seq(Events)
  <2>1. CASE Crash!OpenAt(s).turn = 0
    BY <2>1, ClosersOfClosed, EmptySeq
  <2>2. CASE Crash!OpenAt(s).turn # 0
    BY <2>2, ClosersAre
  <2> QED BY <2>1, <2>2
<1> QED BY <1>1, LenProperties

(* What is open after n of the closers of a log. *)
Closing(s, n, q) ==
  LET r == Crash!OpenAt(s)
      w == Len(r.pending)
  IN
  /\ q.turn = (IF n < Len(Crash!Closers(s)) THEN r.turn ELSE 0)
  /\ q.step = (IF n <= w THEN r.step ELSE 0)
  /\ Len(q.pending) = (IF n <= w THEN w - n ELSE 0)
  /\ \A k \in 1 .. w - n : q.pending[k] = r.pending[n + k]

LEMMA RepairStep ==
  ASSUME NEW s \in Seq(Events), Good(s), Crash!OpenAt(s).turn # 0,
           NEW n \in 0 .. Len(Crash!Closers(s)),
         n < Len(Crash!Closers(s)),
         NEW p \in Seq(Events), Wholly(p), Closing(s, n, Crash!OpenAt(p)), NEW i \in Nat \ {0}
  PROVE  Follows(p, Crash!Closers(s)[n + 1]) /\
           Closing(s, n + 1, Crash!Scan(Crash!OpenAt(p), i, Crash!Closers(s)[n + 1]))
<1>1. PICK r \in Opens : r = Crash!OpenAt(s)
  BY DEF Good
<1>2. PICK c \in Seq(Events) : c = Crash!Closers(s)
  BY ClosersAre
<1>3. PICK w \in Nat : w = Len(r.pending)
  BY <1>1, Pendings
<1>4. PICK q \in Opens : q = Crash!OpenAt(p)
  BY WhollyIsGood DEF Good
<1>5. PICK t \in Traces : t = Crash!TraceOf(p)
  BY WhollyIsGood DEF Good
<1>6. PICK o \in Nat : o = IF r.step = 0 THEN 0 ELSE 1
  OBVIOUS
<1> DEFINE opened == r.step # 0
<1>18. (opened => o = 1) /\ (~opened => o = 0)
  BY <1>6
<1>7. /\ Len(c) = w + o + 1
      /\ \A k \in 1 .. w :
           c[k] = Crash!ResultEvent(r.turn, r.pending[k].step, r.pending[k].call,
                    IF r.pending[k].seq = 0 THEN "TOOL_NOT_STARTED" ELSE "TOOL_OUTCOME_UNKNOWN",
                    r.pending[k].seq)
      /\ r.step # 0 => c[w + 1] = Crash!E("step/end", r.turn, r.step)
      /\ c[w + o + 1] = Crash!E("turn/end", r.turn, 0)
  BY <1>1, <1>2, <1>3, <1>6, ClosersAre
<1>8. n \in Nat /\ n < w + o + 1
  BY <1>2, <1>7
<1>9. /\ q.turn = r.turn /\ r.turn # 0
      /\ q.step = (IF n <= w THEN r.step ELSE 0)
      /\ Len(q.pending) = (IF n <= w THEN w - n ELSE 0)
      /\ \A k \in 1 .. w - n : q.pending[k] = r.pending[n + k]
  BY <1>1, <1>2, <1>3, <1>4 DEF Closing
<1>10. PICK e \in Events : e = c[n + 1]
  BY <1>2, <1>8, LenProperties, ElementOfSeq
<1>11. PICK g : g = Crash!Scan(q, i, e)
  OBVIOUS
<1>12. SUFFICES
        /\ Allowed(t, q, e) /\ e.kind # "assistant/message" /\ e.calls = <<>>
        /\ g.turn = (IF n + 1 < w + o + 1 THEN r.turn ELSE 0)
        /\ g.step = (IF n + 1 <= w THEN r.step ELSE 0)
        /\ Len(g.pending) = (IF n + 1 <= w THEN w - (n + 1) ELSE 0)
        /\ \A k \in 1 .. w - (n + 1) : g.pending[k] = r.pending[n + 1 + k]
  BY <1>1, <1>2, <1>3, <1>4, <1>5, <1>7, <1>10, <1>11, <1>12 DEF Follows, Closing
<1>13. /\ \A k \in 1 .. w : r.pending[k].step = r.step
       /\ r.step = 0 => w = 0
       /\ \A k, j \in 1 .. Len(q.pending) : q.pending[k].call = q.pending[j].call => k = j
  BY <1>1, <1>3, <1>4, <1>5, WhollyIsGood, AgreeIs DEF Good
<1>14. CASE n < w
  <2>1. n + 1 \in 1 .. w /\ n <= w /\ 1 \in 1 .. w - n /\ w - n # 0
    BY <1>8, <1>14
  <2>2. e = Crash!ResultEvent(r.turn, r.pending[n + 1].step, r.pending[n + 1].call,
              IF r.pending[n + 1].seq = 0 THEN "TOOL_NOT_STARTED" ELSE "TOOL_OUTCOME_UNKNOWN",
              r.pending[n + 1].seq)
    BY <1>7, <1>10, <2>1
  <2>3. /\ e.kind = "tool/result" /\ e.turn = r.turn /\ e.step = r.pending[n + 1].step
        /\ e.call = r.pending[n + 1].call /\ e.calls = <<>>
        /\ r.pending[n + 1].seq = 0 <=> e.code = "TOOL_NOT_STARTED"
    BY <2>2 DEF Crash!ResultEvent, Crash!E
  <2>4. e.step = r.step /\ r.step # 0
    BY <1>13, <2>1, <2>3
  <2>5. q.pending[1] = r.pending[n + 1] /\ q.step = r.step /\ Len(q.pending) = w - n
    BY <1>9, <2>1
  <2>6. q.pending # <<>>
    BY <2>1, <2>5, Pendings
  <2>7. Allowed(t, q, e)
    BY <1>9, <2>3, <2>4, <2>5, <2>6 DEF Allowed, InOpenStep
  <2>8. /\ g.turn = q.turn /\ g.step = q.step /\ Len(g.pending) = Len(q.pending) - 1
        /\ \A k \in 1 .. Len(q.pending) - 1 : g.pending[k] = q.pending[k + 1]
    <3>1. q.pending[1].call = e.call
      BY <2>3, <2>5
    <3> QED BY <1>11, <1>13, <2>3, <2>6, <3>1, ScanOfResult
  <2>9. /\ n + 1 < w + o + 1 /\ n + 1 <= w /\ w - n - 1 = w - (n + 1)
        /\ \A k \in 1 .. w - (n + 1) : k + 1 \in 1 .. w - n /\ n + (k + 1) = n + 1 + k
    BY <1>6, <1>8, <2>1
  <2>10. \A k \in 1 .. w - (n + 1) : g.pending[k] = r.pending[n + 1 + k]
    BY <1>9, <2>5, <2>8, <2>9
  <2> QED BY <1>9, <2>3, <2>5, <2>7, <2>8, <2>9, <2>10
<1>15. CASE n = w /\ r.step # 0
  <2>1. e = Crash!E("step/end", r.turn, r.step) /\ o = 1
    BY <1>6, <1>7, <1>10, <1>15
  <2>2. e.kind = "step/end" /\ e.turn = r.turn /\ e.step = r.step /\ e.calls = <<>>
    BY <2>1 DEF Crash!E
  <2>3. q.pending = <<>> /\ q.step = r.step
    BY <1>3, <1>9, <1>15, Pendings
  <2>4. Allowed(t, q, e)
    BY <1>9, <1>15, <2>2, <2>3 DEF Allowed, InOpenStep
  <2>5. g = [turn |-> q.turn, step |-> 0, pending |-> <<>>]
    BY <1>11, <2>2, ScanOfRest
  <2>6. Len(<<>>) = 0 /\ n + 1 < w + o + 1 /\ ~(n + 1 <= w) /\ 1 .. w - (n + 1) = {}
    BY <1>3, <1>15, <2>1
  <2>7. g.turn = r.turn /\ g.step = 0 /\ Len(g.pending) = 0
    BY <1>9, <2>5, <2>6
  <2> QED BY <2>2, <2>4, <2>6, <2>7
<1>16. CASE n = w + o
  <2>1. e = Crash!E("turn/end", r.turn, 0)
    BY <1>7, <1>10, <1>16
  <2>2. e.kind = "turn/end" /\ e.turn = r.turn /\ e.calls = <<>>
    BY <2>1 DEF Crash!E
  <2>3. q.step = 0
    BY <1>3, <1>9, <1>16, <1>18
  <2>4. Allowed(t, q, e)
    BY <1>9, <2>2, <2>3 DEF Allowed
  <2>5. g = [turn |-> 0, step |-> 0, pending |-> <<>>]
    BY <1>11, <2>2, ScanOfRest
  <2>6. Len(<<>>) = 0 /\ ~(n + 1 < w + o + 1) /\ ~(n + 1 <= w) /\ 1 .. w - (n + 1) = {}
    BY <1>16
  <2>7. g.turn = 0 /\ g.step = 0 /\ Len(g.pending) = 0
    BY <2>5, <2>6
  <2> QED BY <2>2, <2>4, <2>6, <2>7
<1>17. n < w \/ (n = w /\ opened) \/ n = w + o
  BY <1>8, <1>18
<1> QED BY <1>14, <1>15, <1>16, <1>17

(* However much of a repair is written: the log satisfies its relations. *)
LEMMA RepairWrites ==
  ASSUME NEW s \in Seq(Events), Wholly(s)
  PROVE  \A n \in 0 .. Len(Crash!Closers(s)) :
           /\ s \o SubSeq(Crash!Closers(s), 1, n) \in Seq(Events)
           /\ Wholly(s \o SubSeq(Crash!Closers(s), 1, n))
           /\ Longer(s, s \o SubSeq(Crash!Closers(s), 1, n))
           /\ Crash!OpenAt(s).turn # 0 => Closing(s, n,
                Crash!OpenAt(s \o SubSeq(Crash!Closers(s), 1, n)))
<1>1. Good(s)
  BY WhollyIsGood
<1>2. PICK c \in Seq(Events) : c = Crash!Closers(s)
  BY <1>1, ClosersInSeq
<1>3. PICK l \in Nat : l = Len(c)
  BY LenProperties
<1> DEFINE Fits(n) == /\ s \o SubSeq(c, 1, n) \in Seq(Events) /\ Wholly(s \o SubSeq(c, 1, n))
                      /\ Longer(s, s \o SubSeq(c, 1, n))
                      /\ Crash!OpenAt(s).turn # 0 =>
                           Closing(s, n, Crash!OpenAt(s \o SubSeq(c, 1, n)))
           Off == {n \in 0 .. l : ~Fits(n)}
<1>4. Fits(0)
  <2>1. 0 \in 0 .. Len(c)
    BY <1>3
  <2>2. SubSeq(c, 1, 0) = <<>>
    BY <2>1, PrefixIs, EmptySeq
  <2>3. s \o <<>> = s
    BY ConcatEmptySeq
  <2>4. Longer(s, s)
    BY LenProperties DEF Longer
  <2>5. Crash!OpenAt(s).turn # 0 => Closing(s, 0, Crash!OpenAt(s))
    <3> SUFFICES ASSUME Crash!OpenAt(s).turn # 0 PROVE Closing(s, 0, Crash!OpenAt(s))
      OBVIOUS
    <3>1. PICK r \in Opens : r = Crash!OpenAt(s)
      BY <1>1 DEF Good
    <3>2. PICK w \in Nat : w = Len(r.pending)
      BY Pendings
    <3>3. PICK o \in {0, 1} : o = IF r.step = 0 THEN 0 ELSE 1
      OBVIOUS
    <3>4. Len(c) = w + o + 1
      BY <1>1, <1>2, <3>1, <3>2, <3>3, ClosersAre
    <3>5. 0 < w + o + 1 /\ 0 <= w /\ w - 0 = w /\ \A k \in 1 .. w : 0 + k = k
      BY <3>3
    <3>6. /\ r.turn = (IF 0 < Len(c) THEN r.turn ELSE 0)
          /\ r.step = (IF 0 <= w THEN r.step ELSE 0)
          /\ Len(r.pending) = (IF 0 <= w THEN w - 0 ELSE 0)
          /\ \A k \in 1 .. w - 0 : r.pending[k] = r.pending[0 + k]
      BY <3>2, <3>4, <3>5
    <3> QED BY <1>2, <3>1, <3>2, <3>6, Zenon DEF Closing
  <2> QED BY <2>2, <2>3, <2>4, <2>5
<1>5. ASSUME NEW n \in 0 .. l, n < l, Fits(n) PROVE Fits(n + 1)
  <2>1. PICK p \in Seq(Events) : p = s \o SubSeq(c, 1, n)
    BY <1>5
  <2>2. Wholly(p) /\ Longer(s, p) /\ Closing(s, n, Crash!OpenAt(p)) /\ Crash!OpenAt(s).turn # 0
    BY <1>2, <1>3, <1>5, <2>1, EmptySeq, ClosersOfClosed
  <2>3. s \o SubSeq(c, 1, n + 1) = Append(p, c[n + 1]) /\ c[n + 1] \in Events
    BY <1>3, <1>5, <2>1, JoinNext
  <2>4. Len(p) + 1 \in Nat \ {0}
    BY LenProperties
  <2>5. Follows(p, c[n + 1]) /\ Closing(s, n + 1,
          Crash!Scan(Crash!OpenAt(p), Len(p) + 1, c[n + 1]))
    BY <1>1, <1>2, <1>3, <1>5, <2>2, <2>4, RepairStep
  <2>6. Append(p, c[n + 1]) \in Seq(Events) /\ Wholly(Append(p, c[n + 1]))
    BY <2>2, <2>5, WhollyGrows
  <2>7. Crash!OpenAt(Append(p, c[n + 1])) = Crash!Scan(Crash!OpenAt(p), Len(p) + 1, c[n + 1])
    BY <2>3, OpenAtAppend
  <2>8. Longer(s, Append(p, c[n + 1]))
    BY <2>2, <2>3, <2>6, LongerIs, LongerStill
  <2> QED BY <2>3, <2>5, <2>6, <2>7, <2>8
<1> HIDE DEF Fits
<1>6. Off = {}
  <2> SUFFICES ASSUME Off # {} PROVE FALSE
    OBVIOUS
  <2>1. PICK n \in Off : \A m \in Off : n <= m
    <3>1. Off \in SUBSET Nat
      OBVIOUS
    <3> HIDE DEF Off
    <3> QED BY <3>1, Smallest
  <2>2. n # 0
    BY <1>4
  <2>3. n - 1 \in 0 .. l /\ n - 1 < l /\ (n - 1) + 1 = n /\ ~(n <= n - 1)
    BY <2>2
  <2>4. Fits(n - 1)
    BY <2>1, <2>3
  <2>5. Fits((n - 1) + 1)
    BY <1>5, <2>3, <2>4
  <2> QED BY <2>3, <2>5
<1> QED BY <1>2, <1>3, <1>6 DEF Fits

(* The two modules count alike. *)
LEMMA CrashSizes == \A S : Crash!Cardinality(S) = Cardinality(S)
BY DEF Crash!Cardinality, Cardinality

(* A transcript in which nothing is pending is one a provider takes. *)
LEMMA AnsweredWhenNothingPends ==
  ASSUME NEW s \in Seq(Events), Good(s), Crash!OpenAt(s).pending = <<>>
  PROVE  Crash!Answered(s)
<1>1. PICK m \in Seq(Events) : m = Crash!Transcript(s)
  BY DEF Good
<1>2. PICK z \in Nat : z = Len(m)
  BY LenProperties
<1>3. Paired(s, Crash!OpenAt(s), m)
  BY <1>1 DEF Good
<1>4. Len(<<>>) = 0
  OBVIOUS
<1>5. ASSUME NEW n \in 1 .. z, m[n].kind = "assistant/message", NEW k \in 1 .. Len(m[n].calls)
      PROVE  n + k <= z /\ m[n + k].kind = "tool/result" /\ m[n + k].call = m[n].calls[k]
  <2>1. m[n] \in Events
    BY <1>2, ElementOfSeq
  <2>2. Len(m[n].calls) \in Nat
    BY <2>1, LenProperties DEF Events
  <2>3. PICK u \in Nat, v \in Nat : u = n /\ v = k
    BY <2>2
  <2>4. IF n + k <= z THEN m[n + k].kind = "tool/result" /\ m[n + k].call = m[n].calls[k]
        ELSE n + k - z <= 0
    BY <1>2, <1>3, <1>4, <1>5 DEF Paired
  <2>5. u + v <= z \/ ~(u + v - z <= 0)
    OBVIOUS
  <2> QED BY <2>3, <2>4, <2>5
<1>6. ASSUME NEW n \in 1 .. z, m[n].kind = "tool/result"
      PROVE  Crash!Cardinality(Crash!ResultsOf(m, m[n].call)) = 1
  <2>1. \A j \in 1 .. z : m[j].kind = "tool/result" /\ m[j].call = m[n].call => j = n
    BY <1>2, <1>3, <1>6 DEF Paired
  <2>2. Crash!ResultsOf(m, m[n].call) = {n}
    BY <1>2, <1>6, <2>1 DEF Crash!ResultsOf
  <2> QED BY <2>2, FS_Singleton, CrashSizes
<1> QED BY <1>1, <1>2, <1>5, <1>6 DEF Crash!Answered

LEMMA RepairIsDone ==
  ASSUME NEW s \in Seq(Events), Wholly(s)
  PROVE  LET p == s \o Crash!Closers(s) IN
         /\ p \in Seq(Events) /\ Wholly(p) /\ Longer(s, p) /\ Crash!OpenAt(p).turn = 0
         /\ Crash!TraceOf(p).ok /\ Crash!TraceOf(p).openTurn = 0
         /\ Crash!TraceOf(p).openStep = 0
         /\ Crash!Answered(p) /\ Crash!Closers(p) = <<>>
<1>1. Good(s)
  BY WhollyIsGood
<1>2. PICK c \in Seq(Events) : c = Crash!Closers(s)
  BY <1>1, ClosersInSeq
<1>3. PICK l \in Nat : l = Len(c)
  BY LenProperties
<1>4. l \in 0 .. Len(c) /\ SubSeq(c, 1, l) = c
  BY <1>3, WholePrefix
<1>5. PICK p : p = s \o c
  OBVIOUS
<1>6. p \in Seq(Events) /\ Wholly(p) /\ Longer(s, p) /\
        (Crash!OpenAt(s).turn # 0 => Closing(s, l, Crash!OpenAt(p)))
  BY <1>2, <1>4, <1>5, RepairWrites
<1>7. Crash!OpenAt(p).turn = 0
  <2>1. CASE Crash!OpenAt(s).turn = 0
    BY <1>2, <1>5, <2>1, ClosersOfClosed
  <2>2. CASE Crash!OpenAt(s).turn # 0
    BY <1>2, <1>3, <1>6, <2>2 DEF Closing
  <2> QED BY <2>1, <2>2
<1>8. Good(p)
  BY <1>6, WhollyIsGood
<1>9. Crash!OpenAt(p) \in Opens /\ Agree(Crash!TraceOf(p), Crash!OpenAt(p))
  BY <1>8 DEF Good
<1>10. Crash!TraceOf(p).ok /\ Crash!TraceOf(p).openTurn = 0 /\ Crash!TraceOf(p).openStep = 0 /\
         Crash!OpenAt(p).pending = <<>>
  BY <1>7, <1>9, AgreeIs
<1>11. Crash!Answered(p) /\ Crash!Closers(p) = <<>>
  BY <1>6, <1>7, <1>8, <1>10, AnsweredWhenNothingPends, ClosersOfClosed
<1> QED BY <1>2, <1>5, <1>6, <1>7, <1>10, <1>11


--------------------------------------------------------------------------------
(* The steps of a process *)

LEMMA Writing ==
  ASSUME NEW s \in Seq(Events), Wholly(s), NEW e, Follows(s, e)
  PROVE  LET p == s \o <<e>> IN
         /\ p \in Seq(Events) /\ Wholly(p) /\ Longer(s, p) /\ Len(s) \in Nat
         /\ Len(p) = Len(s) + 1 /\ p[Len(s) + 1] = e /\ p = Append(s, e)
         /\ Crash!OpenAt(p) = Crash!Scan(Crash!OpenAt(s), Len(s) + 1, e)
         /\ Crash!TraceOf(p) = Crash!Advance(Crash!TraceOf(s), e)
<1>1. e \in Events
  BY DEF Follows
<1>2. s \o <<e>> = Append(s, e)
  BY <1>1, JoinOne
<1>3. /\ Append(s, e) \in Seq(Events) /\ Wholly(Append(s, e)) /\ Longer(s, Append(s, e))
      /\ Len(s) \in Nat
      /\ Len(Append(s, e)) = Len(s) + 1 /\ Append(s, e)[Len(s) + 1] = e
  BY <1>1, WhollyGrows, LongerIs, Appended
<1>4. /\ Crash!OpenAt(Append(s, e)) = Crash!Scan(Crash!OpenAt(s), Len(s) + 1, e)
      /\ Crash!TraceOf(Append(s, e)) = Crash!Advance(Crash!TraceOf(s), e)
  BY <1>1, OpenAtAppend, TraceOfAppend
<1> QED BY <1>2, <1>3, <1>4

(* What the invariant says of a log and its bounds. *)
LEMMA LogKnown ==
  ASSUME Crash!Bounded, CrashInv
  PROVE  /\ cSetup \in CrashSetups /\ cSetup.turns \in Nat /\ cSetup.steps \in Nat
         /\ cSetup.calls \in Nat
         /\ cSetup.faults \in Nat /\ cSetup.crashes \in Nat
         /\ cLog \in Seq(Events) /\ Len(cLog) \in Nat /\ Wholly(cLog) /\ Good(cLog)
         /\ Crash!OpenAt(cLog) \in Opens /\ Crash!TraceOf(cLog) \in Traces
         /\ Agree(Crash!TraceOf(cLog), Crash!OpenAt(cLog))
         /\ Recorded(cLog, Crash!OpenAt(cLog)) /\ TurnsCount(cLog, Crash!TraceOf(cLog))
         /\ Crash!OpenAt(cLog).turn \in Nat /\ Crash!OpenAt(cLog).step \in Nat
         /\ durable \in Nat /\ durable <= Len(cLog) /\ cTurn \in Nat /\ cTurn <= cSetup.turns
         /\ cStep \in Nat /\ cStep <= cSetup.steps /\ awaited \in Nat /\ awaited <= Len(cLog)
         /\ minted \in Nat /\ minted <= cSetup.calls
         /\ calls \in Seq(Nat \ {0}) /\ phase \in Seq(Crash!Phases) /\ goal \in Seq(Nat)
         /\ Len(calls) \in Nat
         /\ Len(phase) = Len(calls) /\ Len(goal) = Len(calls)
<1>1. cSetup \in CrashSetups /\ cSetup.turns \in Nat /\ cSetup.steps \in Nat /\
        cSetup.calls \in Nat
      /\ cSetup.faults \in Nat /\ cSetup.crashes \in Nat
  BY DEF Crash!Bounded, CrashInv, CrashTyped, Crash!TypeOK
<1>2. cLog \in Seq(Events) /\ Len(cLog) \in Nat /\ Wholly(cLog)
  BY LenProperties DEF CrashInv, CrashTyped
<1>3. Good(cLog)
  BY <1>2, WhollyIsGood
<1>4. /\ Crash!OpenAt(cLog) \in Opens /\ Crash!TraceOf(cLog) \in Traces
      /\ Agree(Crash!TraceOf(cLog), Crash!OpenAt(cLog))
      /\ Recorded(cLog, Crash!OpenAt(cLog)) /\ TurnsCount(cLog, Crash!TraceOf(cLog))
  BY <1>3 DEF Good
<1>5. Crash!OpenAt(cLog).turn \in Nat /\ Crash!OpenAt(cLog).step \in Nat
  BY <1>4 DEF Opens
<1>6. /\ durable \in 0 .. Len(cLog) /\ cTurn \in 0 .. cSetup.turns
      /\ cStep \in 0 .. cSetup.steps
      /\ awaited \in 0 .. Len(cLog) /\ minted \in 0 .. cSetup.calls
      /\ Len(phase) = Len(calls) /\ Len(goal) = Len(calls)
  BY DEF CrashInv, CrashTyped, Crash!TypeOK
<1>7. calls \in Seq(Nat \ {0}) /\ phase \in Seq(Crash!Phases) /\ goal \in Seq(Nat) /\
        Len(calls) \in Nat
  BY LenProperties DEF CrashInv, CrashTyped
<1>8. /\ durable \in Nat /\ durable <= Len(cLog) /\ cTurn \in Nat /\ cTurn <= cSetup.turns
      /\ cStep \in Nat /\ cStep <= cSetup.steps /\ awaited \in Nat /\ awaited <= Len(cLog)
      /\ minted \in Nat /\ minted <= cSetup.calls
  BY <1>1, <1>2, <1>6
<1> QED BY <1>1, <1>2, <1>3, <1>4, <1>5, <1>6, <1>7, <1>8

LEMMA EnteredStays ==
  ASSUME Entered, ran' = ran, durable \in Nat, durable' \in Nat, durable <= durable',
         \A n \in 1 .. durable : cLog'[n] = cLog[n]
  PROVE  Entered'
<1> SUFFICES ASSUME NEW c \in ran
             PROVE  \E n \in 1 .. durable' : cLog'[n].kind = "tool/call" /\ cLog'[n].call = c
  BY DEF Entered
<1>1. PICK n \in 1 .. durable : cLog[n].kind = "tool/call" /\ cLog[n].call = c
  BY DEF Entered
<1>2. n \in 1 .. durable'
  OBVIOUS
<1> QED BY <1>1, <1>2

LEMMA EnteredLonger ==
  ASSUME Entered, ran' = ran, durable' = durable, durable \in Nat, durable <= Len(cLog),
         Len(cLog) \in Nat, Longer(cLog, cLog')
  PROVE  Entered'
<1>1. \A n \in 1 .. durable : n \in 1 .. Len(cLog)
  OBVIOUS
<1>2. \A n \in 1 .. durable : cLog'[n] = cLog[n]
  BY <1>1 DEF Longer
<1> QED BY <1>2, EnteredStays

(* One more event of the driver, while no calls are worked on. *)
LEMMA DriverWrites ==
  ASSUME Crash!Bounded, CrashInv, NEW e, Follows(cLog, e), cLog' = cLog \o <<e>>,
           UNCHANGED cSetup, Crash!Same,
         e.call <= minted, e.turn <= cSetup.turns, \A j \in 1 .. Len(e.calls) :
           e.calls[j] <= minted
  PROVE  /\ cLog' \in Seq(Events) /\ Wholly(cLog') /\ Len(cLog') = Len(cLog) + 1
         /\ Crash!OpenAt(cLog') = Crash!Scan(Crash!OpenAt(cLog), Len(cLog) + 1, e)
         /\ Crash!TraceOf(cLog') = Crash!Advance(Crash!TraceOf(cLog), e)
         /\ Within(cLog', minted', cSetup'.turns) /\ Entered' /\ durable' \in 0 .. Len(cLog')
         /\ Longer(cLog, cLog')
<1>1. /\ cLog \in Seq(Events) /\ Wholly(cLog) /\ Len(cLog) \in Nat /\ durable \in Nat
      /\ durable <= Len(cLog)
      /\ minted \in Nat /\ cSetup.turns \in Nat
  BY LogKnown
<1>2. /\ cLog' \in Seq(Events) /\ Wholly(cLog') /\ Len(cLog') = Len(cLog) + 1
      /\ Longer(cLog, cLog')
      /\ Crash!OpenAt(cLog') = Crash!Scan(Crash!OpenAt(cLog), Len(cLog) + 1, e)
      /\ Crash!TraceOf(cLog') = Crash!Advance(Crash!TraceOf(cLog), e)
      /\ cLog' = Append(cLog, e)
  BY <1>1, Writing
<1>3. Within(cLog', minted', cSetup'.turns)
  BY <1>1, <1>2, WithinGrows DEF Follows, CrashInv, Made, Crash!Same, Crash!ghosts
<1>4. Entered'
  BY <1>1, <1>2, EnteredLonger DEF CrashInv, Crash!Same, Crash!ghosts
<1>5. durable' \in 0 .. Len(cLog')
  BY <1>1, <1>2 DEF Crash!Same
<1> QED BY <1>2, <1>3, <1>4, <1>5

(* The calls of a step as they were, over a longer log. *)
LEMMA PoolStays ==
  ASSUME Crash!Bounded, CrashInv, UNCHANGED Crash!pool, Len(cLog') \in Nat,
           Len(cLog) <= Len(cLog')
  PROVE  /\ \A i \in 1 .. Len(calls') : phase'[i] \in Crash!Phases /\ goal'[i] \in 0 .. Len(cLog')
         /\ Len(phase') = Len(calls') /\ Len(goal') = Len(calls')
         /\ calls' \in Seq(Nat \ {0}) /\ phase' \in Seq(Crash!Phases) /\ goal' \in Seq(Nat)
         /\ minted' = minted => \A i \in 1 .. Len(calls') : calls'[i] <= minted'
<1>1. /\ Len(cLog) \in Nat
      /\ calls \in Seq(Nat \ {0}) /\ phase \in Seq(Crash!Phases) /\ goal \in Seq(Nat)
      /\ Len(phase) = Len(calls) /\ Len(goal) = Len(calls)
  BY LogKnown
<1>2. calls' = calls /\ phase' = phase /\ goal' = goal
  BY DEF Crash!pool
<1>3. \A i \in 1 .. Len(calls) : phase[i] \in Crash!Phases /\ goal[i] \in 0 .. Len(cLog) /\
        calls[i] <= minted
  BY DEF CrashInv, CrashTyped, Crash!TypeOK, Made, Crash!Index
<1>4. \A g \in 0 .. Len(cLog) : g \in 0 .. Len(cLog')
  BY <1>1
<1> QED BY <1>1, <1>2, <1>3, <1>4

LEMMA StartTurnKeeps ==
  ASSUME Crash!Bounded, CrashInv, Crash!StartTurn, Crash!Fixed
  PROVE  CrashInv'
<1> DEFINE e == Crash!E("turn/start", cTurn + 1, 0)
<1>1. PICK l \in Nat : l = Len(cLog)
  BY LogKnown
<1>2. PICK t \in Traces : t = Crash!TraceOf(cLog)
  BY LogKnown
<1>3. PICK r \in Opens : r = Crash!OpenAt(cLog)
  BY LogKnown
<1>4. /\ cTurn \in Nat /\ cSetup.turns \in Nat /\ cSetup.steps \in Nat /\ minted \in Nat
      /\ Agree(t, r)
  BY <1>2, <1>3, LogKnown
<1>5. /\ cPc = "idle" /\ cTurn < cSetup.turns /\ cTurn' = cTurn + 1 /\ cStep' = 0
      /\ cAborted' = FALSE
      /\ cLog' = cLog \o <<e>> /\ cPc' = "prestep" /\ awaited' = Len(cLog) + 1
      /\ UNCHANGED Crash!pool /\ Crash!Same
  BY DEF Crash!StartTurn, Crash!Write
<1>6. /\ e \in Events /\ e.kind = "turn/start" /\ e.turn = cTurn + 1 /\ e.step = 0
      /\ e.calls = <<>>
      /\ e.call = 0
  <2>1. "turn/start" \in Kinds /\ cTurn + 1 \in Nat /\ 0 \in Nat
    BY <1>4 DEF Kinds
  <2> QED BY <2>1, EventsAre DEF Crash!E
<1> HIDE DEF e
<1>7. r.turn = 0 /\ t.nextTurn = cTurn + 1
  BY <1>2, <1>3, <1>5 DEF CrashInv, Standing
<1>8. 1 .. Len(<<>>) = {}
  OBVIOUS
<1>9. Follows(cLog, e)
  BY <1>2, <1>3, <1>6, <1>7, <1>8 DEF Follows, Allowed
<1>10. /\ cLog' \in Seq(Events) /\ Wholly(cLog') /\ Len(cLog') = l + 1
       /\ Crash!OpenAt(cLog') = Crash!Scan(r, l + 1, e)
       /\ Crash!TraceOf(cLog') = Crash!Advance(t, e)
       /\ Within(cLog', minted', cSetup'.turns) /\ Entered' /\ durable' \in 0 .. Len(cLog')
  BY <1>1, <1>2, <1>3, <1>4, <1>5, <1>6, <1>8, <1>9, DriverWrites DEF Crash!Fixed
<1>11. Crash!Scan(r, l + 1, e) = [turn |-> cTurn + 1, step |-> 0, pending |-> <<>>]
  BY <1>6, ScanOfRest
<1>12. Crash!Advance(t, e).nextStep = 1
  BY <1>6, AdvanceIs
<1>13. /\ \A i \in 1 .. Len(calls') : phase'[i] \in Crash!Phases /\ goal'[i] \in 0 .. Len(cLog')
       /\ Len(phase') = Len(calls') /\ Len(goal') = Len(calls')
       /\ calls' \in Seq(Nat \ {0}) /\ phase' \in Seq(Crash!Phases) /\ goal' \in Seq(Nat)
       /\ \A i \in 1 .. Len(calls') : calls'[i] <= minted'
  BY <1>1, <1>5, <1>10, PoolStays DEF Crash!Same, Crash!ghosts
<1>14. Crash!TypeOK'
  <2>1. /\ cSetup' \in CrashSetups /\ minted' \in 0 .. cSetup'.calls
        /\ ran' \subseteq 1 .. minted'
        /\ faults' \in 0 .. cSetup'.faults /\ crashes' \in 0 .. cSetup'.crashes
    BY <1>5 DEF CrashInv, CrashTyped, Crash!TypeOK, Crash!Same, Crash!ghosts, Crash!Fixed
  <2>2. cTurn' \in 0 .. cSetup'.turns /\ cStep' \in 0 .. cSetup'.steps /\
          awaited' \in 0 .. Len(cLog')
    BY <1>1, <1>4, <1>5, <1>10 DEF Crash!Fixed
  <2> QED BY <1>5, <1>10, <1>13, <2>1, <2>2 DEF Crash!TypeOK, Crash!Places, Crash!Index
<1>15. Standing'
  BY <1>4, <1>5, <1>10, <1>11, <1>12 DEF Standing
<1>16. Working'
  BY <1>5 DEF Working
<1>17. Made'
  BY <1>10, <1>13 DEF Made, Crash!Index
<1> QED BY <1>10, <1>13, <1>14, <1>15, <1>16, <1>17 DEF CrashInv, CrashTyped


LEMMA NoCallsLeft ==
  ASSUME calls' = <<>>, phase' = <<>>, goal' = <<>>
  PROVE  /\ \A i \in 1 .. Len(calls') : phase'[i] \in Crash!Phases /\ goal'[i] \in 0 .. Len(cLog')
         /\ Len(phase') = Len(calls') /\ Len(goal') = Len(calls')
         /\ calls' \in Seq(Nat \ {0}) /\ phase' \in Seq(Crash!Phases) /\ goal' \in Seq(Nat)
         /\ \A i \in 1 .. Len(calls') : calls'[i] <= minted'
<1>1. 1 .. Len(<<>>) = {} /\ Len(<<>>) = 0 /\ \A S : <<>> \in Seq(S)
  BY EmptySeq
<1> QED BY <1>1

LEMMA DriverTypes ==
  ASSUME Crash!Bounded, CrashInv, Crash!Same, Crash!Fixed, cLog' \in Seq(Events),
           durable' \in 0 .. Len(cLog'),
         \A i \in 1 .. Len(calls') : phase'[i] \in Crash!Phases /\ goal'[i] \in 0 .. Len(cLog'),
         Len(phase') = Len(calls'), Len(goal') = Len(calls'),
         calls' \in Seq(Nat \ {0}), phase' \in Seq(Crash!Phases), goal' \in Seq(Nat),
         cPc' \in Crash!Places, cAborted' \in BOOLEAN,
         cTurn' \in 0 .. cSetup.turns, cStep' \in 0 .. cSetup.steps, awaited' \in 0 .. Len(cLog')
  PROVE  CrashTyped'
<1>1. /\ cSetup' \in CrashSetups /\ minted' \in 0 .. cSetup'.calls
      /\ ran' \subseteq 1 .. minted'
      /\ faults' \in 0 .. cSetup'.faults /\ crashes' \in 0 .. cSetup'.crashes
  BY DEF CrashInv, CrashTyped, Crash!TypeOK, Crash!Same, Crash!ghosts, Crash!Fixed
<1>2. cTurn' \in 0 .. cSetup'.turns /\ cStep' \in 0 .. cSetup'.steps
  BY DEF Crash!Fixed
<1> QED BY <1>1, <1>2 DEF CrashTyped, Crash!TypeOK, Crash!Index

LEMMA QuietKeeps ==
  ASSUME Crash!Bounded, CrashInv, Crash!Fixed, UNCHANGED <<cLog, Crash!pool, ran, minted,
           crashes, cTurn, cStep, awaited>>,
         durable' \in durable .. Len(cLog), cPc' \in Crash!Places, cAborted' \in BOOLEAN,
         faults' \in 0 .. cSetup.faults, Standing', cPc' = "tools" => cPc = "tools"
  PROVE  CrashInv'
<1>1. /\ cLog \in Seq(Events) /\ Len(cLog) \in Nat /\ durable \in Nat /\ durable <= Len(cLog)
  BY LogKnown
<1>2. /\ cLog' = cLog /\ calls' = calls /\ phase' = phase /\ goal' = goal /\ cSetup' = cSetup
      /\ ran' = ran /\ minted' = minted
  BY DEF Crash!Fixed, Crash!pool
<1>3. durable' \in Nat /\ durable <= durable' /\ durable' \in 0 .. Len(cLog)
  BY <1>1
<1>4. CrashTyped'
  BY <1>2, <1>3 DEF CrashInv, CrashTyped, Crash!TypeOK, Crash!Index
<1>5. Working'
  BY <1>2 DEF CrashInv, Working, Crash!Started, Crash!Index
<1>6. Made'
  BY <1>2 DEF CrashInv, Made, Within, Crash!Index
<1>7. Entered'
  BY <1>1, <1>2, <1>3, EnteredStays DEF CrashInv
<1>8. Wholly(cLog)'
  BY <1>2 DEF CrashInv
<1> QED BY <1>4, <1>5, <1>6, <1>7, <1>8 DEF CrashInv

LEMMA DriverFlushFailsKeeps ==
  ASSUME Crash!Bounded, CrashInv, Crash!DriverFlushFails, Crash!Fixed
  PROVE  CrashInv'
<1>1. /\ cPc \in {"prestep", "step"} /\ faults < cSetup.faults /\ faults' = faults + 1
      /\ cPc' = (IF cPc = "prestep" THEN "turnend" ELSE "stepfail")
      /\ UNCHANGED <<cTurn, cStep, awaited, cAborted, cLog, durable, Crash!pool, ran, minted,
           seen, crashes>>
  BY DEF Crash!DriverFlushFails, Crash!FlushFails, Crash!Goto, Crash!ghosts
<1>2. cSetup.faults \in Nat /\ Len(cLog) \in Nat /\ durable \in Nat /\ durable <= Len(cLog)
  BY LogKnown
<1>3. faults \in 0 .. cSetup.faults /\ cAborted \in BOOLEAN
  BY DEF CrashInv, CrashTyped, Crash!TypeOK
<1>4. faults' \in 0 .. cSetup.faults /\ durable' \in durable .. Len(cLog) /\ cAborted' \in BOOLEAN
  BY <1>1, <1>2, <1>3
<1>5. cPc' \in Crash!Places /\ (cPc' = "tools" => cPc = "tools")
  BY <1>1 DEF Crash!Places
<1>6. Standing'
  BY <1>1 DEF CrashInv, Standing
<1> QED BY <1>1, <1>4, <1>5, <1>6, QuietKeeps

LEMMA SendRequestKeeps ==
  ASSUME Crash!Bounded, CrashInv, Crash!SendRequest, Crash!Fixed
  PROVE  CrashInv'
<1>1. /\ cPc = "step" /\ durable >= awaited /\ seen' = cLog /\ cPc' = "answer"
      /\ UNCHANGED <<cTurn, cStep, awaited, cAborted, cLog, durable, Crash!pool, ran, minted,
           faults, crashes>>
  BY DEF Crash!SendRequest, Crash!Flushed, Crash!Goto
<1>2. Len(cLog) \in Nat /\ durable \in Nat /\ durable <= Len(cLog)
  BY LogKnown
<1>3. faults \in 0 .. cSetup.faults /\ cAborted \in BOOLEAN
  BY DEF CrashInv, CrashTyped, Crash!TypeOK
<1>4. faults' \in 0 .. cSetup.faults /\ durable' \in durable .. Len(cLog) /\ cAborted' \in BOOLEAN
  BY <1>1, <1>2, <1>3
<1>5. cPc' \in Crash!Places /\ (cPc' = "tools" => cPc = "tools")
  BY <1>1 DEF Crash!Places
<1>6. awaited = Len(cLog)
  BY <1>1 DEF CrashInv, Standing
<1>7. durable = Len(cLog)
  BY <1>1, <1>2, <1>6
<1>8. Standing'
  BY <1>1, <1>7 DEF CrashInv, Standing
<1> QED BY <1>1, <1>4, <1>5, <1>8, QuietKeeps

LEMMA CancelKeeps ==
  ASSUME Crash!Bounded, CrashInv, Crash!Cancel, Crash!Fixed
  PROVE  CrashInv'
<1>1. /\ cAborted' = TRUE
      /\ UNCHANGED <<cPc, cTurn, cStep, awaited, cLog, durable, Crash!pool, ran, minted, seen,
           faults, crashes>>
  BY DEF Crash!Cancel, Crash!Same, Crash!ghosts
<1>2. Len(cLog) \in Nat /\ durable \in Nat /\ durable <= Len(cLog)
  BY LogKnown
<1>3. faults \in 0 .. cSetup.faults /\ cPc \in Crash!Places
  BY DEF CrashInv, CrashTyped, Crash!TypeOK
<1>4. faults' \in 0 .. cSetup.faults /\ durable' \in durable .. Len(cLog) /\ cAborted' \in BOOLEAN
  BY <1>1, <1>2, <1>3
<1>5. Standing'
  BY <1>1 DEF CrashInv, Standing
<1> QED BY <1>1, <1>3, <1>4, <1>5, QuietKeeps

LEMMA StoreKeeps ==
  ASSUME Crash!Bounded, CrashInv, Crash!Store, Crash!Fixed
  PROVE  CrashInv'
<1>1. /\ durable' \in durable + 1 .. Len(cLog)
      /\ UNCHANGED <<cPc, cTurn, cStep, awaited, cAborted, cLog, Crash!pool, ran, minted, seen,
           faults, crashes>>
  BY DEF Crash!Store, Crash!driver, Crash!ghosts
<1>2. Len(cLog) \in Nat /\ durable \in Nat /\ durable <= Len(cLog)
  BY LogKnown
<1>3. faults \in 0 .. cSetup.faults /\ cPc \in Crash!Places /\ cAborted \in BOOLEAN
  BY DEF CrashInv, CrashTyped, Crash!TypeOK
<1>4. faults' \in 0 .. cSetup.faults /\ durable' \in durable .. Len(cLog) /\ cAborted' \in BOOLEAN
  BY <1>1, <1>2, <1>3
<1>5. durable # Len(cLog)
  BY <1>1, <1>2
<1>6. Standing'
  BY <1>1, <1>5 DEF CrashInv, Standing
<1> QED BY <1>1, <1>3, <1>4, <1>6, QuietKeeps

LEMMA TurnEndKeeps ==
  ASSUME Crash!Bounded, CrashInv, Crash!TurnEnd, Crash!Fixed
  PROVE  CrashInv'
<1> DEFINE e == Crash!E("turn/end", cTurn, 0)
<1>1. PICK l \in Nat : l = Len(cLog)
  BY LogKnown
<1>2. PICK t \in Traces : t = Crash!TraceOf(cLog)
  BY LogKnown
<1>3. PICK r \in Opens : r = Crash!OpenAt(cLog)
  BY LogKnown
<1>4. /\ cTurn \in Nat /\ cTurn <= cSetup.turns /\ cSetup.turns \in Nat
      /\ cSetup.steps \in Nat /\ cStep \in Nat
      /\ cStep <= cSetup.steps /\ awaited \in Nat /\ awaited <= l /\ minted \in Nat
      /\ Agree(t, r)
  BY <1>1, <1>2, <1>3, LogKnown
<1>5. /\ cPc = "turnend" /\ cLog' = cLog \o <<e>> /\ cPc' = "idle"
      /\ UNCHANGED <<cTurn, cStep, awaited, cAborted>> /\ UNCHANGED Crash!pool /\ Crash!Same
      /\ UNCHANGED cSetup
  BY DEF Crash!TurnEnd, Crash!Write, Crash!Goto, Crash!Fixed
<1>6. /\ e \in Events /\ e.kind = "turn/end" /\ e.turn = cTurn /\ e.calls = <<>> /\ e.call = 0
  BY <1>4, EventsAre DEF Kinds, Crash!E
<1> HIDE DEF e
<1>7. r.turn = cTurn /\ cTurn # 0 /\ r.step = 0
  BY <1>2, <1>3, <1>5 DEF CrashInv, Standing
<1>8. 1 .. Len(<<>>) = {}
  OBVIOUS
<1>9. Follows(cLog, e)
  BY <1>2, <1>3, <1>6, <1>7, <1>8 DEF Follows, Allowed
<1>10. /\ cLog' \in Seq(Events) /\ Wholly(cLog') /\ Len(cLog') = l + 1
       /\ Crash!OpenAt(cLog') = Crash!Scan(r, l + 1, e)
       /\ Crash!TraceOf(cLog') = Crash!Advance(t, e)
       /\ Within(cLog', minted', cSetup'.turns) /\ Entered' /\ durable' \in 0 .. Len(cLog')
  BY <1>1, <1>2, <1>3, <1>4, <1>5, <1>6, <1>8, <1>9, DriverWrites
<1>11. Crash!Scan(r, l + 1, e) = [turn |-> 0, step |-> 0, pending |-> <<>>]
  BY <1>6, ScanOfRest
<1>12. Crash!Advance(t, e).nextTurn = cTurn + 1
  BY <1>4, <1>6, <1>7, AdvanceIs, AgreeIs
<1>13. /\ \A i \in 1 .. Len(calls') : phase'[i] \in Crash!Phases /\ goal'[i] \in 0 .. Len(cLog')
       /\ Len(phase') = Len(calls') /\ Len(goal') = Len(calls')
       /\ calls' \in Seq(Nat \ {0}) /\ phase' \in Seq(Crash!Phases) /\ goal' \in Seq(Nat)
       /\ \A i \in 1 .. Len(calls') : calls'[i] <= minted'
  BY <1>1, <1>5, <1>10, PoolStays DEF Crash!Same, Crash!ghosts
<1>14. CrashTyped'
  <2>1. cTurn' \in 0 .. cSetup.turns /\ cStep' \in 0 .. cSetup.steps /\
          awaited' \in 0 .. Len(cLog')
    BY <1>4, <1>5, <1>10
  <2>2. cAborted' \in BOOLEAN /\ cPc' \in Crash!Places
    BY <1>5 DEF CrashInv, CrashTyped, Crash!TypeOK, Crash!Places
  <2> QED BY <1>5, <1>10, <1>13, <2>1, <2>2, DriverTypes DEF Crash!Fixed
<1>15. Standing'
  BY <1>5, <1>10, <1>11, <1>12 DEF Standing
<1>16. Working'
  BY <1>5 DEF Working
<1>17. Made'
  BY <1>10, <1>13 DEF Made, Crash!Index
<1> QED BY <1>10, <1>14, <1>15, <1>16, <1>17 DEF CrashInv

LEMMA StepEndKeeps ==
  ASSUME Crash!Bounded, CrashInv, Crash!StepEnd, Crash!Fixed
  PROVE  CrashInv'
<1> DEFINE e == Crash!E("step/end", cTurn, cStep)
<1>1. PICK l \in Nat : l = Len(cLog)
  BY LogKnown
<1>2. PICK t \in Traces : t = Crash!TraceOf(cLog)
  BY LogKnown
<1>3. PICK r \in Opens : r = Crash!OpenAt(cLog)
  BY LogKnown
<1>4. /\ cTurn \in Nat /\ cTurn <= cSetup.turns /\ cSetup.turns \in Nat
      /\ cSetup.steps \in Nat /\ cStep \in Nat
      /\ cStep <= cSetup.steps /\ awaited \in Nat /\ awaited <= l /\ minted \in Nat
      /\ Agree(t, r)
  BY <1>1, <1>2, <1>3, LogKnown
<1>5. /\ cPc \in {"stepend", "stepfail"} /\ cLog' = cLog \o <<e>>
      /\ calls' = <<>> /\ phase' = <<>> /\ goal' = <<>>
      /\ (cPc' = "prestep" /\ awaited' = l + 1) \/ (cPc' = "turnend" /\ awaited' = awaited)
      /\ UNCHANGED <<cTurn, cStep, cAborted>> /\ Crash!Same /\ UNCHANGED cSetup
  BY <1>1 DEF Crash!StepEnd, Crash!Write, Crash!Goto, Crash!Fixed
<1>6. /\ e \in Events /\ e.kind = "step/end" /\ e.turn = cTurn /\ e.step = cStep
      /\ e.calls = <<>> /\ e.call = 0
  BY <1>4, EventsAre DEF Kinds, Crash!E
<1> HIDE DEF e
<1>7. r.turn = cTurn /\ cTurn # 0 /\ r.step = cStep /\ cStep # 0 /\ r.pending = <<>>
  BY <1>2, <1>3, <1>5 DEF CrashInv, Standing
<1>8. 1 .. Len(<<>>) = {}
  OBVIOUS
<1>9. Follows(cLog, e)
  BY <1>2, <1>3, <1>6, <1>7, <1>8 DEF Follows, Allowed, InOpenStep
<1>10. /\ cLog' \in Seq(Events) /\ Wholly(cLog') /\ Len(cLog') = l + 1
       /\ Crash!OpenAt(cLog') = Crash!Scan(r, l + 1, e)
       /\ Crash!TraceOf(cLog') = Crash!Advance(t, e)
       /\ Within(cLog', minted', cSetup'.turns) /\ Entered' /\ durable' \in 0 .. Len(cLog')
  BY <1>1, <1>2, <1>3, <1>4, <1>5, <1>6, <1>8, <1>9, DriverWrites
<1>11. Crash!Scan(r, l + 1, e) = [turn |-> cTurn, step |-> 0, pending |-> <<>>]
  BY <1>6, <1>7, ScanOfRest
<1>12. Crash!Advance(t, e).nextStep = cStep + 1
  BY <1>4, <1>6, <1>7, AdvanceIs, AgreeIs
<1>13. /\ \A i \in 1 .. Len(calls') : phase'[i] \in Crash!Phases /\ goal'[i] \in 0 .. Len(cLog')
       /\ Len(phase') = Len(calls') /\ Len(goal') = Len(calls')
       /\ calls' \in Seq(Nat \ {0}) /\ phase' \in Seq(Crash!Phases) /\ goal' \in Seq(Nat)
       /\ \A i \in 1 .. Len(calls') : calls'[i] <= minted'
  BY <1>5, NoCallsLeft
<1>14. CrashTyped'
  <2>1. cTurn' \in 0 .. cSetup.turns /\ cStep' \in 0 .. cSetup.steps /\
          awaited' \in 0 .. Len(cLog')
    BY <1>4, <1>5, <1>10
  <2>2. cAborted' \in BOOLEAN /\ cPc' \in Crash!Places
    BY <1>5 DEF CrashInv, CrashTyped, Crash!TypeOK, Crash!Places
  <2> QED BY <1>5, <1>10, <1>13, <2>1, <2>2, DriverTypes DEF Crash!Fixed
<1>15. Standing'
  BY <1>5, <1>7, <1>10, <1>11, <1>12 DEF Standing
<1>16. Working'
  BY <1>5 DEF Working
<1>17. Made'
  BY <1>10, <1>13 DEF Made, Crash!Index
<1> QED BY <1>10, <1>14, <1>15, <1>16, <1>17 DEF CrashInv


LEMMA PreStepKeeps ==
  ASSUME Crash!Bounded, CrashInv, Crash!PreStep, Crash!Fixed
  PROVE  CrashInv'
<1> DEFINE a == Crash!E("step/start", cTurn, cStep + 1)
           b == Crash!E("user/message", cTurn, cStep + 1)
<1>1. PICK l \in Nat : l = Len(cLog)
  BY LogKnown
<1>2. PICK t \in Traces : t = Crash!TraceOf(cLog)
  BY LogKnown
<1>3. PICK r \in Opens : r = Crash!OpenAt(cLog)
  BY LogKnown
<1>4. /\ cTurn \in Nat /\ cTurn <= cSetup.turns /\ cSetup.turns \in Nat
      /\ cSetup.steps \in Nat /\ cStep \in Nat
      /\ cStep <= cSetup.steps /\ awaited \in Nat /\ awaited <= l /\ minted \in Nat
      /\ Agree(t, r)
      /\ cLog \in Seq(Events) /\ Wholly(cLog) /\ durable \in Nat /\ durable <= l
  BY <1>1, <1>2, <1>3, LogKnown
<1>5. cPc = "prestep" /\ UNCHANGED <<Crash!pool, cTurn, cAborted, cSetup>> /\ Crash!Same
  BY DEF Crash!PreStep, Crash!Goto, Crash!Fixed
<1>6. r.turn = cTurn /\ cTurn # 0 /\ r.step = 0 /\ t.nextStep = cStep + 1
  BY <1>2, <1>3, <1>5 DEF CrashInv, Standing
<1>7. CASE cPc' = "turnend" /\ UNCHANGED <<cLog, cStep, awaited>>
  BY <1>1, <1>2, <1>3, <1>4, <1>5, <1>6, <1>7, QuietKeeps DEF CrashInv, CrashTyped,
     Crash!TypeOK, Crash!Same, Crash!Places, Crash!ghosts, Standing
<1>8. CASE /\ cStep < cSetup.steps /\ cStep' = cStep + 1 /\ cLog' = cLog \o <<a, b>>
           /\ cPc' = "step" /\ awaited' = Len(cLog) + 2
  <2>1. /\ a \in Events /\ a.kind = "step/start" /\ a.turn = cTurn /\ a.step = cStep + 1
        /\ a.calls = <<>>
        /\ a.call = 0
        /\ b \in Events /\ b.kind = "user/message" /\ b.turn = cTurn /\ b.calls = <<>>
        /\ b.call = 0
    <3>1. "step/start" \in Kinds /\ "user/message" \in Kinds /\ cStep + 1 \in Nat
      BY <1>4 DEF Kinds
    <3> QED BY <1>4, <3>1, EventsAre DEF Crash!E
  <2>2. cLog' = (cLog \o <<a>>) \o <<b>>
    BY <1>4, <1>8, <2>1, JoinTwo
  <2> HIDE DEF a, b
  <2>3. 1 .. Len(<<>>) = {}
    OBVIOUS
  <2>4. Follows(cLog, a)
    BY <1>2, <1>3, <1>6, <2>1, <2>3 DEF Follows, Allowed
  <2>5. PICK p : p = cLog \o <<a>>
    OBVIOUS
  <2>6. /\ p \in Seq(Events) /\ Wholly(p) /\ Longer(cLog, p) /\ Len(p) = l + 1
        /\ p = Append(cLog, a)
        /\ Crash!OpenAt(p) = Crash!Scan(r, l + 1, a)
    BY <1>1, <1>3, <1>4, <2>4, <2>5, Writing
  <2>7. Crash!Scan(r, l + 1, a) = [turn |-> cTurn, step |-> cStep + 1, pending |-> r.pending]
    BY <1>6, <2>1, ScanOfRest
  <2>8. r.pending = <<>>
    BY <1>4, <1>6, AgreeIs
  <2>9. Crash!OpenAt(p) = [turn |-> cTurn, step |-> cStep + 1, pending |-> <<>>]
    BY <2>6, <2>7, <2>8
  <2>10. Follows(p, b)
    BY <2>1, <2>3, <2>9 DEF Follows, Allowed
  <2>11. /\ cLog' \in Seq(Events) /\ Wholly(cLog') /\ Longer(p, cLog') /\ Len(cLog') = l + 1 + 1
         /\ cLog' = Append(p, b)
         /\ Crash!OpenAt(cLog') = Crash!Scan(Crash!OpenAt(p), l + 1 + 1, b)
    BY <2>2, <2>5, <2>6, <2>10, Writing
  <2>12. Crash!OpenAt(cLog') = [turn |-> cTurn, step |-> cStep + 1, pending |-> <<>>]
    <3>1. PICK q \in Opens : q = Crash!OpenAt(p)
      BY <2>6, WhollyIsGood DEF Good
    <3>2. l + 1 + 1 \in Nat \ {0}
      OBVIOUS
    <3>3. Crash!Scan(q, l + 1 + 1, b) = q
      BY <2>1, <3>2, ScanOfRest
    <3> QED BY <2>9, <2>11, <3>1, <3>3
  <2>13. Within(cLog', minted', cSetup'.turns)
    <3>1. Within(cLog, minted, cSetup.turns)
      BY DEF CrashInv, Made
    <3>2. Within(p, minted, cSetup.turns)
      BY <1>4, <2>1, <2>3, <2>6, <3>1, WithinGrows
    <3>3. b \in Events /\ b.call <= minted /\ b.turn <= cSetup.turns /\ 1 .. Len(b.calls) = {}
      BY <1>4, <2>1, <2>3
    <3>4. Within(cLog', minted, cSetup.turns)
      BY <2>6, <2>11, <3>2, <3>3, WithinGrows
    <3> QED BY <1>5, <3>4 DEF Crash!Same, Crash!ghosts
  <2>14. Entered'
    BY <1>1, <1>4, <1>5, <2>6, <2>11, LongerStill, EnteredLonger DEF CrashInv, Crash!Same,
       Crash!ghosts
  <2>15. /\ \A i \in 1 .. Len(calls') : phase'[i] \in Crash!Phases /\ goal'[i] \in 0 .. Len(cLog')
         /\ Len(phase') = Len(calls') /\ Len(goal') = Len(calls')
         /\ calls' \in Seq(Nat \ {0}) /\ phase' \in Seq(Crash!Phases) /\ goal' \in Seq(Nat)
         /\ \A i \in 1 .. Len(calls') : calls'[i] <= minted'
    BY <1>1, <1>5, <2>11, PoolStays DEF Crash!Same, Crash!ghosts
  <2>16. CrashTyped'
    <3>1. cTurn' \in 0 .. cSetup.turns /\ cStep' \in 0 .. cSetup.steps
      BY <1>4, <1>5, <1>8
    <3>4. awaited' = l + 2 /\ durable' = durable /\ Len(cLog') = l + 2
      BY <1>1, <1>5, <1>8, <2>11 DEF Crash!Same
    <3>5. awaited' \in 0 .. Len(cLog') /\ durable' \in 0 .. Len(cLog')
      BY <1>4, <3>4
    <3>2. cAborted' \in BOOLEAN /\ cPc' \in Crash!Places
      BY <1>5, <1>8 DEF CrashInv, CrashTyped, Crash!TypeOK, Crash!Places
    <3> QED BY <1>5, <2>11, <2>15, <3>1, <3>2, <3>5, DriverTypes DEF Crash!Fixed
  <2>17. Standing'
    BY <1>1, <1>4, <1>5, <1>6, <1>8, <2>11, <2>12 DEF Standing
  <2>18. Working'
    BY <1>8 DEF Working
  <2>19. Made'
    BY <2>13, <2>15 DEF Made, Crash!Index
  <2> QED BY <2>11, <2>14, <2>16, <2>17, <2>18, <2>19 DEF CrashInv
<1> QED BY <1>7, <1>8 DEF Crash!PreStep, Crash!Goto, Crash!Write

LEMMA GetAnswerKeeps ==
  ASSUME Crash!Bounded, CrashInv, Crash!GetAnswer, Crash!Fixed
  PROVE  CrashInv'
<1>1. PICK l \in Nat : l = Len(cLog)
  BY LogKnown
<1>2. PICK t \in Traces : t = Crash!TraceOf(cLog)
  BY LogKnown
<1>3. PICK r \in Opens : r = Crash!OpenAt(cLog)
  BY LogKnown
<1>4. /\ cTurn \in Nat /\ cTurn <= cSetup.turns /\ cSetup.turns \in Nat
      /\ cSetup.steps \in Nat /\ cStep \in Nat
      /\ cStep <= cSetup.steps /\ awaited \in Nat /\ awaited <= l /\ minted \in Nat
      /\ Agree(t, r)
      /\ cLog \in Seq(Events) /\ Wholly(cLog) /\ durable \in Nat /\ durable <= l
      /\ cSetup.calls \in Nat /\ minted <= cSetup.calls
  BY <1>1, <1>2, <1>3, LogKnown
<1>5. /\ cPc = "answer"
      /\ UNCHANGED <<cTurn, cStep, awaited, cAborted, cSetup, durable, ran, seen, faults,
           crashes>>
  BY DEF Crash!GetAnswer, Crash!Goto, Crash!Fixed
<1>6. r.turn = cTurn /\ cTurn # 0 /\ r.step = cStep /\ cStep # 0 /\ r.pending = <<>>
  BY <1>2, <1>3, <1>5 DEF CrashInv, Standing
<1>7. CASE cPc' = "stepfail" /\ UNCHANGED <<cLog, Crash!pool, minted>>
  BY <1>1, <1>2, <1>3, <1>4, <1>5, <1>6, <1>7, QuietKeeps DEF CrashInv, CrashTyped,
     Crash!TypeOK, Crash!Places, Standing
<1>8. ASSUME NEW n \in 0 .. cSetup.calls - minted,
             cLog' = cLog \o <<Crash!Answer(cTurn, cStep, [i \in 1 .. n |-> minted + i])>>,
             minted' = minted + n, calls' = [i \in 1 .. n |-> minted + i],
             phase' = [i \in 1 .. n |-> "waiting"], goal' = [i \in 1 .. n |-> 0],
             cPc' = (IF n = 0 THEN "stepend" ELSE "tools")
      PROVE  CrashInv'
  <2>1. n \in Nat /\ minted + n <= cSetup.calls
    BY <1>4
  <2>2. PICK cs \in Seq(Nat \ {0}) : cs = [i \in 1 .. n |-> minted + i]
    <3>1. \A i \in 1 .. n : minted + i \in Nat \ {0}
      BY <1>4
    <3>2. [i \in 1 .. n |-> minted + i] \in [1 .. n -> Nat \ {0}]
      BY <3>1
    <3>3. PICK f : f = [i \in 1 .. n |-> minted + i]
      OBVIOUS
    <3>4. f \in Seq(Nat \ {0})
      BY <2>1, <3>2, <3>3
    <3> QED BY <3>3, <3>4
  <2>3. Len(cs) = n /\ \A i \in 1 .. n : cs[i] = minted + i
    BY <2>1, <2>2
  <2>4. PICK e \in Events : e = Crash!Answer(cTurn, cStep, cs)
    BY <1>4, EventsAre
  <2>5. e.kind = "assistant/message" /\ e.turn = cTurn /\ e.step = cStep /\ e.calls = cs /\
          e.call = 0
    BY <2>4 DEF Crash!Answer, Crash!E
  <2>6. Within(cLog, minted, cSetup.turns)
    BY DEF CrashInv, Made
  <2>7. Follows(cLog, e)
    <3>1. \A i, j \in 1 .. n : cs[i] = cs[j] => i = j
      BY <1>4, <2>1, <2>3
    <3>2. \A i \in 1 .. n : \A k \in 1 .. l : cLog[k].call # cs[i]
      <4> TAKE i \in 1 .. n
      <4> TAKE k \in 1 .. l
      <4>1. cLog[k].call <= minted
        BY <1>1, <2>6 DEF Within
      <4>2. cLog[k] \in Events
        BY <1>1, <1>4, ElementOfSeq
      <4>4. ~(minted + i <= minted)
        BY <1>4
      <4> QED BY <2>3, <4>1, <4>4
    <3> QED BY <1>1, <1>2, <1>3, <1>6, <2>3, <2>5, <3>1, <3>2 DEF Follows, Allowed, InOpenStep
  <2>8. /\ cLog' \in Seq(Events) /\ Wholly(cLog') /\ Longer(cLog, cLog') /\ Len(cLog') = l + 1
        /\ cLog' = Append(cLog, e) /\ Crash!OpenAt(cLog') = Crash!Scan(r, l + 1, e)
    BY <1>1, <1>3, <1>4, <1>8, <2>2, <2>4, <2>7, Writing
  <2>9. PICK q \in Opens : q = Crash!OpenAt(cLog')
    BY <2>8, WhollyIsGood DEF Good
  <2>10. /\ q.turn = cTurn /\ q.step = cStep /\ Len(q.pending) = n
         /\ \A k \in 1 .. n : q.pending[k].call = cs[k] /\ q.pending[k].seq = 0
    <3>1. l + 1 \in Nat \ {0}
      OBVIOUS
    <3>4. /\ Crash!Scan(r, l + 1, e).turn = r.turn /\ Crash!Scan(r, l + 1, e).step = r.step
          /\ Len(Crash!Scan(r, l + 1, e).pending) = Len(e.calls)
          /\ \A k \in 1 .. Len(e.calls) :
               Crash!Scan(r, l + 1, e).pending[k] = [call |-> e.calls[k], step |-> e.step,
                 seq |-> 0]
      BY <1>6, <2>5, <3>1, ScanOfAnswer
    <3>5. q = Crash!Scan(r, l + 1, e) /\ Len(e.calls) = n /\ e.step = cStep /\ e.calls = cs
      BY <2>3, <2>5, <2>8, <2>9
    <3>2. /\ q.turn = r.turn /\ q.step = r.step /\ Len(q.pending) = n
          /\ \A k \in 1 .. n : q.pending[k] = [call |-> cs[k], step |-> cStep, seq |-> 0]
      BY <3>4, <3>5
    <3>3. \A k \in 1 .. n : q.pending[k].call = cs[k] /\ q.pending[k].seq = 0
      <4> TAKE k \in 1 .. n
      <4>1. q.pending[k] = [call |-> cs[k], step |-> cStep, seq |-> 0]
        BY <3>2
      <4> QED BY <4>1
    <3> QED BY <1>6, <3>2, <3>3
  <2>11. Within(cLog', minted', cSetup'.turns)
    <3>1. Within(cLog, minted', cSetup.turns)
      <4>1. ASSUME NEW x \in Nat, x <= minted PROVE x <= minted'
        BY <1>4, <1>8, <2>1, <4>1
      <4>2. ASSUME NEW k \in 1 .. l
            PROVE  /\ cLog[k].call <= minted' /\ cLog[k].turn <= cSetup.turns
                   /\ \A j \in 1 .. Len(cLog[k].calls) : cLog[k].calls[j] <= minted'
        <5>1. cLog[k] \in Events
          BY <1>1, <1>4, ElementOfSeq
        <5>2. cLog[k].call \in Nat /\ \A j \in 1 .. Len(cLog[k].calls) : cLog[k].calls[j] \in Nat
          BY <5>1, ElementOfSeq DEF Events
        <5> QED BY <1>1, <2>6, <4>1, <5>2 DEF Within
      <4> QED BY <1>1, <4>2 DEF Within
    <3>2. e.call <= minted' /\ e.turn <= cSetup.turns /\ \A j \in 1 .. Len(e.calls) :
            e.calls[j] <= minted'
      BY <1>4, <1>8, <2>1, <2>3, <2>5
    <3> QED BY <1>4, <1>5, <2>8, <3>1, <3>2, WithinGrows
  <2>12. /\ phase' \in Seq(Crash!Phases) /\ goal' \in Seq(Nat) /\ Len(phase') = n
         /\ Len(goal') = n
         /\ \A i \in 1 .. n : phase'[i] = "waiting" /\ goal'[i] = 0
    BY <1>8, <2>1 DEF Crash!Phases
  <2>13. calls' = cs
    BY <1>8, <2>2
  <2>14. CrashTyped'
    <3>1. /\ cTurn' \in 0 .. cSetup'.turns /\ cStep' \in 0 .. cSetup'.steps
          /\ awaited' \in 0 .. Len(cLog')
          /\ durable' \in 0 .. Len(cLog') /\ minted' \in 0 .. cSetup'.calls
      <4>1. cTurn' \in 0 .. cSetup'.turns /\ cStep' \in 0 .. cSetup'.steps
        BY <1>4, <1>5
      <4>2. minted' \in 0 .. cSetup'.calls
        BY <1>4, <1>5, <1>8, <2>1
      <4>3. awaited' \in 0 .. l + 1 /\ durable' \in 0 .. l + 1
        BY <1>4, <1>5
      <4> QED BY <2>8, <4>1, <4>2, <4>3
    <3>2. cAborted' \in BOOLEAN /\ cPc' \in Crash!Places
      BY <1>5, <1>8 DEF CrashInv, CrashTyped, Crash!TypeOK, Crash!Places
    <3>3. cSetup' \in CrashSetups /\ faults' \in 0 .. cSetup'.faults /\
            crashes' \in 0 .. cSetup'.crashes
      BY <1>5 DEF CrashInv, CrashTyped, Crash!TypeOK
    <3>4. ran' \subseteq 1 .. minted'
      BY <1>4, <1>5, <1>8, <2>1 DEF CrashInv, CrashTyped, Crash!TypeOK
    <3>5. /\ \A i \in 1 .. Len(calls') : phase'[i] \in Crash!Phases /\
               goal'[i] \in 0 .. Len(cLog')
          /\ Len(phase') = Len(calls') /\ Len(goal') = Len(calls')
      BY <2>3, <2>8, <2>12, <2>13 DEF Crash!Phases
    <3> QED BY <2>2, <2>8, <2>12, <2>13, <3>1, <3>2, <3>3, <3>4, <3>5 DEF CrashTyped,
         Crash!TypeOK, Crash!Index
  <2>15. Standing'
    BY <1>5, <1>6, <1>8, <2>9, <2>10, Pendings DEF Standing
  <2>16. Working'
    <3>1. 0 \in 0 .. Len(calls') /\ \A k \in 1 .. n : 0 + k = k /\ k \in 1 .. n
      BY <2>1, <2>3, <2>13
    <3>2. \A i \in 1 .. n : phase'[i] = "done" <=> i <= 0
      BY <2>1, <2>12
    <3>3. n - 0 = n
      BY <2>1
    <3>4. \A k \in 1 .. n : q.pending[k].call = calls'[0 + k] /\
            (q.pending[k].seq # 0 <=> phase'[0 + k] # "waiting")
      BY <2>10, <2>12, <2>13, <3>1
    <3>5. \A i \in 1 .. n : phase'[i] # "flushing" /\ \A j \in 1 .. i - 1 :
            ~(phase'[i] # "waiting")
      BY <2>12
    <3> QED BY <2>3, <2>9, <2>10, <2>13, <3>1, <3>2, <3>3, <3>4, <3>5 DEF Working,
         Crash!Index, Crash!Started
  <2>17. Made'
    BY <1>4, <1>8, <2>1, <2>3, <2>11, <2>13 DEF Made, Crash!Index
  <2>18. Entered'
    BY <1>1, <1>4, <1>5, <2>8, EnteredLonger DEF CrashInv
  <2> QED BY <2>8, <2>14, <2>15, <2>16, <2>17, <2>18 DEF CrashInv
<1> QED BY <1>7, <1>8 DEF Crash!GetAnswer, Crash!Goto, Crash!Write


LEMMA BecomesIs ==
  ASSUME phase \in Seq(Crash!Phases), Len(phase) = Len(calls), Len(calls) \in Nat,
           NEW i \in Crash!Index,
         NEW v \in Crash!Phases, Crash!Becomes(i, v)
  PROVE  /\ phase' \in Seq(Crash!Phases) /\ Len(phase') = Len(calls)
         /\ \A j \in Crash!Index : phase'[j] = IF j = i THEN v ELSE phase[j]
<1>1. phase \in [1 .. Len(calls) -> Crash!Phases] /\ phase' = [phase EXCEPT ![i] = v]
  BY DEF Crash!Becomes
<1>2. phase' \in [1 .. Len(calls) -> Crash!Phases]
  BY <1>1
<1>3. \A j \in Crash!Index : phase'[j] = IF j = i THEN v ELSE phase[j]
  BY <1>1 DEF Crash!Index
<1>4. phase' \in Seq(Crash!Phases) /\ Len(phase') = Len(calls)
  BY <1>2
<1> QED BY <1>3, <1>4

(* A call at work goes on, and writes nothing. *)
LEMMA QuietCall ==
  ASSUME Crash!Bounded, CrashInv, Crash!Fixed, cPc = "tools", NEW i \in Crash!Index,
           phase[i] \notin {"waiting", "done"},
         NEW v \in Crash!Phases, v \notin {"waiting", "done"}, Crash!Becomes(i, v),
         UNCHANGED <<cLog, Crash!driver, calls, minted, durable, crashes>>,
           faults' \in 0 .. cSetup.faults,
         goal' \in Seq(Nat), Len(goal') = Len(calls), \A j \in Crash!Index :
           goal'[j] \in 0 .. Len(cLog),
         \A j \in Crash!Index : phase'[j] = "flushing" =>
           \E n \in 1 .. goal'[j] : cLog[n].kind = "tool/call" /\ cLog[n].call = calls[j],
         ran' \subseteq 1 .. minted, Entered'
  PROVE  CrashInv'
<1>1. /\ calls \in Seq(Nat \ {0}) /\ phase \in Seq(Crash!Phases) /\ Len(calls) \in Nat
      /\ Len(phase) = Len(calls)
  BY LogKnown
<1>2. /\ phase' \in Seq(Crash!Phases) /\ Len(phase') = Len(calls)
      /\ \A j \in Crash!Index : phase'[j] = IF j = i THEN v ELSE phase[j]
  BY <1>1, BecomesIs
<1>3. /\ cLog' = cLog /\ calls' = calls /\ minted' = minted /\ durable' = durable
      /\ crashes' = crashes
      /\ cPc' = cPc /\ cTurn' = cTurn /\ cStep' = cStep /\ awaited' = awaited
      /\ cAborted' = cAborted
      /\ cSetup' = cSetup
  BY DEF Crash!driver, Crash!Fixed
<1>4. \A j \in Crash!Index : phase'[j] \in Crash!Phases
  BY <1>2 DEF CrashInv, CrashTyped, Crash!TypeOK
<1>5. CrashTyped'
  BY <1>2, <1>3, <1>4 DEF CrashInv, CrashTyped, Crash!TypeOK, Crash!Index
<1>6. Standing'
  BY <1>3 DEF CrashInv, Standing
<1>7. Working'
  <2>1. \A j \in Crash!Index : /\ phase'[j] = "done" <=> phase[j] = "done"
                               /\ phase'[j] # "waiting" <=> phase[j] # "waiting"
    BY <1>2
  <2>2. PICK d \in 0 .. Len(calls) :
          /\ \A j \in Crash!Index : phase[j] = "done" <=> j <= d
          /\ Len(Crash!OpenAt(cLog).pending) = Len(calls) - d
          /\ \A k \in 1 .. Len(Crash!OpenAt(cLog).pending) :
               /\ Crash!OpenAt(cLog).pending[k].call = calls[d + k]
               /\ Crash!OpenAt(cLog).pending[k].seq # 0 <=> phase[d + k] # "waiting"
    BY DEF CrashInv, Working, Crash!Started
  <2>3. \A k \in 1 .. Len(Crash!OpenAt(cLog).pending) : d + k \in Crash!Index
    BY <1>1, <2>2 DEF Crash!Index
  <2>4. \A j \in Crash!Index : \A k \in 1 .. j - 1 : phase[j] # "waiting" => phase[k] # "waiting"
    BY DEF CrashInv, Working, Crash!Started
  <2>5. \A j \in Crash!Index : \A k \in 1 .. j - 1 : k \in Crash!Index
    BY <1>1 DEF Crash!Index
  <2>6. \A j \in Crash!Index : \A k \in 1 .. j - 1 : phase'[j] # "waiting" =>
          phase'[k] # "waiting"
    BY <2>1, <2>4, <2>5
  <2>7. /\ \A j \in Crash!Index : phase'[j] = "done" <=> j <= d
        /\ \A k \in 1 .. Len(Crash!OpenAt(cLog).pending) :
               /\ Crash!OpenAt(cLog).pending[k].call = calls[d + k]
               /\ Crash!OpenAt(cLog).pending[k].seq # 0 <=> phase'[d + k] # "waiting"
    BY <2>1, <2>2, <2>3
  <2>8. PICK r : r = Crash!OpenAt(cLog)
    OBVIOUS
  <2>9. /\ d \in 0 .. Len(calls') /\ \A j \in Crash!Index' : phase'[j] = "done" <=> j <= d
        /\ Len(r.pending) = Len(calls') - d
        /\ \A k \in 1 .. Len(r.pending) :
             /\ r.pending[k].call = calls'[d + k]
             /\ r.pending[k].seq # 0 <=> phase'[d + k] # "waiting"
    BY <1>3, <2>2, <2>7, <2>8 DEF Crash!Index
  <2>10. \A j \in Crash!Index' : \A k \in 1 .. j - 1 : phase'[j] # "waiting" =>
           phase'[k] # "waiting"
    BY <1>3, <2>6 DEF Crash!Index
  <2>11. \A j \in Crash!Index' : phase'[j] = "flushing" =>
           \E n \in 1 .. goal'[j] : cLog'[n].kind = "tool/call" /\ cLog'[n].call = calls'[j]
    BY <1>3 DEF Crash!Index
  <2>12. r = Crash!OpenAt(cLog')
    BY <1>3, <2>8
  <2> QED BY <2>9, <2>10, <2>11, <2>12 DEF Working, Crash!Started
<1>8. Made'
  BY <1>3 DEF CrashInv, Made, Within, Crash!Index
<1>9. Wholly(cLog)'
  BY <1>3 DEF CrashInv
<1> QED BY <1>5, <1>6, <1>7, <1>8, <1>9 DEF CrashInv

(* A call that was started and is not done is recorded. *)
LEMMA StartedIsCalled ==
  ASSUME Crash!Bounded, CrashInv, cPc = "tools", NEW i \in Crash!Index,
           phase[i] \notin {"waiting", "done"}
  PROVE  Called(cLog, calls[i])
<1>1. /\ Len(calls) \in Nat /\ Crash!OpenAt(cLog) \in Opens
      /\ Recorded(cLog, Crash!OpenAt(cLog))
  BY LogKnown
<1>2. PICK r \in Opens : r = Crash!OpenAt(cLog)
  BY <1>1
<1>3. PICK d \in 0 .. Len(calls) :
        /\ \A j \in Crash!Index : phase[j] = "done" <=> j <= d
        /\ Len(r.pending) = Len(calls) - d
        /\ \A k \in 1 .. Len(r.pending) :
             /\ r.pending[k].call = calls[d + k]
             /\ r.pending[k].seq # 0 <=> phase[d + k] # "waiting"
  BY <1>2 DEF CrashInv, Working, Crash!Started
<1>4. ~(i <= d) /\ i \in Nat /\ i <= Len(calls) /\ d \in Nat
  BY <1>1, <1>3 DEF Crash!Index
<1>5. PICK k \in Nat : k = i - d
  BY <1>4
<1>6. k \in 1 .. Len(r.pending) /\ d + k = i
  BY <1>1, <1>3, <1>4, <1>5
<1>7. r.pending[k].call = calls[i] /\ r.pending[k].seq # 0
  BY <1>3, <1>6
<1> QED BY <1>1, <1>2, <1>6, <1>7 DEF Recorded


LEMMA PreparedKeeps ==
  ASSUME Crash!Bounded, CrashInv, Crash!Fixed, NEW i \in Crash!Index, Crash!Prepared(i)
  PROVE  CrashInv'
<1>1. /\ cPc = "tools" /\ phase[i] = "preparing" /\ UNCHANGED <<cLog, Crash!driver, calls>>
      /\ Crash!Same
      /\ \/ Crash!Becomes(i, "settled") /\ UNCHANGED goal
         \/ Crash!Becomes(i, "flushing") /\ goal' = [goal EXCEPT ![i] = Len(cLog)]
  BY DEF Crash!Prepared
<1>2. /\ calls \in Seq(Nat \ {0}) /\ phase \in Seq(Crash!Phases) /\ Len(calls) \in Nat
      /\ Len(phase) = Len(calls)
      /\ goal \in Seq(Nat) /\ Len(goal) = Len(calls) /\ Len(cLog) \in Nat /\ durable \in Nat
      /\ durable <= Len(cLog) /\ cLog \in Seq(Events)
  BY LogKnown
<1>3. /\ faults' \in 0 .. cSetup.faults /\ ran' \subseteq 1 .. minted
      /\ UNCHANGED <<minted, durable, crashes, ran>>
  BY <1>1 DEF Crash!Same, Crash!ghosts, CrashInv, CrashTyped, Crash!TypeOK
<1>4. Entered'
  BY <1>1, <1>2, <1>3, EnteredStays DEF CrashInv
<1>5. /\ \A j \in Crash!Index : goal[j] \in 0 .. Len(cLog)
      /\ \A j \in Crash!Index : phase[j] = "flushing" =>
           \E n \in 1 .. goal[j] : cLog[n].kind = "tool/call" /\ cLog[n].call = calls[j]
  BY <1>1 DEF CrashInv, CrashTyped, Crash!TypeOK, Working
<1>6. "settled" \in Crash!Phases /\ "flushing" \in Crash!Phases
  BY DEF Crash!Phases
<1>7. CASE Crash!Becomes(i, "settled") /\ UNCHANGED goal
  <2>1. \A j \in Crash!Index : phase'[j] = IF j = i THEN "settled" ELSE phase[j]
    BY <1>2, <1>6, <1>7, BecomesIs
  <2>2. \A j \in Crash!Index : phase'[j] = "flushing" => phase[j] = "flushing"
    BY <2>1
  <2> QED BY <1>1, <1>2, <1>3, <1>4, <1>5, <1>6, <1>7, <2>2, QuietCall
<1>8. CASE Crash!Becomes(i, "flushing") /\ goal' = [goal EXCEPT ![i] = Len(cLog)]
  <2>1. \A j \in Crash!Index : phase'[j] = IF j = i THEN "flushing" ELSE phase[j]
    BY <1>2, <1>6, <1>8, BecomesIs
  <2>2. /\ goal' \in Seq(Nat) /\ Len(goal') = Len(calls)
        /\ \A j \in Crash!Index : goal'[j] = IF j = i THEN Len(cLog) ELSE goal[j]
    <3>1. goal \in [1 .. Len(calls) -> Nat]
      BY <1>2
    <3>2. goal' \in [1 .. Len(calls) -> Nat]
      BY <1>2, <1>8, <3>1
    <3>3. \A j \in Crash!Index : goal'[j] = IF j = i THEN Len(cLog) ELSE goal[j]
      BY <1>8, <3>1 DEF Crash!Index
    <3>4. goal' \in Seq(Nat) /\ Len(goal') = Len(calls)
      <4>1. PICK n \in Nat : n = Len(calls)
        BY <1>2
      <4>2. PICK f \in [1 .. n -> Nat] : f = goal'
        BY <3>2, <4>1
      <4>3. f \in Seq(Nat) /\ Len(f) = n
        OBVIOUS
      <4> QED BY <4>1, <4>2, <4>3
    <3> QED BY <3>3, <3>4
  <2>3. \A j \in Crash!Index : goal'[j] \in 0 .. Len(cLog)
    BY <1>2, <1>5, <2>2
  <2>4. \A j \in Crash!Index : phase'[j] = "flushing" =>
          \E n \in 1 .. goal'[j] : cLog[n].kind = "tool/call" /\ cLog[n].call = calls[j]
    BY <1>1, <1>5, <2>1, <2>2, StartedIsCalled DEF Called
  <2> QED BY <1>1, <1>3, <1>4, <1>6, <1>8, <2>2, <2>3, <2>4, QuietCall
<1> QED BY <1>1, <1>7, <1>8

(* A call at work settles, or its body is entered. *)
LEMMA GoesOn ==
  ASSUME Crash!Bounded, CrashInv, Crash!Fixed, NEW i \in Crash!Index, cPc = "tools",
           phase[i] \notin {"waiting", "done"},
         NEW v \in {"settled", "running"}, Crash!Becomes(i, v),
         UNCHANGED <<cLog, Crash!driver, calls, goal, minted, durable, crashes>>,
           faults' \in 0 .. cSetup.faults,
         ran' \subseteq 1 .. minted, Entered'
  PROVE  CrashInv'
<1>1. /\ calls \in Seq(Nat \ {0}) /\ phase \in Seq(Crash!Phases) /\ Len(calls) \in Nat
      /\ Len(phase) = Len(calls)
      /\ goal \in Seq(Nat) /\ Len(goal) = Len(calls)
  BY LogKnown
<1>2. /\ \A j \in Crash!Index : goal[j] \in 0 .. Len(cLog)
      /\ \A j \in Crash!Index : phase[j] = "flushing" =>
           \E n \in 1 .. goal[j] : cLog[n].kind = "tool/call" /\ cLog[n].call = calls[j]
  BY DEF CrashInv, CrashTyped, Crash!TypeOK, Working
<1>3. v \in Crash!Phases /\ v \notin {"waiting", "done", "flushing"}
  BY DEF Crash!Phases
<1>4. \A j \in Crash!Index : phase'[j] = IF j = i THEN v ELSE phase[j]
  BY <1>1, <1>3, BecomesIs
<1>5. \A j \in Crash!Index : phase'[j] = "flushing" => phase[j] = "flushing"
  BY <1>3, <1>4
<1> QED BY <1>1, <1>2, <1>3, <1>5, QuietCall

LEMMA CheckpointKeeps ==
  ASSUME Crash!Bounded, CrashInv, Crash!Fixed, NEW i \in Crash!Index, Crash!Checkpoint(i)
  PROVE  CrashInv'
<1>1. /\ cPc = "tools" /\ phase[i] = "flushing" /\ durable >= goal[i]
      /\ UNCHANGED <<cLog, durable, Crash!driver, calls, goal, minted, seen, faults, crashes>>
      /\ \/ Crash!Becomes(i, "settled") /\ UNCHANGED ran
         \/ Crash!Becomes(i, "running") /\ ran' = ran \cup {calls[i]}
  BY DEF Crash!Checkpoint, Crash!Flushed
<1>2. /\ calls \in Seq(Nat \ {0}) /\ Len(calls) \in Nat /\ Len(cLog) \in Nat /\ durable \in Nat
      /\ durable <= Len(cLog) /\ minted \in Nat /\ goal \in Seq(Nat) /\ Len(goal) = Len(calls)
  BY LogKnown
<1>3. faults' \in 0 .. cSetup.faults /\ ran \subseteq 1 .. minted
  BY <1>1 DEF CrashInv, CrashTyped, Crash!TypeOK
<1>4. CASE Crash!Becomes(i, "settled") /\ UNCHANGED ran
  <2>1. Entered'
    BY <1>1, <1>2, <1>4, EnteredStays DEF CrashInv
  <2> QED BY <1>1, <1>3, <1>4, <2>1, GoesOn
<1>5. CASE Crash!Becomes(i, "running") /\ ran' = ran \cup {calls[i]}
  <2>1. calls[i] \in 1 .. minted
    BY <1>2, ElementOfSeq DEF Crash!Index, CrashInv, Made
  <2>2. PICK n \in 1 .. goal[i] : cLog[n].kind = "tool/call" /\ cLog[n].call = calls[i]
    BY <1>1 DEF CrashInv, Working
  <2>3. n \in 1 .. durable
    BY <1>1, <1>2, ElementOfSeq DEF Crash!Index
  <2>4. Entered'
    BY <1>1, <1>5, <2>2, <2>3 DEF CrashInv, Entered
  <2>5. ran' \subseteq 1 .. minted
    BY <1>3, <1>5, <2>1
  <2> QED BY <1>1, <1>3, <1>5, <2>4, <2>5, GoesOn
<1> QED BY <1>1, <1>4, <1>5

LEMMA CheckpointFailsKeeps ==
  ASSUME Crash!Bounded, CrashInv, Crash!Fixed, NEW i \in Crash!Index, Crash!CheckpointFails(i)
  PROVE  CrashInv'
<1>1. /\ cPc = "tools" /\ phase[i] = "flushing" /\ faults < cSetup.faults
      /\ faults' = faults + 1
      /\ Crash!Becomes(i, "settled")
      /\ UNCHANGED <<cLog, durable, Crash!driver, calls, goal, minted, ran, seen, crashes>>
  BY DEF Crash!CheckpointFails, Crash!FlushFails, Crash!ghosts
<1>2. durable \in Nat /\ cSetup.faults \in Nat
  BY LogKnown
<1>3. faults \in 0 .. cSetup.faults /\ ran' \subseteq 1 .. minted
  BY <1>1 DEF CrashInv, CrashTyped, Crash!TypeOK
<1>4. faults' \in 0 .. cSetup.faults
  BY <1>1, <1>2, <1>3
<1>5. Entered'
  BY <1>1, <1>2, EnteredStays DEF CrashInv
<1> QED BY <1>1, <1>3, <1>4, <1>5, GoesOn

LEMMA BodyEndsKeeps ==
  ASSUME Crash!Bounded, CrashInv, Crash!Fixed, NEW i \in Crash!Index, Crash!BodyEnds(i)
  PROVE  CrashInv'
<1>1. /\ cPc = "tools" /\ phase[i] = "running" /\ Crash!Becomes(i, "settled")
      /\ UNCHANGED <<cLog, durable, Crash!driver, calls, goal, minted, ran, seen, faults,
           crashes>>
  BY DEF Crash!BodyEnds, Crash!Same, Crash!ghosts
<1>2. durable \in Nat
  BY LogKnown
<1>3. faults' \in 0 .. cSetup.faults /\ ran' \subseteq 1 .. minted
  BY <1>1 DEF CrashInv, CrashTyped, Crash!TypeOK
<1>4. Entered'
  BY <1>1, <1>2, EnteredStays DEF CrashInv
<1> QED BY <1>1, <1>3, <1>4, GoesOn


(* Where the calls of a step are. *)
LEMMA AtWork ==
  ASSUME Crash!Bounded, CrashInv, cPc = "tools"
  PROVE  /\ Crash!OpenAt(cLog).turn = cTurn /\ cTurn # 0 /\ Crash!OpenAt(cLog).step = cStep
         /\ cStep # 0
         /\ \E d \in Nat : \E w \in Nat :
              /\ Len(calls) = d + w /\ Len(Crash!OpenAt(cLog).pending) = w
              /\ \A j \in Crash!Index : phase[j] = "done" <=> j <= d
              /\ \A k \in 1 .. w :
                   /\ d + k \in Crash!Index /\ Crash!OpenAt(cLog).pending[k].call = calls[d + k]
                   /\ Crash!OpenAt(cLog).pending[k].seq # 0 <=> phase[d + k] # "waiting"
         /\ \A j \in Crash!Index : \A k \in 1 .. j - 1 : phase[j] # "waiting" =>
              phase[k] # "waiting"
         /\ \A j \in Crash!Index : phase[j] = "flushing" =>
              \E n \in 1 .. goal[j] : cLog[n].kind = "tool/call" /\ cLog[n].call = calls[j]
         /\ \A j \in Crash!Index : /\ phase[j] \in Crash!Phases /\ goal[j] \in 0 .. Len(cLog)
                                   /\ calls[j] \in Nat \ {0} /\ calls[j] <= minted
<1>1. Crash!OpenAt(cLog).turn = cTurn /\ cTurn # 0 /\ Crash!OpenAt(cLog).step = cStep /\ cStep # 0
  BY DEF CrashInv, Standing
<1>2. Len(calls) \in Nat /\ calls \in Seq(Nat \ {0})
  BY LogKnown
<1>3. PICK d \in 0 .. Len(calls) :
        /\ \A j \in Crash!Index : phase[j] = "done" <=> j <= d
        /\ Len(Crash!OpenAt(cLog).pending) = Len(calls) - d
        /\ \A k \in 1 .. Len(Crash!OpenAt(cLog).pending) :
             /\ Crash!OpenAt(cLog).pending[k].call = calls[d + k]
             /\ Crash!OpenAt(cLog).pending[k].seq # 0 <=> phase[d + k] # "waiting"
  BY DEF CrashInv, Working, Crash!Started
<1>4. PICK w \in Nat : w = Len(calls) - d
  BY <1>2
<1>8. /\ d \in Nat /\ Len(calls) = d + w /\ Len(Crash!OpenAt(cLog).pending) = w
      /\ \A k \in 1 .. w : d + k \in Crash!Index
  BY <1>2, <1>3, <1>4 DEF Crash!Index
<1>5. \A j \in Crash!Index : \A k \in 1 .. j - 1 : phase[j] # "waiting" => phase[k] # "waiting"
  BY DEF CrashInv, Working, Crash!Started
<1>6. /\ \A j \in Crash!Index : phase[j] = "flushing" =>
           \E n \in 1 .. goal[j] : cLog[n].kind = "tool/call" /\ cLog[n].call = calls[j]
      /\ \A j \in Crash!Index : phase[j] \in Crash!Phases /\ goal[j] \in 0 .. Len(cLog)
      /\ \A j \in Crash!Index : calls[j] <= minted
  BY DEF CrashInv, CrashTyped, Crash!TypeOK, Working, Made
<1>7. \A j \in Crash!Index : calls[j] \in Nat \ {0}
  BY <1>2, ElementOfSeq DEF Crash!Index
<1>9. \A k \in 1 .. w :
        /\ d + k \in Crash!Index /\ Crash!OpenAt(cLog).pending[k].call = calls[d + k]
        /\ Crash!OpenAt(cLog).pending[k].seq # 0 <=> phase[d + k] # "waiting"
  BY <1>3, <1>8
<1>10. \E a \in Nat : \E b \in Nat :
         /\ Len(calls) = a + b /\ Len(Crash!OpenAt(cLog).pending) = b
         /\ \A j \in Crash!Index : phase[j] = "done" <=> j <= a
         /\ \A k \in 1 .. b :
              /\ a + k \in Crash!Index /\ Crash!OpenAt(cLog).pending[k].call = calls[a + k]
              /\ Crash!OpenAt(cLog).pending[k].seq # 0 <=> phase[a + k] # "waiting"
  BY <1>3, <1>8, <1>9
<1> QED BY <1>1, <1>5, <1>6, <1>7, <1>10

(* The calls of a step after one of them went on. *)
LEMMA WorkingNext ==
  ASSUME calls' = calls, goal' = goal, cPc' = cPc, NEW d \in Nat, NEW w \in Nat,
           Len(calls) = d + w,
         Len(Crash!OpenAt(cLog').pending) = w, \A j \in Crash!Index : phase'[j] = "done" <=>
           j <= d,
         \A k \in 1 .. w :
           /\ Crash!OpenAt(cLog').pending[k].call = calls[d + k]
           /\ Crash!OpenAt(cLog').pending[k].seq # 0 <=> phase'[d + k] # "waiting",
         \A j \in Crash!Index : \A k \in 1 .. j - 1 : phase'[j] # "waiting" =>
           phase'[k] # "waiting",
         \A j \in Crash!Index : phase'[j] = "flushing" =>
           \E n \in 1 .. goal[j] : cLog'[n].kind = "tool/call" /\ cLog'[n].call = calls[j]
  PROVE  Working'
<1>1. Crash!Index' = Crash!Index
  BY DEF Crash!Index
<1>2. d \in 0 .. Len(calls') /\ w = Len(calls') - d
  OBVIOUS
<1>3. /\ \A i \in Crash!Index' : phase'[i] = "done" <=> i <= d
      /\ Len(Crash!OpenAt(cLog').pending) = Len(calls') - d
      /\ \A k \in 1 .. Len(Crash!OpenAt(cLog').pending) :
           /\ Crash!OpenAt(cLog').pending[k].call = calls'[d + k]
           /\ Crash!OpenAt(cLog').pending[k].seq # 0 <=> phase'[d + k] # "waiting"
  <2>1. \A i \in Crash!Index' : phase'[i] = "done" <=> i <= d
    BY <1>1
  <2>2. Len(Crash!OpenAt(cLog').pending) = Len(calls') - d
    BY <1>2, Zenon
  <2>3. \A k \in 1 .. w :
          /\ Crash!OpenAt(cLog').pending[k].call = calls'[d + k]
          /\ Crash!OpenAt(cLog').pending[k].seq # 0 <=> phase'[d + k] # "waiting"
    BY Zenon
  <2>4. 1 .. Len(Crash!OpenAt(cLog').pending) = 1 .. w
    BY Zenon
  <2> QED BY <2>1, <2>2, <2>3, <2>4, Zenon
<1>4. \E x \in 0 .. Len(calls') :
        /\ \A i \in Crash!Index' : phase'[i] = "done" <=> i <= x
        /\ Len(Crash!OpenAt(cLog').pending) = Len(calls') - x
        /\ \A k \in 1 .. Len(Crash!OpenAt(cLog').pending) :
             /\ Crash!OpenAt(cLog').pending[k].call = calls'[x + k]
             /\ Crash!OpenAt(cLog').pending[k].seq # 0 <=> phase'[x + k] # "waiting"
  BY <1>2, <1>3
<1>5. \A i \in Crash!Index' : \A j \in 1 .. i - 1 : phase'[i] # "waiting" => phase'[j] # "waiting"
  BY <1>1
<1>6. \A i \in Crash!Index' : phase'[i] = "flushing" =>
        \E n \in 1 .. goal'[i] : cLog'[n].kind = "tool/call" /\ cLog'[n].call = calls'[i]
  BY <1>1
<1> QED BY <1>4, <1>5, <1>6 DEF Working, Crash!Started

(* A call at work writes its start or its result. *)
LEMMA CallWrites ==
  ASSUME Crash!Bounded, CrashInv, Crash!Fixed, Crash!Same, UNCHANGED <<Crash!driver, calls,
           goal>>, cPc = "tools",
         NEW e, Follows(cLog, e), e.kind \in {"tool/call", "tool/result"}, cLog' = cLog \o <<e>>,
         e.call <= minted, e.turn = cTurn, e.calls = <<>>,
         phase' \in Seq(Crash!Phases), Len(phase') = Len(calls), \A j \in Crash!Index :
           phase'[j] \in Crash!Phases,
         Working'
  PROVE  CrashInv'
<1>1. PICK l \in Nat : l = Len(cLog)
  BY LogKnown
<1>2. PICK t \in Traces : t = Crash!TraceOf(cLog)
  BY LogKnown
<1>3. PICK r \in Opens : r = Crash!OpenAt(cLog)
  BY LogKnown
<1>4. /\ cTurn \in Nat /\ cTurn <= cSetup.turns /\ cSetup.turns \in Nat
      /\ cSetup.steps \in Nat /\ cStep \in Nat
      /\ cStep <= cSetup.steps /\ awaited \in Nat /\ awaited <= l /\ minted \in Nat
      /\ Agree(t, r)
      /\ calls \in Seq(Nat \ {0}) /\ goal \in Seq(Nat) /\ Len(goal) = Len(calls)
  BY <1>1, <1>2, <1>3, LogKnown
<1>5. /\ cPc' = cPc /\ cTurn' = cTurn /\ cStep' = cStep /\ awaited' = awaited
      /\ cAborted' = cAborted
      /\ calls' = calls /\ goal' = goal /\ cSetup' = cSetup /\ minted' = minted
  BY DEF Crash!driver, Crash!Fixed, Crash!Same, Crash!ghosts
<1>6. r.turn = cTurn /\ cTurn # 0 /\ r.step = cStep /\ cStep # 0
  BY <1>3, AtWork
<1>7. /\ cLog' \in Seq(Events) /\ Wholly(cLog') /\ Len(cLog') = l + 1
      /\ Crash!OpenAt(cLog') = Crash!Scan(r, l + 1, e)
      /\ Within(cLog', minted', cSetup'.turns) /\ Entered' /\ durable' \in 0 .. Len(cLog')
  <2>1. UNCHANGED cSetup /\ e.turn <= cSetup.turns /\ \A j \in 1 .. Len(e.calls) : e.calls[j] <= minted
    <3>1. \A j \in 1 .. Len(<<>>) : e.calls[j] <= minted
      OBVIOUS
    <3> QED BY <1>4, <1>5, <3>1
  <2>2. /\ cLog' \in Seq(Events) /\ Wholly(cLog') /\ Len(cLog') = Len(cLog) + 1
        /\ Crash!OpenAt(cLog') = Crash!Scan(Crash!OpenAt(cLog), Len(cLog) + 1, e)
        /\ Within(cLog', minted', cSetup'.turns) /\ Entered' /\ durable' \in 0 .. Len(cLog')
    BY <2>1, DriverWrites
  <2> QED BY <1>1, <1>3, <2>2
<1>8. Crash!Scan(r, l + 1, e).turn = cTurn /\ Crash!Scan(r, l + 1, e).step = cStep
  <2>1. e \in Events /\ Allowed(t, r, e) /\ l + 1 \in Nat \ {0}
    BY <1>2, <1>3 DEF Follows
  <2>2. \A k, j \in 1 .. Len(r.pending) : r.pending[k].call = r.pending[j].call => k = j
    BY <1>4, AgreeIs
  <2>3. CASE e.kind = "tool/call"
    BY <1>6, <2>1, <2>3, ScanOfCall
  <2>4. CASE e.kind = "tool/result"
    BY <1>6, <2>1, <2>2, <2>4, ScanOfResult DEF Allowed
  <2> QED BY <2>3, <2>4
<1>9. /\ \A j \in Crash!Index : goal[j] \in 0 .. Len(cLog') /\ calls[j] <= minted
  BY <1>1, <1>7, AtWork
<1>10. CrashTyped'
  <2>1. cTurn' \in 0 .. cSetup.turns /\ cStep' \in 0 .. cSetup.steps
    BY <1>4, <1>5
  <2>2. awaited' \in 0 .. Len(cLog')
    BY <1>4, <1>5, <1>7
  <2>3. cAborted' \in BOOLEAN /\ cPc' \in Crash!Places
    BY <1>5 DEF CrashInv, CrashTyped, Crash!TypeOK
  <2>4. \A i \in 1 .. Len(calls') : phase'[i] \in Crash!Phases /\ goal'[i] \in 0 .. Len(cLog')
    BY <1>5, <1>9 DEF Crash!Index
  <2> QED BY <1>4, <1>5, <1>7, <2>1, <2>2, <2>3, <2>4, DriverTypes
<1>11. Standing'
  BY <1>5, <1>6, <1>7, <1>8 DEF Standing
<1>12. Made'
  BY <1>5, <1>7, <1>9 DEF Made, Crash!Index
<1> QED BY <1>7, <1>10, <1>11, <1>12 DEF CrashInv

LEMMA FlushingStays ==
  ASSUME cLog \in Seq(Events), NEW e \in Events, cLog' = cLog \o <<e>>,
         NEW i, NEW c, goal[i] \in 0 .. Len(cLog),
         \E n \in 1 .. goal[i] : cLog[n].kind = "tool/call" /\ cLog[n].call = c
  PROVE  \E n \in 1 .. goal[i] : cLog'[n].kind = "tool/call" /\ cLog'[n].call = c
<1>1. PICK n \in 1 .. goal[i] : cLog[n].kind = "tool/call" /\ cLog[n].call = c
  OBVIOUS
<1>2. PICK l \in Nat : l = Len(cLog)
  BY LenProperties
<1>3. n \in 1 .. l
  BY <1>2
<1>4. cLog'[n] = cLog[n]
  BY <1>2, <1>3, JoinOne, Appended
<1> QED BY <1>1, <1>4

LEMMA StartCallKeeps ==
  ASSUME Crash!Bounded, CrashInv, Crash!Fixed, NEW i \in Crash!Index, Crash!StartCall(i)
  PROVE  CrashInv'
<1>1. PICK l \in Nat : l = Len(cLog)
  BY LogKnown
<1>2. PICK t \in Traces : t = Crash!TraceOf(cLog)
  BY LogKnown
<1>3. PICK r \in Opens : r = Crash!OpenAt(cLog)
  BY LogKnown
<1>4. /\ cLog \in Seq(Events) /\ phase \in Seq(Crash!Phases) /\ Len(phase) = Len(calls)
      /\ cTurn \in Nat /\ cStep \in Nat
      /\ Agree(t, r)
  BY <1>2, <1>3, LogKnown
<1>5. /\ cPc = "tools" /\ phase[i] = "waiting"
      /\ \A j \in 1 .. i - 1 : phase[j] \notin {"waiting", "preparing"}
      /\ cLog' = cLog \o <<Crash!CallEvent(cTurn, cStep, calls[i])>>
      /\ Crash!Becomes(i, "preparing")
      /\ UNCHANGED <<Crash!driver, calls, goal>> /\ Crash!Same
  BY DEF Crash!StartCall, Crash!Write
<1>6. \E d \in Nat : \E w \in Nat :
        /\ Len(calls) = d + w /\ Len(Crash!OpenAt(cLog).pending) = w
        /\ \A j \in Crash!Index : phase[j] = "done" <=> j <= d
        /\ \A k \in 1 .. w :
             /\ d + k \in Crash!Index /\ Crash!OpenAt(cLog).pending[k].call = calls[d + k]
             /\ Crash!OpenAt(cLog).pending[k].seq # 0 <=> phase[d + k] # "waiting"
  BY <1>5, AtWork
<1>7. PICK d \in Nat : \E w \in Nat :
        /\ Len(calls) = d + w /\ Len(r.pending) = w
        /\ \A j \in Crash!Index : phase[j] = "done" <=> j <= d
        /\ \A k \in 1 .. w :
             /\ d + k \in Crash!Index /\ r.pending[k].call = calls[d + k]
             /\ r.pending[k].seq # 0 <=> phase[d + k] # "waiting"
  BY <1>3, <1>6
<1>27. PICK w \in Nat :
        /\ Len(calls) = d + w /\ Len(r.pending) = w
        /\ \A j \in Crash!Index : phase[j] = "done" <=> j <= d
        /\ \A k \in 1 .. w :
             /\ d + k \in Crash!Index /\ r.pending[k].call = calls[d + k]
             /\ r.pending[k].seq # 0 <=> phase[d + k] # "waiting"
  BY <1>7
<1>8. /\ r.turn = cTurn /\ r.step = cStep /\ cStep # 0 /\ calls[i] \in Nat \ {0}
      /\ calls[i] <= minted
      /\ \A j \in Crash!Index : \A k \in 1 .. j - 1 : phase[j] # "waiting" => phase[k] # "waiting"
      /\ \A j \in Crash!Index : phase[j] = "flushing" =>
           \E n \in 1 .. goal[j] : cLog[n].kind = "tool/call" /\ cLog[n].call = calls[j]
      /\ \A j \in Crash!Index : phase[j] \in Crash!Phases /\ goal[j] \in 0 .. Len(cLog)
  BY <1>3, <1>5, AtWork
<1>9. PICK e \in Events : e = Crash!CallEvent(cTurn, cStep, calls[i])
  BY <1>4, <1>8, EventsAre
<1>10. /\ e.kind = "tool/call" /\ e.turn = cTurn /\ e.step = cStep /\ e.calls = <<>>
       /\ e.call = calls[i]
  BY <1>9 DEF Crash!CallEvent, Crash!E
<1>11. i \in Nat /\ 1 <= i /\ i <= d + w /\ ~(i <= d)
  BY <1>5, <1>27 DEF Crash!Index
<1>12. PICK x \in Nat : x = i - d /\ x \in 1 .. w /\ d + x = i
  BY <1>11
<1>13. r.pending[x].call = calls[i] /\ x \in 1 .. Len(r.pending)
  BY <1>12, <1>27
<1>14. Follows(cLog, e)
  BY <1>3, <1>8, <1>10, <1>13 DEF Follows, Allowed, InOpenStep
<1>15. /\ phase' \in Seq(Crash!Phases) /\ Len(phase') = Len(calls)
       /\ \A j \in Crash!Index : phase'[j] = IF j = i THEN "preparing" ELSE phase[j]
  BY <1>4, <1>5, <1>27, BecomesIs DEF Crash!Phases
<1>16. PICK q : q = Crash!OpenAt(cLog')
  OBVIOUS
<1>17. /\ Len(q.pending) = w
       /\ \A k \in 1 .. w :
            /\ q.pending[k].call = r.pending[k].call
            /\ q.pending[k].seq = IF r.pending[k].call = calls[i] THEN l + 1 ELSE r.pending[k].seq
  <2>1. q = Crash!Scan(r, l + 1, e)
    BY <1>1, <1>3, <1>4, <1>5, <1>9, <1>16, JoinOne, OpenAtAppend
  <2>2. l + 1 \in Nat \ {0}
    OBVIOUS
  <2>3. /\ Len(q.pending) = Len(r.pending)
        /\ \A k \in 1 .. Len(r.pending) :
             /\ q.pending[k].call = r.pending[k].call
             /\ q.pending[k].seq = IF r.pending[k].call = calls[i] THEN l + 1 ELSE r.pending[k].seq
    BY <1>10, <2>1, <2>2, ScanOfCall
  <2> QED BY <1>27, <2>3
<1>18. Working'
  <2>1. \A k \in 1 .. w : r.pending[k].call = calls[i] <=> d + k = i
    BY <1>4, <1>12, <1>13, <1>27, AgreeIs
  <2>2. \A k \in 1 .. w :
          q.pending[k].call = calls[d + k] /\ (q.pending[k].seq # 0 <=> phase'[d + k] # "waiting")
    <3> TAKE k \in 1 .. w
    <3>1. CASE d + k = i
      <4>1. d + k \in Crash!Index /\ r.pending[k].call = calls[d + k]
        BY <1>27
      <4>2. phase'[d + k] = "preparing"
        BY <1>15, <3>1, <4>1
      <4>3. q.pending[k].call = calls[d + k] /\ q.pending[k].seq = l + 1
        BY <1>17, <2>1, <3>1, <4>1
      <4> QED BY <4>2, <4>3
    <3>2. CASE d + k # i
      <4>1. /\ d + k \in Crash!Index /\ r.pending[k].call = calls[d + k]
            /\ r.pending[k].seq # 0 <=> phase[d + k] # "waiting"
        BY <1>27
      <4>2. phase'[d + k] = phase[d + k]
        BY <1>15, <3>2, <4>1
      <4>3. q.pending[k].call = calls[d + k] /\ q.pending[k].seq = r.pending[k].seq
        BY <1>17, <2>1, <3>2, <4>1
      <4> QED BY <4>1, <4>2, <4>3
    <3> QED BY <3>1, <3>2
  <2>3. \A j \in Crash!Index : phase'[j] = "done" <=> j <= d
    BY <1>5, <1>15, <1>27
  <2>4. \A j \in Crash!Index : \A k \in 1 .. j - 1 : phase'[j] # "waiting" =>
          phase'[k] # "waiting"
    <3> TAKE j \in Crash!Index
    <3> TAKE k \in 1 .. j - 1
    <3>1. k \in Crash!Index
      BY <1>27 DEF Crash!Index
    <3>2. phase[k] # "waiting" => phase'[k] # "waiting"
      BY <1>15, <3>1
    <3>3. CASE j = i
      BY <1>5, <3>2, <3>3
    <3>4. CASE j # i
      BY <1>8, <1>15, <3>2, <3>4
    <3> QED BY <3>3, <3>4
  <2>5. \A j \in Crash!Index : phase'[j] = "flushing" =>
          \E n \in 1 .. goal[j] : cLog'[n].kind = "tool/call" /\ cLog'[n].call = calls[j]
    <3> SUFFICES ASSUME NEW j \in Crash!Index, phase'[j] = "flushing"
                 PROVE  \E n \in 1 .. goal[j] : cLog'[n].kind = "tool/call" /\
                          cLog'[n].call = calls[j]
      OBVIOUS
    <3>1. phase[j] = "flushing"
      BY <1>15
    <3>2. goal[j] \in 0 .. Len(cLog) /\ \E n \in 1 .. goal[j] : cLog[n].kind = "tool/call" /\
            cLog[n].call = calls[j]
      BY <1>8, <3>1
    <3>3. cLog' = cLog \o <<e>>
      BY <1>5, <1>9
    <3> QED BY <1>4, <3>2, <3>3, FlushingStays
  <2>6. cPc' = cPc /\ calls' = calls /\ goal' = goal
    BY <1>5 DEF Crash!driver
  <2>7. Len(Crash!OpenAt(cLog').pending) = w
    BY <1>16, <1>17
  <2>8. \A k \in 1 .. w :
          /\ Crash!OpenAt(cLog').pending[k].call = calls[d + k]
          /\ Crash!OpenAt(cLog').pending[k].seq # 0 <=> phase'[d + k] # "waiting"
    BY <1>16, <2>2
  <2> QED BY <1>27, <2>3, <2>4, <2>5, <2>6, <2>7, <2>8, WorkingNext
<1>19. \A j \in Crash!Index : phase'[j] \in Crash!Phases
  BY <1>8, <1>15 DEF Crash!Phases
<1> QED BY <1>5, <1>8, <1>9, <1>10, <1>14, <1>15, <1>18, <1>19, CallWrites

LEMMA CommitKeeps ==
  ASSUME Crash!Bounded, CrashInv, Crash!Fixed, NEW i \in Crash!Index, Crash!Commit(i)
  PROVE  CrashInv'
<1>1. PICK l \in Nat : l = Len(cLog)
  BY LogKnown
<1>2. PICK t \in Traces : t = Crash!TraceOf(cLog)
  BY LogKnown
<1>3. PICK r \in Opens : r = Crash!OpenAt(cLog)
  BY LogKnown
<1>4. /\ cLog \in Seq(Events) /\ phase \in Seq(Crash!Phases) /\ Len(phase) = Len(calls)
      /\ cTurn \in Nat /\ cStep \in Nat
      /\ Agree(t, r)
  BY <1>2, <1>3, LogKnown
<1>5. /\ cPc = "tools" /\ phase[i] = "settled" /\ \A j \in 1 .. i - 1 : phase[j] = "done"
      /\ cLog' = cLog \o <<Crash!ResultEvent(cTurn, cStep, calls[i], "settled",
           Crash!CallSeq(calls[i]))>>
      /\ Crash!Becomes(i, "done") /\ UNCHANGED <<Crash!driver, calls, goal>> /\ Crash!Same
  BY DEF Crash!Commit, Crash!Write
<1>6. \E d \in Nat : \E w \in Nat :
        /\ Len(calls) = d + w /\ Len(Crash!OpenAt(cLog).pending) = w
        /\ \A j \in Crash!Index : phase[j] = "done" <=> j <= d
        /\ \A k \in 1 .. w :
             /\ d + k \in Crash!Index /\ Crash!OpenAt(cLog).pending[k].call = calls[d + k]
             /\ Crash!OpenAt(cLog).pending[k].seq # 0 <=> phase[d + k] # "waiting"
  BY <1>5, AtWork
<1>7. PICK d \in Nat : \E w \in Nat :
        /\ Len(calls) = d + w /\ Len(r.pending) = w
        /\ \A j \in Crash!Index : phase[j] = "done" <=> j <= d
        /\ \A k \in 1 .. w :
             /\ d + k \in Crash!Index /\ r.pending[k].call = calls[d + k]
             /\ r.pending[k].seq # 0 <=> phase[d + k] # "waiting"
  BY <1>3, <1>6
<1>27. PICK w \in Nat :
        /\ Len(calls) = d + w /\ Len(r.pending) = w
        /\ \A j \in Crash!Index : phase[j] = "done" <=> j <= d
        /\ \A k \in 1 .. w :
             /\ d + k \in Crash!Index /\ r.pending[k].call = calls[d + k]
             /\ r.pending[k].seq # 0 <=> phase[d + k] # "waiting"
  BY <1>7
<1>8. /\ r.turn = cTurn /\ r.step = cStep /\ cStep # 0 /\ calls[i] \in Nat \ {0}
      /\ calls[i] <= minted
      /\ \A j \in Crash!Index : \A k \in 1 .. j - 1 : phase[j] # "waiting" => phase[k] # "waiting"
      /\ \A j \in Crash!Index : phase[j] = "flushing" =>
           \E n \in 1 .. goal[j] : cLog[n].kind = "tool/call" /\ cLog[n].call = calls[j]
      /\ \A j \in Crash!Index : phase[j] \in Crash!Phases /\ goal[j] \in 0 .. Len(cLog)
  BY <1>3, <1>5, AtWork
<1>9. Crash!CallSeq(calls[i]) \in Nat
  BY <1>1, <1>5, StartedIsCalled DEF Called, Crash!CallSeq
<1>10. PICK e \in Events : e = Crash!ResultEvent(cTurn, cStep, calls[i], "settled",
              Crash!CallSeq(calls[i]))
  BY <1>4, <1>8, <1>9, EventsAre DEF Codes
<1>11. /\ e.kind = "tool/result" /\ e.turn = cTurn /\ e.step = cStep /\ e.calls = <<>>
       /\ e.call = calls[i]
       /\ e.code = "settled"
  BY <1>10 DEF Crash!ResultEvent, Crash!E
<1>12. i = d + 1 /\ i <= d + w
  <2>1. i \in Nat /\ 1 <= i /\ i <= d + w /\ ~(i <= d)
    BY <1>5, <1>27 DEF Crash!Index
  <2>2. ASSUME d + 1 # i PROVE FALSE
    <3>1. d + 1 \in 1 .. i - 1 /\ d + 1 \in Crash!Index
      BY <1>27, <2>1, <2>2 DEF Crash!Index
    <3>2. phase[d + 1] = "done"
      BY <1>5, <3>1
    <3> QED BY <1>27, <3>1, <3>2
  <2> QED BY <2>1, <2>2
<1>13. PICK y \in Nat : w = y + 1
  BY <1>12
<1>14. /\ r.pending # <<>> /\ r.pending[1].call = calls[i] /\ r.pending[1].seq # 0
  <2>1. 1 \in 1 .. w
    BY <1>13
  <2>2. r.pending # <<>>
    BY <1>13, <1>27, Pendings
  <2> QED BY <1>5, <1>12, <1>27, <2>1, <2>2
<1>15. Follows(cLog, e)
  BY <1>3, <1>8, <1>11, <1>14 DEF Follows, Allowed, InOpenStep
<1>16. /\ phase' \in Seq(Crash!Phases) /\ Len(phase') = Len(calls)
       /\ \A j \in Crash!Index : phase'[j] = IF j = i THEN "done" ELSE phase[j]
  BY <1>4, <1>5, <1>27, BecomesIs DEF Crash!Phases
<1>17. PICK q : q = Crash!OpenAt(cLog')
  OBVIOUS
<1>18. Len(q.pending) = y /\ \A k \in 1 .. y : q.pending[k] = r.pending[k + 1]
  <2>1. q = Crash!Scan(r, l + 1, e)
    BY <1>1, <1>3, <1>4, <1>5, <1>10, <1>17, JoinOne, OpenAtAppend
  <2>2. l + 1 \in Nat \ {0}
    OBVIOUS
  <2>3. \A k, j \in 1 .. Len(r.pending) : r.pending[k].call = r.pending[j].call => k = j
    BY <1>4, AgreeIs
  <2>4. /\ Len(q.pending) = Len(r.pending) - 1
        /\ \A k \in 1 .. Len(r.pending) - 1 : q.pending[k] = r.pending[k + 1]
    BY <1>11, <1>14, <2>1, <2>2, <2>3, ScanOfResult
  <2>5. Len(r.pending) = y + 1 /\ Len(r.pending) - 1 = y
    BY <1>13, <1>27
  <2> QED BY <2>4, <2>5
<1>19. Working'
  <2>1. \A k \in 1 .. y : k + 1 \in 1 .. w /\ d + (k + 1) = i + k /\ i + k # i
    BY <1>12, <1>13
  <2>2. \A k \in 1 .. y :
          q.pending[k].call = calls[i + k] /\ (q.pending[k].seq # 0 <=> phase'[i + k] # "waiting")
    <3> TAKE k \in 1 .. y
    <3>1. PICK h \in 1 .. w : h = k + 1 /\ d + h = i + k
      BY <2>1
    <3>2. /\ d + h \in Crash!Index /\ r.pending[h].call = calls[d + h]
          /\ r.pending[h].seq # 0 <=> phase[d + h] # "waiting"
      BY <1>27
    <3>3. phase'[i + k] = phase[d + h]
      BY <1>16, <2>1, <3>1, <3>2
    <3> QED BY <1>18, <3>1, <3>2, <3>3
  <2>3. \A j \in Crash!Index : phase'[j] = "done" <=> j <= i
    <3> TAKE j \in Crash!Index
    <3>1. j \in Nat /\ i \in Nat /\ (j <= i <=> j = i \/ j <= d)
      BY <1>12 DEF Crash!Index
    <3>2. phase[j] = "done" <=> j <= d
      BY <1>27
    <3>3. phase'[j] = IF j = i THEN "done" ELSE phase[j]
      BY <1>16
    <3> QED BY <3>1, <3>2, <3>3
  <2>4. \A j \in Crash!Index : \A k \in 1 .. j - 1 : phase'[j] # "waiting" =>
          phase'[k] # "waiting"
    <3> TAKE j \in Crash!Index
    <3> TAKE k \in 1 .. j - 1
    <3>1. k \in Crash!Index
      BY <1>27 DEF Crash!Index
    <3>2. phase[k] # "waiting" => phase'[k] # "waiting"
      BY <1>16, <3>1
    <3>3. CASE j = i
      BY <1>5, <1>8, <3>2, <3>3
    <3>4. CASE j # i
      BY <1>8, <1>16, <3>2, <3>4
    <3> QED BY <3>3, <3>4
  <2>5. \A j \in Crash!Index : phase'[j] = "flushing" =>
          \E n \in 1 .. goal[j] : cLog'[n].kind = "tool/call" /\ cLog'[n].call = calls[j]
    <3> SUFFICES ASSUME NEW j \in Crash!Index, phase'[j] = "flushing"
                 PROVE  \E n \in 1 .. goal[j] : cLog'[n].kind = "tool/call" /\
                          cLog'[n].call = calls[j]
      OBVIOUS
    <3>1. phase[j] = "flushing"
      BY <1>16
    <3>2. goal[j] \in 0 .. Len(cLog) /\ \E n \in 1 .. goal[j] : cLog[n].kind = "tool/call" /\
            cLog[n].call = calls[j]
      BY <1>8, <3>1
    <3>3. cLog' = cLog \o <<e>>
      BY <1>5, <1>10
    <3> QED BY <1>4, <3>2, <3>3, FlushingStays
  <2>6. cPc' = cPc /\ calls' = calls /\ goal' = goal
    BY <1>5 DEF Crash!driver
  <2>7. i \in Nat /\ Len(calls) = i + y /\ Len(Crash!OpenAt(cLog').pending) = y
    BY <1>12, <1>13, <1>17, <1>18, <1>27
  <2>8. \A k \in 1 .. y :
          /\ Crash!OpenAt(cLog').pending[k].call = calls[i + k]
          /\ Crash!OpenAt(cLog').pending[k].seq # 0 <=> phase'[i + k] # "waiting"
    BY <1>17, <2>2
  <2> QED BY <2>3, <2>4, <2>5, <2>6, <2>7, <2>8, WorkingNext
<1>20. \A j \in Crash!Index : phase'[j] \in Crash!Phases
  BY <1>8, <1>16 DEF Crash!Phases
<1> QED BY <1>5, <1>8, <1>10, <1>11, <1>15, <1>16, <1>19, <1>20, CallWrites


--------------------------------------------------------------------------------
(* The end of a step whose signal was aborted *)

(* Sequences joined one behind the other. *)
Joining(g, q, n) == g = [i \in 1 .. n |-> IF i = 1 THEN q[i] ELSE g[i - 1] \o q[i]]

LEMMA JoiningExists ==
  ASSUME NEW q
  PROVE  \A n \in Nat : \E g : Joining(g, q, n)
<1> DEFINE Off == {n \in Nat : ~ \E g : Joining(g, q, n)}
<1> SUFFICES ASSUME Off # {} PROVE FALSE
  OBVIOUS
<1>1. PICK n \in Off : \A m \in Off : n <= m
  <2>1. Off \in SUBSET Nat
    OBVIOUS
  <2> HIDE DEF Off
  <2> QED BY <2>1, Smallest
<1>2. CASE n = 0
  <2> DEFINE g == [i \in 1 .. 0 |-> {}]
  <2>1. Joining(g, q, 0)
    BY DEF Joining
  <2> QED BY <1>2, <2>1
<1>3. CASE n > 0
  <2>1. n - 1 \in Nat /\ n \in Nat /\ ~(n <= n - 1)
    BY <1>3
  <2>2. PICK g : Joining(g, q, n - 1)
    BY <1>1, <2>1
  <2> DEFINE h == [i \in 1 .. n |-> IF i < n THEN g[i] ELSE IF n = 1 THEN q[n] ELSE g[n - 1] \o q[n]]
  <2>3. ASSUME NEW i \in 1 .. n
        PROVE  h[i] = IF i = 1 THEN q[i] ELSE h[i - 1] \o q[i]
    <3>1. CASE i = n
      <4>1. i # 1 => h[i - 1] = g[n - 1]
        BY <2>1, <3>1
      <4>2. h[i] = IF n = 1 THEN q[n] ELSE g[n - 1] \o q[n]
        BY <2>1, <3>1
      <4> HIDE DEF h
      <4> QED BY <3>1, <4>1, <4>2
    <3>2. CASE i < n
      <4>1. i \in 1 .. n - 1
        BY <2>1, <3>2
      <4>2. g[i] = IF i = 1 THEN q[i] ELSE g[i - 1] \o q[i]
        BY <2>2, <4>1, Zenon DEF Joining
      <4>3. h[i] = g[i] /\ (i # 1 => h[i - 1] = g[i - 1])
        BY <2>1, <3>2
      <4> HIDE DEF h
      <4> QED BY <4>2, <4>3
    <3> QED BY <2>1, <3>1, <3>2
  <2>4. Joining(h, q, n)
    BY <2>3, Zenon DEF Joining
  <2> QED BY <2>4
<1> QED BY <1>2, <1>3

LEMMA JoinThree ==
  ASSUME NEW s \in Seq(Events), NEW a \in Seq(Events), NEW z \in Seq(Events)
  PROVE  s \o (a \o z) = (s \o a) \o z
BY ConcatAssociative

(* Behind s the sequences of q are written one after the other. *)
InTurn(p, s, q, n) ==
  /\ p[0] = s /\ p[n] = s \o Crash!FlattenSeq(q)
  /\ \A i \in 0 .. n : p[i] \in Seq(Events)
  /\ \A i \in 1 .. n : p[i] = p[i - 1] \o q[i]

LEMMA WrittenInTurn ==
  ASSUME NEW s \in Seq(Events), NEW n \in Nat, NEW q, Len(q) = n, n = 0 => q = <<>>,
         \A i \in 1 .. n : q[i] \in Seq(Events)
  PROVE  \E p : InTurn(p, s, q, n)
<1>1. CASE n = 0
  <2> DEFINE p == [i \in 0 .. 0 |-> s]
  <2>1. q = <<>>
    BY <1>1
  <2>2. Crash!FlattenSeq(q) = <<>>
    BY <1>1, <2>1 DEF Crash!FlattenSeq
  <2>3. s \o <<>> = s
    BY ConcatEmptySeq
  <2>4. p[0] = s /\ p[n] = s \o Crash!FlattenSeq(q)
    BY <1>1, <2>2, <2>3
  <2>5. /\ \A i \in 0 .. n : p[i] \in Seq(Events)
        /\ \A i \in 1 .. n : p[i] = p[i - 1] \o q[i]
    BY <1>1
  <2>6. InTurn(p, s, q, n)
    BY <2>4, <2>5 DEF InTurn
  <2> QED BY <2>6
<1>2. CASE n # 0
  <2>1. PICK g : g = CHOOSE f : Joining(f, q, n)
    OBVIOUS
  <2>2. Joining(g, q, n)
    <3>1. \E f : Joining(f, q, n)
      BY JoiningExists
    <3> QED BY <2>1, <3>1, Zenon
  <2>3. Crash!FlattenSeq(q) = g[n]
    BY <1>2, <2>1 DEF Crash!FlattenSeq, Joining
  <2>4. \A i \in 1 .. n : g[i] = IF i = 1 THEN q[i] ELSE g[i - 1] \o q[i]
    BY <2>2, Zenon DEF Joining
  <2> DEFINE Off == {i \in 1 .. n : g[i] \notin Seq(Events)}
  <2>5. Off = {}
    <3> SUFFICES ASSUME Off # {} PROVE FALSE
      OBVIOUS
    <3>1. PICK i \in Off : \A m \in Off : i <= m
      <4>1. Off \in SUBSET Nat
        OBVIOUS
      <4> HIDE DEF Off
      <4> QED BY <4>1, Smallest
    <3>2. i \in 1 .. n /\ g[i] \notin Seq(Events) /\ ~(i <= i - 1)
      OBVIOUS
    <3>3. i # 1
      BY <2>4, <3>2
    <3>4. i - 1 \in 1 .. n
      BY <3>2, <3>3
    <3>5. g[i - 1] \in Seq(Events)
      BY <3>1, <3>2, <3>4
    <3>6. g[i] = g[i - 1] \o q[i]
      BY <2>4, <3>2, <3>3
    <3> QED BY <3>2, <3>5, <3>6, ConcatProperties
  <2>6. \A i \in 1 .. n : g[i] \in Seq(Events)
    BY <2>5
  <2> DEFINE p == [i \in 0 .. n |-> IF i = 0 THEN s ELSE s \o g[i]]
  <2>10. n \in 0 .. n /\ 0 \in 0 .. n
    OBVIOUS
  <2>7. p[0] = s /\ p[n] = s \o Crash!FlattenSeq(q)
    BY <1>2, <2>3, <2>10
  <2>8. \A i \in 0 .. n : p[i] \in Seq(Events)
    BY <2>6, ConcatProperties
  <2>9. \A i \in 1 .. n : p[i] = p[i - 1] \o q[i]
    <3> TAKE i \in 1 .. n
    <3>4. i \in 0 .. n /\ i # 0 /\ i - 1 \in 0 .. n
      OBVIOUS
    <3>1. p[i] = s \o g[i]
      BY <3>4
    <3>2. CASE i = 1
      <4>1. p[i - 1] = s /\ g[i] = q[i]
        BY <2>4, <3>2
      <4> QED BY <3>1, <4>1
    <3>3. CASE i # 1
      <4>1. i - 1 \in 1 .. n
        BY <3>3
      <4>5. i - 1 # 0
        BY <4>1
      <4>6. p[i - 1] = s \o g[i - 1]
        BY <3>4, <4>5
      <4>7. g[i] = g[i - 1] \o q[i]
        BY <2>4, <3>3
      <4> HIDE DEF p
      <4>2. p[i - 1] = s \o g[i - 1] /\ g[i] = g[i - 1] \o q[i]
        BY <4>6, <4>7
      <4>3. g[i - 1] \in Seq(Events) /\ q[i] \in Seq(Events)
        BY <2>6, <4>1
      <4>8. PICK a \in Seq(Events) : a = g[i - 1]
        BY <4>3
      <4>9. PICK z \in Seq(Events) : z = q[i]
        BY <4>3
      <4>4. s \o (a \o z) = (s \o a) \o z
        BY JoinThree
      <4> QED BY <3>1, <4>2, <4>4, <4>8, <4>9
    <3> QED BY <3>2, <3>3
  <2>11. InTurn(p, s, q, n)
    BY <2>7, <2>8, <2>9 DEF InTurn
  <2> QED BY <2>11
<1> QED BY <1>1, <1>2

(* A skipped call is recorded with its result: the first that pends does not any more. *)
Skips(s, e, f) ==
  /\ Crash!OpenAt(s).step # 0 /\ Len(Crash!OpenAt(s).pending) # 0
  /\ e.kind = "tool/call" /\ e.turn = Crash!OpenAt(s).turn /\ e.step = Crash!OpenAt(s).step
  /\ e.calls = <<>>
  /\ e.call = Crash!OpenAt(s).pending[1].call
  /\ f.kind = "tool/result" /\ f.turn = e.turn /\ f.step = e.step /\ f.calls = <<>>
  /\ f.call = e.call
  /\ f.code = "settled"

LEMMA SkipWrites ==
  ASSUME NEW s \in Seq(Events), Wholly(s), NEW e \in Events, NEW f \in Events, Skips(s, e, f)
  PROVE  /\ Append(Append(s, e), f) \in Seq(Events) /\ Wholly(Append(Append(s, e), f))
         /\ Longer(s, Append(Append(s, e), f))
         /\ Crash!OpenAt(Append(Append(s, e), f)).turn = Crash!OpenAt(s).turn
         /\ Crash!OpenAt(Append(Append(s, e), f)).step = Crash!OpenAt(s).step
         /\ Len(Crash!OpenAt(Append(Append(s, e), f)).pending) = Len(Crash!OpenAt(s).pending) - 1
         /\ \A k \in 1 .. Len(Crash!OpenAt(s).pending) - 1 :
              Crash!OpenAt(Append(Append(s, e),
                f)).pending[k].call = Crash!OpenAt(s).pending[k + 1].call
<1>1. Good(s)
  BY WhollyIsGood
<1>2. PICK r \in Opens : r = Crash!OpenAt(s)
  BY <1>1 DEF Good
<1>4. /\ r.step # 0 /\ Len(r.pending) # 0
      /\ e.kind = "tool/call" /\ e.turn = r.turn /\ e.step = r.step /\ e.calls = <<>>
      /\ e.call = r.pending[1].call
      /\ f.kind = "tool/result" /\ f.turn = e.turn /\ f.step = e.step /\ f.calls = <<>>
      /\ f.call = e.call
      /\ f.code = "settled"
  BY <1>2 DEF Skips
<1>3. PICK b \in Nat : Len(r.pending) = b + 1
  <2>1. Len(r.pending) \in Nat /\ Len(r.pending) # 0
    BY <1>4, Pendings
  <2>2. Len(r.pending) - 1 \in Nat /\ Len(r.pending) = (Len(r.pending) - 1) + 1
    BY <2>1
  <2> QED BY <2>2
<1>6. 1 .. Len(<<>>) = {}
  OBVIOUS
<1>7. 1 \in 1 .. Len(r.pending)
  BY <1>3
<1>8. Follows(s, e)
  BY <1>2, <1>4, <1>6, <1>7 DEF Follows, Allowed, InOpenStep
<1>9. PICK l \in Nat : l = Len(s)
  BY LenProperties
<1>10. PICK u \in Seq(Events) : u = Append(s, e)
  BY <1>8, Writing
<1>11. Wholly(u) /\ Longer(s, u) /\ Crash!OpenAt(u) = Crash!Scan(r, l + 1, e)
  BY <1>2, <1>8, <1>9, <1>10, Writing
<1>12. PICK o \in Opens : o = Crash!OpenAt(u)
  BY <1>11, WhollyIsGood DEF Good
<1>13. /\ o.turn = r.turn /\ o.step = r.step /\ Len(o.pending) = b + 1
       /\ \A k \in 1 .. b + 1 : o.pending[k].call = r.pending[k].call
       /\ o.pending[1].seq # 0
  BY <1>3, <1>4, <1>7, <1>11, <1>12, ScanOfCall
<1>14. Agree(Crash!TraceOf(u), o)
  BY <1>11, <1>12, WhollyIsGood DEF Good
<1>15. o.pending # <<>> /\ o.pending[1].call = f.call
  BY <1>4, <1>13, Pendings
<1>16. Follows(u, f)
  BY <1>4, <1>6, <1>12, <1>13, <1>15 DEF Follows, Allowed, InOpenStep
<1>18. PICK j \in Nat : j = Len(u)
  BY LenProperties
<1>17. PICK p : p = Append(u, f)
  OBVIOUS
<1>19. p \in Seq(Events) /\ Wholly(p) /\ Longer(u, p) /\ Crash!OpenAt(p) = Crash!Scan(o, j + 1, f)
  BY <1>11, <1>12, <1>16, <1>17, <1>18, Writing
<1>20. Longer(s, p)
  BY <1>11, <1>19, LongerStill
<1>22. /\ Crash!OpenAt(p).turn = r.turn /\ Crash!OpenAt(p).step = r.step
       /\ Len(Crash!OpenAt(p).pending) = b
       /\ \A k \in 1 .. b : Crash!OpenAt(p).pending[k] = o.pending[k + 1]
  <2>1. j + 1 \in Nat \ {0}
    OBVIOUS
  <2>2. \A k, i \in 1 .. Len(o.pending) : o.pending[k].call = o.pending[i].call => k = i
    BY <1>14, AgreeIs
  <2>3. /\ Crash!Scan(o, j + 1, f).turn = o.turn /\ Crash!Scan(o, j + 1, f).step = o.step
        /\ Len(Crash!Scan(o, j + 1, f).pending) = Len(o.pending) - 1
        /\ \A k \in 1 .. Len(o.pending) - 1 :
             Crash!Scan(o, j + 1, f).pending[k] = o.pending[k + 1]
    BY <1>4, <1>15, <2>1, <2>2, ScanOfResult
  <2>5. Len(o.pending) - 1 = b
    BY <1>13
  <2> QED BY <1>13, <1>19, <2>3, <2>5
<1>23. ASSUME NEW k \in 1 .. b PROVE k + 1 \in 1 .. b + 1
  OBVIOUS
<1>24. \A k \in 1 .. b : Crash!OpenAt(p).pending[k].call = r.pending[k + 1].call
  BY <1>13, <1>22, <1>23
<1>25. p = Append(Append(s, e), f) /\ Len(r.pending) - 1 = b
  BY <1>3, <1>10, <1>17
<1> QED BY <1>2, <1>19, <1>20, <1>22, <1>24, <1>25


(* The calls that were not started are recorded with their results. *)
LEMMA SkippedIs ==
  ASSUME Crash!Bounded, CrashInv, cPc = "tools", NEW i \in Crash!Index
  PROVE  /\ phase[i] # "waiting" => Crash!Skipped(i) = <<>>
         /\ phase[i] = "waiting" =>
              \E x \in Nat : /\ Crash!CallEvent(cTurn, cStep, calls[i]) \in Events
                             /\ Crash!ResultEvent(cTurn, cStep, calls[i], "settled", x) \in Events
                             /\ Crash!Skipped(i) = <<Crash!CallEvent(cTurn, cStep, calls[i]),
                                               Crash!ResultEvent(cTurn, cStep, calls[i],
                                                 "settled", x)>>
         /\ Crash!Skipped(i) \in Seq(Events)
<1>1. PICK x : x = Len(cLog) + 2 * Crash!Cardinality({j \in 1 .. i - 1 : ~Crash!Started(j)}) + 1
  OBVIOUS
<1>2. x \in Nat
  <2>1. PICK c : c = Crash!Cardinality({j \in 1 .. i - 1 : ~Crash!Started(j)})
    OBVIOUS
  <2>2. c \in Nat
    <3>1. Len(calls) \in Nat
      BY LogKnown
    <3>2. i - 1 \in Int /\ 1 \in Int
      BY <3>1 DEF Crash!Index
    <3>3. IsFiniteSet(1 .. i - 1)
      BY <3>2, FS_Interval
    <3>4. IsFiniteSet({j \in 1 .. i - 1 : ~Crash!Started(j)})
      BY <3>3, FS_Subset
    <3> QED BY <2>1, <3>4, CrashSizes, FS_CardinalityType
  <2>3. Len(cLog) \in Nat
    BY LogKnown
  <2> QED BY <1>1, <2>1, <2>2, <2>3
<1>3. phase[i] # "waiting" => Crash!Skipped(i) = <<>>
  BY DEF Crash!Skipped, Crash!Started
<1>4. phase[i] = "waiting" =>
        Crash!Skipped(i) = <<Crash!CallEvent(cTurn, cStep, calls[i]),
          Crash!ResultEvent(cTurn, cStep, calls[i], "settled", x)>>
  BY <1>1 DEF Crash!Skipped, Crash!Started
<1>5. cTurn \in Nat /\ cStep \in Nat /\ calls[i] \in Nat
  BY LogKnown, AtWork
<1>6. Crash!CallEvent(cTurn, cStep, calls[i]) \in Events /\
        Crash!ResultEvent(cTurn, cStep, calls[i], "settled", x) \in Events
  BY <1>2, <1>5, EventsAre DEF Codes
<1>7. Crash!Skipped(i) \in Seq(Events)
  <2>1. <<>> \in Seq(Events)
    OBVIOUS
  <2>2. PICK e \in Events : e = Crash!CallEvent(cTurn, cStep, calls[i])
    BY <1>6
  <2>3. PICK f \in Events : f = Crash!ResultEvent(cTurn, cStep, calls[i], "settled", x)
    BY <1>6
  <2>4. <<e, f>> \in Seq(Events)
    OBVIOUS
  <2> QED BY <1>3, <1>4, <2>1, <2>2, <2>3, <2>4
<1> QED BY <1>2, <1>3, <1>4, <1>6, <1>7

(* Where the log is open after the first i calls were looked at, d of them done before. *)
SkippedTo(s, i, d) ==
  /\ s \in Seq(Events) /\ Wholly(s) /\ Longer(cLog, s) /\ Within(s, minted, cSetup.turns)
  /\ Crash!OpenAt(s).turn = cTurn /\ Crash!OpenAt(s).step = cStep
  /\ \E a \in Nat : \E b \in Nat :
       /\ Len(calls) = a + b /\ Len(Crash!OpenAt(s).pending) = b
       /\ (i <= d => a = d) /\ (~(i <= d) => a = i)
       /\ \A k \in 1 .. b : Crash!OpenAt(s).pending[k].call = calls[a + k]

LEMMA SkipNext ==
  ASSUME Crash!Bounded, CrashInv, cPc = "tools", NEW d \in Nat, \A j \in Crash!Index :
           phase[j] = "done" <=> j <= d,
         \A j \in Crash!Index : phase[j] \in {"done", "waiting"},
         NEW i \in Nat, i + 1 \in Crash!Index, NEW s, SkippedTo(s, i, d), NEW p,
           p = s \o Crash!Skipped(i + 1)
  PROVE  SkippedTo(p, i + 1, d)
<1>1. /\ s \in Seq(Events) /\ Wholly(s) /\ Longer(cLog, s) /\ Within(s, minted, cSetup.turns)
      /\ Crash!OpenAt(s).turn = cTurn /\ Crash!OpenAt(s).step = cStep
  BY DEF SkippedTo
<1>2. PICK a \in Nat : \E b \in Nat :
       /\ Len(calls) = a + b /\ Len(Crash!OpenAt(s).pending) = b
       /\ (i <= d => a = d) /\ (~(i <= d) => a = i)
       /\ \A k \in 1 .. b : Crash!OpenAt(s).pending[k].call = calls[a + k]
  BY DEF SkippedTo
<1>3. PICK b \in Nat :
       /\ Len(calls) = a + b /\ Len(Crash!OpenAt(s).pending) = b
       /\ (i <= d => a = d) /\ (~(i <= d) => a = i)
       /\ \A k \in 1 .. b : Crash!OpenAt(s).pending[k].call = calls[a + k]
  BY <1>2
<1>4. CASE i + 1 <= d
  <2>1. phase[i + 1] = "done"
    BY <1>4
  <2>2. Crash!Skipped(i + 1) = <<>>
    BY <2>1, SkippedIs
  <2>3. p = s
    BY <1>1, <2>2, ConcatEmptySeq
  <2>4. i <= d
    BY <1>4
  <2>5. /\ (i + 1 <= d => a = d) /\ (~(i + 1 <= d) => a = i + 1)
    BY <1>3, <1>4, <2>4
  <2>7. Len(Crash!OpenAt(p).pending) = b /\ \A k \in 1 .. b :
          Crash!OpenAt(p).pending[k].call = calls[a + k]
    BY <1>3, <2>3
  <2>6. \E y \in Nat : \E z \in Nat :
          /\ Len(calls) = y + z /\ Len(Crash!OpenAt(p).pending) = z
          /\ (i + 1 <= d => y = d) /\ (~(i + 1 <= d) => y = i + 1)
          /\ \A k \in 1 .. z : Crash!OpenAt(p).pending[k].call = calls[y + k]
    BY <1>3, <2>5, <2>7
  <2> QED BY <1>1, <2>3, <2>6 DEF SkippedTo
<1>5. CASE ~(i + 1 <= d)
  <2>1. phase[i + 1] = "waiting"
    BY <1>5
  <2>2. PICK x \in Nat : /\ Crash!CallEvent(cTurn, cStep, calls[i + 1]) \in Events
                         /\ Crash!ResultEvent(cTurn, cStep, calls[i + 1], "settled", x) \in Events
                         /\ Crash!Skipped(i + 1) = <<Crash!CallEvent(cTurn, cStep, calls[i + 1]),
                                               Crash!ResultEvent(cTurn, cStep, calls[i + 1],
                                                 "settled", x)>>
    BY <2>1, SkippedIs
  <2>3. a = i
    BY <1>3, <1>5
  <2>4. i + 1 <= a + b
    BY <1>3 DEF Crash!Index
  <2>5. PICK w \in Nat : b = w + 1
    BY <2>3, <2>4
  <2>6. Crash!OpenAt(s).pending[1].call = calls[i + 1]
    BY <1>3, <2>3, <2>5
  <2>7. /\ cTurn \in Nat /\ cStep \in Nat \ {0} /\ calls[i + 1] \in Nat \ {0}
        /\ calls[i + 1] <= minted
        /\ cTurn <= cSetup.turns /\ minted \in Nat /\ cSetup.turns \in Nat
    BY LogKnown, AtWork
  <2>8. /\ p \in Seq(Events) /\ Wholly(p) /\ Longer(s, p) /\ Within(p, minted, cSetup.turns)
        /\ Crash!OpenAt(p).turn = cTurn /\ Crash!OpenAt(p).step = cStep
        /\ Len(Crash!OpenAt(p).pending) = w
        /\ \A k \in 1 .. w : /\ Crash!OpenAt(p).pending[k].call = Crash!OpenAt(s).pending[k + 1].call
                             /\ k + 1 \in 1 .. w + 1
    <3>1. Len(Crash!OpenAt(s).pending) = w + 1
      BY <1>3, <2>5
    <3>2. PICK e \in Events : e = Crash!CallEvent(cTurn, cStep, calls[i + 1])
      BY <2>2
    <3>7. PICK f \in Events : f = Crash!ResultEvent(cTurn, cStep, calls[i + 1], "settled", x)
      BY <2>2
    <3>8. p = Append(Append(s, e), f)
      <4>1. Crash!Skipped(i + 1) = <<e, f>>
        BY <2>2, <3>2, <3>7
      <4>2. s \o <<e, f>> = (s \o <<e>>) \o <<f>>
        BY <1>1, JoinTwo
      <4>3. s \o <<e>> = Append(s, e) /\ Append(s, e) \in Seq(Events)
        BY <1>1, JoinOne, Appended
      <4>4. Append(s, e) \o <<f>> = Append(Append(s, e), f)
        BY <4>3, JoinOne
      <4> QED BY <4>1, <4>2, <4>3, <4>4
    <3>3. /\ e.kind = "tool/call" /\ e.turn = cTurn /\ e.step = cStep /\ e.calls = <<>>
          /\ e.call = calls[i + 1]
          /\ f.kind = "tool/result" /\ f.turn = cTurn /\ f.step = cStep /\ f.calls = <<>>
          /\ f.call = calls[i + 1] /\ f.code = "settled"
      BY <3>2, <3>7 DEF Crash!CallEvent, Crash!ResultEvent, Crash!E
    <3>4. /\ p \in Seq(Events) /\ Wholly(p) /\ Longer(s, p)
          /\ Crash!OpenAt(p).turn = Crash!OpenAt(s).turn
          /\ Crash!OpenAt(p).step = Crash!OpenAt(s).step
          /\ Len(Crash!OpenAt(p).pending) = Len(Crash!OpenAt(s).pending) - 1
          /\ \A k \in 1 .. Len(Crash!OpenAt(s).pending) - 1 :
               Crash!OpenAt(p).pending[k].call = Crash!OpenAt(s).pending[k + 1].call
      <4>1. Crash!OpenAt(s).step # 0 /\ Len(Crash!OpenAt(s).pending) # 0
        BY <1>1, <2>7, <3>1
      <4>2. Crash!OpenAt(s).pending[1].call = calls[i + 1] /\ Crash!OpenAt(s).turn = cTurn /\
              Crash!OpenAt(s).step = cStep
        BY <1>1, <2>6
      <4>3. /\ e.turn = Crash!OpenAt(s).turn /\ e.step = Crash!OpenAt(s).step
            /\ e.call = Crash!OpenAt(s).pending[1].call
            /\ f.turn = e.turn /\ f.step = e.step /\ f.call = e.call
            /\ e.kind = "tool/call" /\ e.calls = <<>> /\ f.kind = "tool/result"
            /\ f.calls = <<>>
            /\ f.code = "settled"
        BY <3>3, <4>2
      <4>4. Skips(s, e, f)
        BY <4>1, <4>3 DEF Skips
      <4>5. s \in Seq(Events) /\ Wholly(s)
        BY <1>1
      <4>6. /\ Append(Append(s, e), f) \in Seq(Events) /\ Wholly(Append(Append(s, e), f))
            /\ Longer(s, Append(Append(s, e), f))
            /\ Crash!OpenAt(Append(Append(s, e), f)).turn = Crash!OpenAt(s).turn
            /\ Crash!OpenAt(Append(Append(s, e), f)).step = Crash!OpenAt(s).step
            /\ Len(Crash!OpenAt(Append(Append(s, e),
                 f)).pending) = Len(Crash!OpenAt(s).pending) - 1
            /\ \A k \in 1 .. Len(Crash!OpenAt(s).pending) - 1 :
                 Crash!OpenAt(Append(Append(s, e),
                   f)).pending[k].call = Crash!OpenAt(s).pending[k + 1].call
        BY <4>4, <4>5, SkipWrites
      <4> QED BY <3>8, <4>6
    <3>5. Within(p, minted, cSetup.turns)
      <4>1. 1 .. Len(<<>>) = {}
        OBVIOUS
      <4>2. Within(Append(s, e), minted, cSetup.turns)
        BY <1>1, <2>7, <3>3, <4>1, WithinGrows
      <4>3. Append(s, e) \in Seq(Events)
        BY <1>1, Appended
      <4> QED BY <2>7, <3>3, <3>8, <4>1, <4>2, <4>3, WithinGrows
    <3>6. Len(Crash!OpenAt(s).pending) - 1 = w
      BY <3>1
    <3>9. ASSUME NEW k \in 1 .. w PROVE k + 1 \in 1 .. w + 1
      OBVIOUS
    <3> QED BY <1>1, <3>4, <3>5, <3>6, <3>9
  <2>9. Longer(cLog, p)
    BY <1>1, <2>8, LogKnown, LongerStill
  <2>10. \A k \in 1 .. w : Crash!OpenAt(p).pending[k].call = calls[(i + 1) + k]
    <3> TAKE k \in 1 .. w
    <3>1. PICK h \in 1 .. b : h = k + 1
      BY <2>5, <2>8
    <3>2. Crash!OpenAt(p).pending[k].call = calls[a + h]
      BY <1>3, <2>8, <3>1
    <3>3. a + h = (i + 1) + k
      BY <2>3, <3>1
    <3> QED BY <3>2, <3>3
  <2>11. i + 1 \in Nat /\ Len(calls) = (i + 1) + w
    BY <1>3, <2>3, <2>5
  <2>12. \E y \in Nat : \E z \in Nat :
           /\ Len(calls) = y + z /\ Len(Crash!OpenAt(p).pending) = z
           /\ (i + 1 <= d => y = d) /\ (~(i + 1 <= d) => y = i + 1)
           /\ \A k \in 1 .. z : Crash!OpenAt(p).pending[k].call = calls[y + k]
    BY <1>5, <2>8, <2>10, <2>11
  <2> QED BY <2>8, <2>9, <2>12 DEF SkippedTo
<1> QED BY <1>4, <1>5

LEMMA ToolsEndWrites ==
  ASSUME Crash!Bounded, CrashInv, Crash!ToolsEnd
  PROVE  /\ cLog' \in Seq(Events) /\ Wholly(cLog') /\ Longer(cLog, cLog')
         /\ Within(cLog', minted, cSetup.turns)
         /\ Crash!OpenAt(cLog').turn = cTurn /\ Crash!OpenAt(cLog').step = cStep
         /\ Crash!OpenAt(cLog').pending = <<>>
         /\ cTurn # 0 /\ cStep # 0
<1>1. PICK z \in Nat : z = Len(calls)
  BY LogKnown
<1>2. PICK q : q = [i \in Crash!Index |-> Crash!Skipped(i)]
  OBVIOUS
<1>3. /\ cPc = "tools" /\ cLog' = cLog \o Crash!FlattenSeq(q)
      /\ \A i \in Crash!Index : phase[i] \in {"done", "waiting"}
  BY <1>2 DEF Crash!ToolsEnd, Crash!Write, Crash!Started
<1>4. /\ q = [i \in 1 .. z |-> q[i]] /\ Len(q) = z /\ \A i \in 1 .. z : q[i] = Crash!Skipped(i)
  BY <1>1, <1>2 DEF Crash!Index
<1>5. \A i \in 1 .. z : q[i] \in Seq(Events)
  BY <1>1, <1>3, <1>4, SkippedIs DEF Crash!Index
<1>6. cLog \in Seq(Events) /\ Wholly(cLog) /\ Within(cLog, minted, cSetup.turns)
  BY LogKnown DEF CrashInv, Made
<1>7. PICK p : /\ p[0] = cLog /\ p[z] = cLog \o Crash!FlattenSeq(q)
               /\ \A i \in 0 .. z : p[i] \in Seq(Events)
               /\ \A i \in 1 .. z : p[i] = p[i - 1] \o q[i]
  <2>1. PICK s \in Seq(Events) : s = cLog
    BY <1>6
  <2>2. z = 0 => q = <<>>
    BY <1>4
  <2>3. Len(q) = z
    BY <1>4
  <2>4. PICK p : InTurn(p, s, q, z)
    BY <1>5, <2>2, <2>3, WrittenInTurn
  <2> QED BY <2>1, <2>4 DEF InTurn
<1>8. PICK d \in Nat : \E w \in Nat :
        /\ Len(calls) = d + w /\ Len(Crash!OpenAt(cLog).pending) = w
        /\ \A j \in Crash!Index : phase[j] = "done" <=> j <= d
        /\ \A k \in 1 .. w :
             /\ d + k \in Crash!Index /\ Crash!OpenAt(cLog).pending[k].call = calls[d + k]
             /\ Crash!OpenAt(cLog).pending[k].seq # 0 <=> phase[d + k] # "waiting"
  BY <1>3, AtWork
<1>9. Crash!OpenAt(cLog).turn = cTurn /\ cTurn # 0 /\ Crash!OpenAt(cLog).step = cStep /\ cStep # 0
  BY <1>3, AtWork
<1> DEFINE Off == {i \in 0 .. z : ~SkippedTo(p[i], i, d)}
<1>10. SkippedTo(p[0], 0, d)
  <2>1. Longer(cLog, cLog)
    BY LogKnown DEF Longer
  <2>2. \E a \in Nat : \E b \in Nat :
          /\ Len(calls) = a + b /\ Len(Crash!OpenAt(cLog).pending) = b
          /\ (0 <= d => a = d) /\ (~(0 <= d) => a = 0)
          /\ \A k \in 1 .. b : Crash!OpenAt(cLog).pending[k].call = calls[a + k]
    BY <1>8
  <2> QED BY <1>6, <1>7, <1>9, <2>1, <2>2 DEF SkippedTo
<1>11. Off = {}
  <2> SUFFICES ASSUME Off # {} PROVE FALSE
    OBVIOUS
  <2>1. PICK n \in Off : \A m \in Off : n <= m
    <3>1. Off \in SUBSET Nat
      OBVIOUS
    <3> HIDE DEF Off
    <3> QED BY <3>1, Smallest
  <2>2. n \in 0 .. z /\ ~SkippedTo(p[n], n, d)
    BY <2>1
  <2>3. n # 0
    BY <1>10, <2>2
  <2>4. n - 1 \in 0 .. z /\ ~(n <= n - 1) /\ n \in 1 .. z
    BY <2>2, <2>3
  <2>5. SkippedTo(p[n - 1], n - 1, d)
    BY <2>1, <2>4
  <2>6. PICK i \in Nat : i = n - 1 /\ i + 1 = n
    BY <2>4
  <2>7. i + 1 \in Crash!Index /\ p[i + 1] = p[i] \o Crash!Skipped(i + 1)
    BY <1>1, <1>4, <1>7, <2>4, <2>6 DEF Crash!Index
  <2>8. SkippedTo(p[i], i, d)
    BY <2>5, <2>6
  <2>9. SkippedTo(p[i + 1], i + 1, d)
    BY <1>3, <1>8, <2>7, <2>8, SkipNext
  <2> QED BY <2>2, <2>6, <2>9
<1>12. SkippedTo(cLog', z, d)
  <2>1. z \in 0 .. z
    OBVIOUS
  <2>2. SkippedTo(p[z], z, d)
    BY <1>11, <2>1
  <2> QED BY <1>3, <1>7, <2>2
<1>13. /\ cLog' \in Seq(Events) /\ Wholly(cLog') /\ Longer(cLog, cLog')
       /\ Within(cLog', minted, cSetup.turns)
       /\ Crash!OpenAt(cLog').turn = cTurn /\ Crash!OpenAt(cLog').step = cStep
  BY <1>12 DEF SkippedTo
<1>14. Len(Crash!OpenAt(cLog').pending) = 0
  BY <1>1, <1>12 DEF SkippedTo
<1>15. Crash!OpenAt(cLog').pending = <<>>
  BY <1>13, <1>14, WhollyIsGood, Pendings DEF Good
<1> QED BY <1>9, <1>13, <1>15

LEMMA ToolsEndKeeps ==
  ASSUME Crash!Bounded, CrashInv, Crash!ToolsEnd, Crash!Fixed
  PROVE  CrashInv'
<1>1. /\ cLog' \in Seq(Events) /\ Wholly(cLog') /\ Longer(cLog, cLog')
      /\ Within(cLog', minted, cSetup.turns)
      /\ Crash!OpenAt(cLog').turn = cTurn /\ Crash!OpenAt(cLog').step = cStep
      /\ Crash!OpenAt(cLog').pending = <<>>
      /\ cTurn # 0 /\ cStep # 0
  BY ToolsEndWrites
<1>2. /\ cPc = "tools" /\ cPc' = "stepend" /\ UNCHANGED <<cTurn, cStep, awaited, cAborted>>
      /\ UNCHANGED Crash!pool /\ Crash!Same /\ UNCHANGED cSetup
  BY DEF Crash!ToolsEnd, Crash!Goto, Crash!Fixed
<1>3. /\ durable' = durable /\ minted' = minted /\ ran' = ran
  BY <1>2 DEF Crash!Same, Crash!ghosts
<1>4. /\ cTurn \in Nat /\ cTurn <= cSetup.turns /\ cSetup.turns \in Nat
      /\ cSetup.steps \in Nat /\ cStep \in Nat
      /\ cStep <= cSetup.steps /\ awaited \in Nat /\ awaited <= Len(cLog) /\ minted \in Nat
      /\ Len(cLog) \in Nat /\ durable \in Nat /\ durable <= Len(cLog)
  BY LogKnown
<1>5. Len(cLog') \in Nat /\ Len(cLog) <= Len(cLog')
  BY <1>1, LenProperties DEF Longer
<1>6. Entered'
  BY <1>1, <1>3, <1>4, EnteredLonger DEF CrashInv
<1>7. /\ \A i \in 1 .. Len(calls') : phase'[i] \in Crash!Phases /\ goal'[i] \in 0 .. Len(cLog')
      /\ Len(phase') = Len(calls') /\ Len(goal') = Len(calls')
      /\ calls' \in Seq(Nat \ {0}) /\ phase' \in Seq(Crash!Phases) /\ goal' \in Seq(Nat)
      /\ \A i \in 1 .. Len(calls') : calls'[i] <= minted'
  BY <1>2, <1>3, <1>5, PoolStays
<1>8. CrashTyped'
  <2>1. durable' \in 0 .. Len(cLog') /\ awaited' \in 0 .. Len(cLog')
    BY <1>2, <1>3, <1>4, <1>5
  <2>2. cTurn' \in 0 .. cSetup.turns /\ cStep' \in 0 .. cSetup.steps
    BY <1>2, <1>4
  <2>3. cPc' \in Crash!Places /\ cAborted' \in BOOLEAN
    BY <1>2 DEF CrashInv, CrashTyped, Crash!TypeOK, Crash!Places
  <2> QED BY <1>1, <1>2, <1>7, <2>1, <2>2, <2>3, DriverTypes
<1>9. Standing'
  BY <1>1, <1>2 DEF Standing
<1>10. Working'
  BY <1>2 DEF Working
<1>11. Made'
  BY <1>1, <1>2, <1>3, <1>7 DEF Made, Crash!Index
<1> QED BY <1>1, <1>6, <1>8, <1>9, <1>10, <1>11 DEF CrashInv


--------------------------------------------------------------------------------
(* Crashes and the process that comes after *)

LEMMA LastTurnWithin ==
  ASSUME NEW s \in Seq(Events), NEW m \in Nat, NEW b \in Nat, Within(s, m, b)
  PROVE  Crash!LastTurn(s) <= b
<1>1. PICK l \in Nat : l = Len(s)
  BY LenProperties
<1>2. PICK S \in SUBSET (1 .. l) : S = {n \in 1 .. Len(s) : s[n].kind = "turn/start"}
  BY <1>1
<1>3. Crash!LastTurn(s) = IF S = {} THEN 0 ELSE s[Crash!Max(S)].turn
  BY <1>2 DEF Crash!LastTurn
<1>4. CASE S = {}
  BY <1>3, <1>4
<1>5. CASE S # {}
  BY <1>1, <1>3, <1>5, LargestOf DEF Within
<1> QED BY <1>4, <1>5

(* A repair names what the log names. *)
LEMMA ClosersWithin ==
  ASSUME NEW s \in Seq(Events), Good(s), Crash!OpenAt(s).turn # 0,
         NEW m \in Nat, NEW b \in Nat, Within(s, m, b)
  PROVE  \A k \in 1 .. Len(Crash!Closers(s)) :
           Crash!Closers(s)[k].call <= m /\ Crash!Closers(s)[k].turn <= b /\
             Crash!Closers(s)[k].calls = <<>>
<1>1. PICK r \in Opens : r = Crash!OpenAt(s)
  BY DEF Good
<1>2. PICK t \in Traces : t = Crash!TraceOf(s)
  BY DEF Good
<1>3. Agree(t, r) /\ TurnsCount(s, t) /\ Recorded(s, r)
  BY <1>1, <1>2 DEF Good
<1>4. r.turn \in Nat /\ r.turn # 0 /\ r.turn <= b
  BY <1>1, <1>3, AgreeIs, Pendings, LastTurnWithin DEF TurnsCount
<1>5. PICK w \in Nat : w = Len(r.pending)
  BY Pendings
<1>6. PICK o \in {0, 1} : o = IF r.step = 0 THEN 0 ELSE 1
  OBVIOUS
<1>7. PICK c \in Seq(Events) : c = Crash!Closers(s)
  BY ClosersInSeq
<1>8. /\ Len(c) = w + o + 1
      /\ \A k \in 1 .. w :
           c[k] = Crash!ResultEvent(r.turn, r.pending[k].step, r.pending[k].call,
                    IF r.pending[k].seq = 0 THEN "TOOL_NOT_STARTED" ELSE "TOOL_OUTCOME_UNKNOWN",
                    r.pending[k].seq)
      /\ r.step # 0 => c[w + 1] = Crash!E("step/end", r.turn, r.step)
      /\ c[w + o + 1] = Crash!E("turn/end", r.turn, 0)
  BY <1>1, <1>5, <1>6, <1>7, ClosersAre
<1>9. \A k \in 1 .. w : c[k].call <= m /\ c[k].turn <= b /\ c[k].calls = <<>>
  <2> TAKE k \in 1 .. w
  <2>1. k \in 1 .. Len(r.pending)
    BY <1>5
  <2>2. Asked(s, r.pending[k].call)
    BY <1>3, <2>1 DEF Recorded
  <2>3. r.pending[k].call <= m
    BY <2>2 DEF Asked, Within
  <2>4. PICK e : e = c[k]
    OBVIOUS
  <2>6. PICK x : x = IF r.pending[k].seq = 0 THEN "TOOL_NOT_STARTED" ELSE "TOOL_OUTCOME_UNKNOWN"
    OBVIOUS
  <2>7. PICK v, y, z : v = r.pending[k].step /\ y = r.pending[k].call /\ z = r.pending[k].seq
    OBVIOUS
  <2>8. e = Crash!ResultEvent(r.turn, v, y, x, z)
    BY <1>8, <2>4, <2>6, <2>7
  <2>5. e.call = r.pending[k].call /\ e.turn = r.turn /\ e.calls = <<>>
    BY <2>7, <2>8 DEF Crash!ResultEvent, Crash!E
  <2> QED BY <1>4, <2>3, <2>4, <2>5
<1>10. \A k \in Kinds : \A n \in Nat :
         Crash!E(k, r.turn, n).call <= m /\ Crash!E(k, r.turn, n).turn <= b /\
           Crash!E(k, r.turn, n).calls = <<>>
  BY <1>4 DEF Crash!E
<1>11. \A k \in w + 1 .. w + o + 1 : c[k].call <= m /\ c[k].turn <= b /\ c[k].calls = <<>>
  BY <1>6, <1>8, <1>10, Pendings DEF Kinds
<1>12. \A k \in 1 .. w + o + 1 : k \in 1 .. w \/ k \in w + 1 .. w + o + 1
  BY <1>6
<1> QED BY <1>7, <1>8, <1>9, <1>11, <1>12

LEMMA RepairWithin ==
  ASSUME NEW s \in Seq(Events), Wholly(s), NEW m \in Nat, NEW b \in Nat, Within(s, m, b),
         NEW n \in 0 .. Len(Crash!Closers(s))
  PROVE  Within(s \o SubSeq(Crash!Closers(s), 1, n), m, b)
<1>1. Good(s)
  BY WhollyIsGood
<1>2. PICK c \in Seq(Events) : c = Crash!Closers(s)
  BY <1>1, ClosersInSeq
<1>3. PICK l \in Nat : l = Len(s)
  BY LenProperties
<1>4. PICK h \in Nat : h = Len(c)
  BY LenProperties
<1>5. PICK d \in Seq(Events) : d = SubSeq(c, 1, n)
  BY <1>2, PrefixIs
<1>6. n \in 0 .. h /\ Len(d) = n /\ \A i \in 1 .. n : d[i] = c[i]
  BY <1>2, <1>4, <1>5, PrefixIs
<1>7. PICK p : p = s \o d
  OBVIOUS
<1>8. Len(p) = l + n /\ (\A i \in 1 .. l : p[i] = s[i]) /\ \A i \in 1 .. n : p[l + i] = d[i]
  <2>1. /\ p \in Seq(Events) /\ Len(p) = Len(s) + Len(d)
        /\ \A i \in 1 .. Len(s) + Len(d) : p[i] = IF i <= Len(s) THEN s[i] ELSE d[i - Len(s)]
    BY <1>7, ConcatProperties
  <2>2. \A i \in 1 .. l + n : p[i] = IF i <= l THEN s[i] ELSE d[i - l]
    BY <1>3, <1>6, <2>1
  <2>3. \A i \in 1 .. l : i \in 1 .. l + n /\ i <= l
    BY <1>6
  <2>4. \A i \in 1 .. n : l + i \in 1 .. l + n /\ ~(l + i <= l) /\ l + i - l = i
    BY <1>6
  <2>5. \A i \in 1 .. l : p[i] = s[i]
    BY <2>2, <2>3
  <2>6. \A i \in 1 .. n : p[l + i] = d[i]
    <3> TAKE i \in 1 .. n
    <3>1. p[l + i] = d[l + i - l]
      BY <2>2, <2>4
    <3> QED BY <2>4, <3>1
  <2>7. Len(p) = l + n
    BY <1>3, <1>6, <2>1
  <2> QED BY <2>5, <2>6, <2>7
<1>9. \A i \in 1 .. n : d[i].call <= m /\ d[i].turn <= b /\ d[i].calls = <<>>
  <2> TAKE i \in 1 .. n
  <2>1. i \in 1 .. h
    BY <1>6
  <2>2. c # <<>>
    BY <1>4, <2>1, EmptySeq
  <2>3. Crash!OpenAt(s).turn # 0
    BY <1>2, <2>2, ClosersOfClosed
  <2>4. c[i].call <= m /\ c[i].turn <= b /\ c[i].calls = <<>>
    BY <1>1, <1>2, <1>4, <2>1, <2>3, ClosersWithin
  <2> QED BY <1>6, <2>4
<1>10. \A i \in 1 .. l + n : i \in 1 .. l \/ \E k \in 1 .. n : i = l + k
  <2> TAKE i \in 1 .. l + n
  <2>1. ~(i <= l) => i - l \in 1 .. n /\ i = l + (i - l)
    BY <1>6
  <2> QED BY <2>1
<1>11. 1 .. Len(<<>>) = {}
  OBVIOUS
<1>12. ASSUME NEW i \in 1 .. Len(p)
       PROVE  p[i].call <= m /\ p[i].turn <= b /\ \A j \in 1 .. Len(p[i].calls) :
                p[i].calls[j] <= m
  <2>1. CASE i \in 1 .. l
    BY <1>3, <1>8, <2>1 DEF Within
  <2>2. CASE \E k \in 1 .. n : i = l + k
    BY <1>8, <1>9, <1>11, <2>2
  <2> QED BY <1>8, <1>10, <2>1, <2>2
<1> QED BY <1>2, <1>5, <1>7, <1>12 DEF Within

(* What a crash leaves. *)
LEMMA GoneKeeps ==
  ASSUME Crash!Bounded, CrashInv, Crash!Fixed, Crash!Gone, cLog' \in Seq(Events), Wholly(cLog'),
         Within(cLog', minted, cSetup.turns), durable <= Len(cLog'),
         \A n \in 1 .. durable : cLog'[n] = cLog[n]
  PROVE  CrashInv'
<1>1. /\ crashes' \in Nat /\ crashes' <= cSetup.crashes
      /\ cPc' = "cold" /\ cTurn' = 0 /\ cStep' = 0 /\ awaited' = 0 /\ cAborted' = FALSE
      /\ calls' = <<>> /\ phase' = <<>> /\ goal' = <<>> /\ durable' = Len(cLog')
      /\ minted' = minted /\ ran' = ran /\ faults' = faults /\ cSetup' = cSetup
  BY LogKnown DEF CrashInv, CrashTyped, Crash!TypeOK, Crash!Gone, Crash!ghosts, Crash!Fixed
<1>2. Len(cLog') \in Nat /\ durable \in Nat /\ cSetup.turns \in Nat /\ cSetup.steps \in Nat /\
        cSetup.crashes \in Nat
  BY LogKnown, LenProperties
<1>3. /\ \A i \in 1 .. Len(calls') : phase'[i] \in Crash!Phases /\ goal'[i] \in 0 .. Len(cLog')
      /\ Len(phase') = Len(calls') /\ Len(goal') = Len(calls')
      /\ calls' \in Seq(Nat \ {0}) /\ phase' \in Seq(Crash!Phases) /\ goal' \in Seq(Nat)
      /\ \A i \in 1 .. Len(calls') : calls'[i] <= minted'
  BY <1>1, NoCallsLeft
<1>4. /\ cSetup' \in CrashSetups /\ minted' \in 0 .. cSetup'.calls
      /\ ran' \subseteq 1 .. minted'
      /\ faults' \in 0 .. cSetup'.faults
  BY <1>1 DEF CrashInv, CrashTyped, Crash!TypeOK
<1>5. /\ crashes' \in 0 .. cSetup'.crashes /\ cTurn' \in 0 .. cSetup'.turns
      /\ cStep' \in 0 .. cSetup'.steps
      /\ awaited' \in 0 .. Len(cLog') /\ durable' \in 0 .. Len(cLog')
  BY <1>1, <1>2
<1>6. cPc' \in Crash!Places /\ cAborted' \in BOOLEAN
  BY <1>1 DEF Crash!Places
<1>7. CrashTyped'
  BY <1>3, <1>4, <1>5, <1>6 DEF CrashTyped, Crash!TypeOK, Crash!Index
<1>8. Standing' /\ Working'
  BY <1>1 DEF Standing, Working
<1>9. Made'
  BY <1>1, <1>3 DEF Made, Crash!Index
<1>10. Entered'
  BY <1>1, <1>2, EnteredStays DEF CrashInv
<1> QED BY <1>7, <1>8, <1>9, <1>10 DEF CrashInv

LEMMA CrashKeeps ==
  ASSUME Crash!Bounded, CrashInv, Crash!Fixed, Crash!Crash
  PROVE  CrashInv'
<1>1. /\ cLog \in Seq(Events) /\ Len(cLog) \in Nat /\ Wholly(cLog) /\ durable \in Nat
      /\ durable <= Len(cLog)
      /\ Within(cLog, minted, cSetup.turns)
  BY LogKnown DEF CrashInv, Made
<1>2. PICK n \in durable .. Len(cLog) : cLog' = SubSeq(cLog, 1, n)
  BY DEF Crash!Crash
<1>3. n \in 0 .. Len(cLog) /\ n \in Nat /\ durable <= n
  BY <1>1
<1>4. cLog' \in Seq(Events) /\ Len(cLog') = n /\ \A i \in 1 .. n : cLog'[i] = cLog[i]
  BY <1>1, <1>2, <1>3, PrefixIs
<1>5. Wholly(cLog')
  BY <1>1, <1>2, <1>3, WhollyShrinks
<1>6. Within(cLog', minted, cSetup.turns)
  BY <1>1, <1>3, <1>4 DEF Within
<1>7. \A i \in 1 .. durable : cLog'[i] = cLog[i]
  BY <1>1, <1>3, <1>4
<1>8. durable <= Len(cLog') /\ Crash!Gone
  BY <1>3, <1>4 DEF Crash!Crash
<1> QED BY <1>4, <1>5, <1>6, <1>7, <1>8, GoneKeeps

LEMMA CrashInRepairKeeps ==
  ASSUME Crash!Bounded, CrashInv, Crash!Fixed, Crash!CrashInRepair
  PROVE  CrashInv'
<1>1. /\ cLog \in Seq(Events) /\ Len(cLog) \in Nat /\ Wholly(cLog) /\ durable \in Nat
      /\ durable <= Len(cLog)
      /\ Within(cLog, minted, cSetup.turns) /\ minted \in Nat /\ cSetup.turns \in Nat
      /\ Good(cLog)
  BY LogKnown DEF CrashInv, Made
<1>2. PICK n \in 1 .. Len(Crash!Closers(cLog)) : cLog' = cLog \o SubSeq(Crash!Closers(cLog), 1, n)
  BY DEF Crash!CrashInRepair
<1>3. n \in 0 .. Len(Crash!Closers(cLog))
  BY <1>1, ClosersInSeq
<1>4. cLog' \in Seq(Events) /\ Wholly(cLog') /\ Longer(cLog, cLog')
  BY <1>1, <1>2, <1>3, RepairWrites
<1>5. Within(cLog', minted, cSetup.turns)
  BY <1>1, <1>2, <1>3, RepairWithin
<1>6. Len(cLog) <= Len(cLog') /\ Len(cLog') \in Nat /\ \A i \in 1 .. durable : cLog'[i] = cLog[i]
  BY <1>1, <1>4, LenProperties DEF Longer
<1>7. durable <= Len(cLog') /\ Crash!Gone
  BY <1>1, <1>6 DEF Crash!CrashInRepair
<1> QED BY <1>4, <1>5, <1>6, <1>7, GoneKeeps


(* What the process that comes after begins with. *)
LEMMA ResumedLog ==
  ASSUME NEW p \in Seq(Events), Wholly(p), Crash!OpenAt(p).turn = 0,
           Crash!TraceOf(p).openTurn = 0,
         NEW m \in Nat, NEW b \in Nat, Within(p, m, b)
  PROVE  /\ Crash!Marked(p) \in Seq(Events) /\ Wholly(Crash!Marked(p))
         /\ Longer(p, Crash!Marked(p)) /\ Within(Crash!Marked(p), m, b)
         /\ Crash!OpenAt(Crash!Marked(p)).turn = 0
         /\ Crash!TraceOf(Crash!Marked(p)).nextTurn = Crash!TraceOf(p).nextTurn
         /\ Crash!LastTurn(p) \in Nat /\ Crash!LastTurn(p) <= b
         /\ Crash!TraceOf(p).nextTurn = Crash!LastTurn(p) + 1
<1>1. Good(p)
  BY WhollyIsGood
<1>2. PICK r \in Opens : r = Crash!OpenAt(p)
  BY <1>1 DEF Good
<1>3. PICK t \in Traces : t = Crash!TraceOf(p)
  BY <1>1 DEF Good
<1>4. Crash!LastTurn(p) \in Nat /\ Crash!LastTurn(p) <= b /\ t.nextTurn = Crash!LastTurn(p) + 1
  BY <1>1, <1>3, LastTurnWithin DEF Traces, Good, TurnsCount
<1>5. CASE Crash!Marked(p) = p
  BY <1>3, <1>4, <1>5, LenProperties DEF Longer
<1>6. CASE Crash!Marked(p) # p
  <2>1. PICK e \in Events : e = Crash!E("session/end-seed", 0, 0)
    BY EventsAre DEF Kinds
  <2>2. Crash!Marked(p) = Append(p, e)
    BY <1>6, <2>1 DEF Crash!Marked
  <2>3. e.kind = "session/end-seed" /\ e.calls = <<>> /\ e.call = 0 /\ e.turn = 0
    BY <2>1 DEF Crash!E
  <2>4. 1 .. Len(<<>>) = {}
    OBVIOUS
  <2>5. Follows(p, e)
    BY <2>3, <2>4 DEF Follows, Allowed
  <2>6. /\ Append(p, e) \in Seq(Events) /\ Wholly(Append(p, e))
    BY <2>5, WhollyGrows
  <2>7. Longer(p, Append(p, e))
    BY LongerIs
  <2>8. Within(Append(p, e), m, b)
    BY <2>3, <2>4, WithinGrows
  <2>9. Crash!OpenAt(Append(p, e)).turn = 0
    BY <1>2, <2>3, OpenAtAppend, LenProperties, ScanOfRest
  <2>10. Crash!TraceOf(Append(p, e)).nextTurn = t.nextTurn
    BY <1>3, <2>3, TraceOfAppend, AdvanceIs
  <2> QED BY <1>3, <1>4, <2>2, <2>6, <2>7, <2>8, <2>9, <2>10
<1> QED BY <1>5, <1>6

LEMMA ResumeKeeps ==
  ASSUME Crash!Bounded, CrashInv, Crash!Fixed, Crash!Resume
  PROVE  CrashInv'
<1>1. /\ cLog \in Seq(Events) /\ Len(cLog) \in Nat /\ Wholly(cLog) /\ Good(cLog)
      /\ durable \in Nat /\ durable <= Len(cLog) /\ awaited \in Nat /\ awaited <= Len(cLog)
      /\ cStep \in Nat /\ cStep <= cSetup.steps /\ cSetup.steps \in Nat
      /\ Within(cLog, minted, cSetup.turns) /\ minted \in Nat /\ cSetup.turns \in Nat
  BY LogKnown DEF CrashInv, Made
<1>2. PICK p \in Seq(Events) : p = cLog \o Crash!Closers(cLog)
  BY <1>1, RepairIsDone
<1>3. Wholly(p) /\ Longer(cLog, p) /\ Crash!OpenAt(p).turn = 0 /\ Crash!TraceOf(p).openTurn = 0
  BY <1>1, <1>2, RepairIsDone
<1>4. Within(p, minted, cSetup.turns)
  BY <1>1, <1>2, ClosersInSeq, WholePrefix, RepairWithin
<1>5. /\ cPc = "cold" /\ cPc' = "idle" /\ cLog' = Crash!Marked(p) /\ durable' = Len(p)
      /\ cTurn' = Crash!LastTurn(p)
      /\ cStep' = cStep /\ awaited' = awaited /\ cAborted' = cAborted /\ UNCHANGED Crash!pool
      /\ minted' = minted /\ ran' = ran /\ faults' = faults /\ crashes' = crashes
      /\ cSetup' = cSetup
  BY <1>2 DEF Crash!Resume, Crash!ghosts, Crash!Fixed
<1>6. /\ cLog' \in Seq(Events) /\ Wholly(cLog') /\ Longer(p, cLog')
      /\ Within(cLog', minted, cSetup.turns)
      /\ Crash!OpenAt(cLog').turn = 0 /\ Crash!TraceOf(cLog').nextTurn = cTurn' + 1
      /\ cTurn' \in Nat /\ cTurn' <= cSetup.turns
  BY <1>1, <1>3, <1>4, <1>5, ResumedLog
<1>7. /\ Len(p) \in Nat /\ Len(cLog') \in Nat /\ Len(cLog) <= Len(p) /\ Len(p) <= Len(cLog')
      /\ \A n \in 1 .. Len(cLog) : cLog'[n] = cLog[n]
  BY <1>1, <1>3, <1>6, LenProperties DEF Longer
<1>8. /\ \A i \in 1 .. Len(calls') : phase'[i] \in Crash!Phases /\ goal'[i] \in 0 .. Len(cLog')
      /\ Len(phase') = Len(calls') /\ Len(goal') = Len(calls')
      /\ calls' \in Seq(Nat \ {0}) /\ phase' \in Seq(Crash!Phases) /\ goal' \in Seq(Nat)
      /\ \A i \in 1 .. Len(calls') : calls'[i] <= minted'
  BY <1>1, <1>5, <1>7, PoolStays
<1>9. CrashTyped'
  BY <1>1, <1>5, <1>6, <1>7, <1>8 DEF CrashInv, CrashTyped, Crash!TypeOK, Crash!Places,
     Crash!Index
<1>10. Standing'
  BY <1>5, <1>6 DEF Standing
<1>11. Working'
  BY <1>5 DEF Working
<1>12. Made'
  BY <1>5, <1>6, <1>8 DEF Made, Crash!Index
<1>13. Entered'
  BY <1>1, <1>5, <1>7, EnteredStays DEF CrashInv
<1> QED BY <1>6, <1>9, <1>10, <1>11, <1>12, <1>13 DEF CrashInv

--------------------------------------------------------------------------------
(* The invariant *)

LEMMA CrashBegins ==
  ASSUME Crash!Bounded, Crash!Init
  PROVE  CrashInv
<1>1. /\ cSetup \in CrashSetups /\ cLog = <<>> /\ durable = 0
      /\ cPc = "idle" /\ cTurn = 0 /\ cStep = 0 /\ awaited = 0 /\ cAborted = FALSE
      /\ calls = <<>> /\ phase = <<>> /\ goal = <<>>
      /\ minted = 0 /\ ran = {} /\ seen = <<>> /\ faults = 0 /\ crashes = 0
  BY DEF Crash!Init
<1>2. /\ cSetup.turns \in Nat /\ cSetup.steps \in Nat /\ cSetup.calls \in Nat
      /\ cSetup.faults \in Nat /\ cSetup.crashes \in Nat
  BY <1>1 DEF Crash!Bounded
<1>3. 1 .. Len(<<>>) = {} /\ Len(<<>>) = 0
  OBVIOUS
<1>4. \A S : <<>> \in Seq(S)
  BY EmptySeq
<1>5. CrashTyped
  <2>1. cPc \in Crash!Places
    BY <1>1 DEF Crash!Places
  <2>2. cLog \in Seq(Events) /\ calls \in Seq(Nat \ {0}) /\ phase \in Seq(Crash!Phases) /\
          goal \in Seq(Nat)
    BY <1>1, <1>4
  <2>3. /\ durable \in 0 .. Len(cLog) /\ cTurn \in 0 .. cSetup.turns
        /\ cStep \in 0 .. cSetup.steps
        /\ awaited \in 0 .. Len(cLog) /\ cAborted \in BOOLEAN
        /\ minted \in 0 .. cSetup.calls /\ faults \in 0 .. cSetup.faults
        /\ crashes \in 0 .. cSetup.crashes
    <3>1. \A n \in Nat : 0 \in 0 .. n
      OBVIOUS
    <3>2. Len(cLog) \in Nat /\ cAborted \in BOOLEAN
      BY <1>1, <1>3
    <3> QED BY <1>1, <1>2, <3>1, <3>2
  <2>4. /\ ran \subseteq 1 .. minted /\ Len(phase) = Len(calls) /\ Len(goal) = Len(calls)
        /\ \A i \in Crash!Index : phase[i] \in Crash!Phases /\ goal[i] \in 0 .. Len(cLog)
    BY <1>1, <1>3 DEF Crash!Index
  <2> QED BY <1>1, <2>1, <2>2, <2>3, <2>4 DEF CrashTyped, Crash!TypeOK
<1>6. Wholly(cLog)
  BY <1>1, WhollyBegins
<1>7. Standing
  BY <1>1, OpenAtNothing, TraceOfNothing DEF Crash!NothingOpen, Crash!FreshTrace, Standing
<1>8. Working
  BY <1>1 DEF Working
<1>9. Made
  BY <1>1, <1>3 DEF Made, Within, Crash!Index
<1>10. Entered
  BY <1>1 DEF Entered
<1> QED BY <1>5, <1>6, <1>7, <1>8, <1>9, <1>10 DEF CrashInv

LEMMA CrashStutters ==
  ASSUME CrashInv, UNCHANGED crashVars
  PROVE  CrashInv'
<1>1. /\ cSetup' = cSetup /\ cLog' = cLog /\ durable' = durable /\ cPc' = cPc
      /\ cTurn' = cTurn /\ cStep' = cStep
      /\ awaited' = awaited /\ cAborted' = cAborted /\ calls' = calls /\ phase' = phase
      /\ goal' = goal
      /\ minted' = minted /\ ran' = ran /\ seen' = seen /\ faults' = faults
      /\ crashes' = crashes
  BY DEF crashVars, Crash!driver, Crash!pool, Crash!ghosts
<1>2. CrashTyped'
  BY <1>1 DEF CrashInv, CrashTyped, Crash!TypeOK, Crash!Index
<1>3. Wholly(cLog') /\ Standing'
  BY <1>1 DEF CrashInv, Standing
<1>4. Working'
  BY <1>1 DEF CrashInv, Working, Crash!Index, Crash!Started
<1>5. Made' /\ Entered'
  BY <1>1 DEF CrashInv, Made, Entered, Crash!Index
<1> QED BY <1>2, <1>3, <1>4, <1>5 DEF CrashInv

LEMMA CrashStep ==
  ASSUME Crash!Bounded, CrashInv, [Crash!Next]_crashVars
  PROVE  CrashInv'
<1>1. CASE Crash!DriverStep
  BY <1>1, StartTurnKeeps, PreStepKeeps, DriverFlushFailsKeeps, SendRequestKeeps,
       GetAnswerKeeps,
     StepEndKeeps, TurnEndKeeps, ToolsEndKeeps DEF Crash!DriverStep
<1>2. CASE Crash!CallStep
  BY <1>2, StartCallKeeps, PreparedKeeps, CheckpointKeeps, CheckpointFailsKeeps, BodyEndsKeeps,
     CommitKeeps DEF Crash!CallStep
<1>3. CASE Crash!Fixed /\ (Crash!Cancel \/ Crash!Store \/ Crash!Crash \/ Crash!CrashInRepair \/ Crash!Resume)
  BY <1>3, CancelKeeps, StoreKeeps, CrashKeeps, CrashInRepairKeeps, ResumeKeeps
<1>4. CASE UNCHANGED crashVars
  BY <1>4, CrashStutters
<1> QED BY <1>1, <1>2, <1>3, <1>4 DEF Crash!Next

(* A call whose body was entered is not reported as not started. *)
LEMMA EffectsAre ==
  ASSUME Crash!Bounded, CrashInv
  PROVE  Crash!EffectsAreRecorded
<1> SUFFICES ASSUME NEW c \in ran, NEW s \in Crash!Surviving
             PROVE  /\ \E n \in 1 .. Len(s) : s[n].kind = "tool/call" /\ s[n].call = c
                    /\ LET closed == s \o Crash!Closers(s)
                       IN \A n \in Crash!ResultsOf(closed, c) :
                         closed[n].code # "TOOL_NOT_STARTED"
  BY DEF Crash!EffectsAreRecorded
<1>1. cLog \in Seq(Events) /\ Len(cLog) \in Nat /\ Wholly(cLog) /\ durable \in Nat /\
        durable <= Len(cLog)
  BY LogKnown
<1>2. PICK m \in durable .. Len(cLog) : s = SubSeq(cLog, 1, m)
  BY DEF Crash!Surviving
<1>3. m \in 0 .. Len(cLog) /\ m \in Nat /\ durable <= m
  BY <1>1
<1>4. s \in Seq(Events) /\ Len(s) = m /\ \A i \in 1 .. m : s[i] = cLog[i]
  BY <1>1, <1>2, <1>3, PrefixIs
<1>5. Wholly(s)
  BY <1>1, <1>2, <1>3, WhollyShrinks
<1>6. PICK n \in 1 .. durable : cLog[n].kind = "tool/call" /\ cLog[n].call = c
  BY DEF CrashInv, Entered
<1>7. n \in 1 .. Len(s) /\ s[n].kind = "tool/call" /\ s[n].call = c
  BY <1>1, <1>3, <1>4, <1>6
<1>8. PICK p \in Seq(Events) : p = s \o Crash!Closers(s)
  BY <1>4, <1>5, RepairIsDone
<1>9. Wholly(p) /\ Longer(s, p)
  BY <1>4, <1>5, <1>8, RepairIsDone
<1>10. Called(p, c)
  BY <1>3, <1>4, <1>7, <1>9, LenProperties DEF Longer, Called
<1>11. \A i \in 1 .. Len(p) :
         p[i].kind = "tool/result" /\ p[i].code = "TOOL_NOT_STARTED" => ~Called(p, p[i].call)
  BY <1>9, WhollyIsGood DEF Good, Recorded
<1>12. \A i \in Crash!ResultsOf(p, c) : p[i].code # "TOOL_NOT_STARTED"
  BY <1>10, <1>11 DEF Crash!ResultsOf
<1> QED BY <1>7, <1>8, <1>12

LEMMA CrashSafe ==
  ASSUME Crash!Bounded, CrashInv
  PROVE  Crash!RecoverySafe
<1>1. /\ cLog \in Seq(Events) /\ Len(cLog) \in Nat /\ Wholly(cLog) /\ Good(cLog)
      /\ Agree(Crash!TraceOf(cLog), Crash!OpenAt(cLog))
      /\ durable \in Nat /\ durable <= Len(cLog)
  BY LogKnown
<1>2. Crash!TypeOK
  BY DEF CrashInv, CrashTyped
<1>3. Crash!LogAccepted
  BY <1>1, AgreeIs DEF Crash!LogAccepted
<1>4. Crash!RepairCloses
  <2> SUFFICES ASSUME NEW s \in Crash!Surviving
               PROVE  LET closed == s \o Crash!Closers(s)
                          t == Crash!TraceOf(closed)
                      IN t.ok /\ t.openTurn = 0 /\ t.openStep = 0 /\ Crash!Answered(closed) /\
                        Crash!Closers(closed) = <<>>
    BY DEF Crash!RepairCloses
  <2>1. PICK m \in durable .. Len(cLog) : s = SubSeq(cLog, 1, m)
    BY DEF Crash!Surviving
  <2>2. m \in 0 .. Len(cLog)
    BY <1>1
  <2>3. s \in Seq(Events) /\ Wholly(s)
    BY <1>1, <2>1, <2>2, PrefixIs, WhollyShrinks
  <2> QED BY <2>3, RepairIsDone
<1>5. Crash!RequestsHold
  BY <1>1, AnsweredWhenNothingPends DEF Crash!RequestsHold, CrashInv, Standing, Crash!IsPrefix
<1>6. Crash!EffectsAreRecorded
  BY EffectsAre
<1> QED BY <1>2, <1>3, <1>4, <1>5, <1>6 DEF Crash!RecoverySafe

(* Wherever a process stops and however often: the log keeps its relations,   *)
(* any part of it that survives can be closed, what the model was asked is    *)
(* stored and a transcript a provider takes, and a tool that ran is never     *)
(* reported as not started: the run's TurnsHold, for any bounds.              *)
THEOREM TurnsAlwaysHold == MCSpec => []TurnsHold
<1>1. MCInit => CrashInv
  BY CrashBounds, CrashBegins DEF MCInit
<1>2. CrashInv /\ [MCNext]_<<part, agentVars, recoveryVars, crashVars>> => CrashInv'
  BY CrashBounds, CrashStep DEF MCNext
<1>3. CrashInv => TurnsHold
  BY CrashBounds, CrashSafe DEF TurnsHold
<1> QED
  BY <1>1, <1>2, <1>3, PTL DEF MCSpec
================================================================================
