----------------------------- MODULE CodeDispatch -----------------------------
(***************************************************************************)
(* The dispatch bridge of run_code: a program submits tool calls, one lane *)
(* starts them and commits their outcomes in submission order, and only    *)
(* their bodies overlap.  The run may be aborted, and the program may end, *)
(* while calls are queued, running or being committed.                     *)
(***************************************************************************)
EXTENDS Naturals, Sequences, FiniteSets

CONSTANTS NCalls,       \* bound on the calls a program submits
          MaxParallel,  \* maxParallelSubCalls
          MaxReclass    \* bound on the registry changes during the run

(* Assumed by the modules that instantiate this one. *)
CodeDispatchAssumption ==
  NCalls \in Nat \ {0} /\ MaxParallel \in Nat \ {0} /\ MaxReclass \in Nat

Calls == 1..NCalls
Modes == {"parallel", "exclusive"}

VARIABLES
  registry,     \* executionMode of each call, as it is now
  reclasses,    \* registry changes made, for the bound
  submitted,    \* calls the program has submitted
  taken,        \* calls taken off pendingQueue
  started,      \* calls started, each with its start event
  startMode,    \* the mode a call started under
  commitQueue,  \* started calls whose commit has not begun
  settled,      \* calls whose outcome is parked
  running,      \* calls whose body runs
  inFlight,     \* the pool
  barrier,      \* exclusiveActive
  commits,      \* calls committed, in order
  logging,      \* logWork: settle events being written
  settleLog,    \* settle events in the session log
  answers,      \* what the program has of a call: none, value, discarded, rejected
  pc,           \* the lane: off, ready, prepare, commit, backlog, asleep
  aborted,      \* runController's signal
  run           \* program, draining, closed

env == <<registry, reclasses>>
queues == <<submitted, taken, started, startMode>>
pool == <<settled, running, inFlight>>
logs == <<logging, settleLog>>
vars == <<env, queues, commitQueue, pool, barrier, commits, logs, answers, pc, aborted, run>>

Init ==
  /\ registry \in [Calls -> Modes] /\ reclasses = 0
  /\ submitted = 0 /\ taken = 0 /\ started = 0 /\ startMode = registry
  /\ commitQueue = <<>> /\ settled = {} /\ running = {} /\ inFlight = {}
  /\ barrier = FALSE /\ commits = <<>> /\ logging = {} /\ settleLog = {}
  /\ answers = [c \in Calls |-> "none"]
  /\ pc = "off" /\ aborted = FALSE /\ run = "program"

--------------------------------------------------------------------------------
(* Plausible bugs: each is a mutated form of the definition it is named after *)

MayStartBug == TRUE                                       \* the abort is not looked at
WokenBug == pc                                            \* a flight ends unheard

--------------------------------------------------------------------------------
(* The lane runs without interruption from one await to the next. *)
Awaiting == pc # "ready"

(* wakeup() *)
Woken == IF pc = "asleep" THEN "ready" ELSE pc

(* The head of the commit queue has settled. *)
Due == commitQueue # <<>> /\ Head(commitQueue) \in settled

MayStart == ~aborted

HasRoom(mode) ==
  ~barrier /\ (IF mode = "exclusive" THEN inFlight = {}
                                     ELSE Cardinality(inFlight) < MaxParallel)

Opens(mode) == barrier \/ mode = "exclusive"

(* An exclusive call lifts its barrier when its commit is complete. *)
Lifts(c) == startMode[c] = "exclusive"

BacklogFits == Cardinality(logging) <= MaxParallel

--------------------------------------------------------------------------------
(* The passes of the lane *)

Commits ==
  /\ pc = "ready" /\ Due
  /\ commitQueue' = Tail(commitQueue) /\ pc' = "commit"
  /\ commits' = Append(commits, Head(commitQueue))
  /\ UNCHANGED <<env, queues, pool, barrier, logs, answers, aborted, run>>

Abandons ==
  /\ pc = "ready" /\ ~Due /\ taken < submitted /\ ~MayStart
  /\ taken' = taken + 1 /\ answers' = [answers EXCEPT ![taken + 1] = "rejected"]
  /\ UNCHANGED <<env, submitted, started, startMode, commitQueue, pool, barrier, commits, logs,
                 pc, aborted, run>>

Starts ==
  /\ pc = "ready" /\ ~Due /\ taken < submitted /\ MayStart
  /\ LET call == taken + 1
     IN /\ HasRoom(registry[call])
        /\ barrier' = Opens(registry[call])
        /\ startMode' = [startMode EXCEPT ![call] = registry[call]]
        /\ taken' = call /\ started' = started + 1
        /\ commitQueue' = Append(commitQueue, call)
  /\ pc' = "prepare"
  /\ UNCHANGED <<env, submitted, pool, commits, logs, answers, aborted, run>>

(* Nothing to do: the lane ends when all is quiet, or sleeps. *)
Rests ==
  /\ pc = "ready" /\ ~Due
  /\ taken < submitted => MayStart /\ ~HasRoom(registry[taken + 1])
  /\ pc' = IF taken = submitted /\ commitQueue = <<>> /\ inFlight = {} THEN "off" ELSE "asleep"
  /\ UNCHANGED <<env, queues, commitQueue, pool, barrier, commits, logs, answers, aborted, run>>

(* Its awaits: policy before a call, which may settle it at once... *)
PrepareEnds ==
  /\ pc = "prepare" /\ pc' = "ready"
  /\ inFlight' = inFlight \cup {started}
  /\ \/ running' = running \cup {started} /\ UNCHANGED settled
     \/ settled' = settled \cup {started} /\ UNCHANGED running
  /\ UNCHANGED <<env, queues, commitQueue, barrier, commits, logs, answers, aborted, run>>

Committing == commits[Len(commits)]

(* ...policy after it: the program gets its value unless the run is over... *)
CommitEnds ==
  /\ pc = "commit" /\ pc' = "backlog"
  /\ answers' = [answers EXCEPT ![Committing] = IF aborted THEN "discarded" ELSE "value"]
  /\ logging' = logging \cup {Committing}
  /\ UNCHANGED <<env, queues, commitQueue, pool, barrier, commits, settleLog, aborted, run>>

(* ...and room among the settle events still being written. *)
BacklogClears ==
  /\ pc = "backlog" /\ BacklogFits /\ pc' = "ready"
  /\ barrier' = (barrier /\ ~Lifts(Committing))
  /\ UNCHANGED <<env, queues, commitQueue, pool, commits, logs, answers, aborted, run>>

--------------------------------------------------------------------------------
(* What happens around it *)

(* The program calls a binding. *)
Submit ==
  /\ Awaiting /\ run = "program" /\ ~aborted /\ submitted < NCalls
  /\ submitted' = submitted + 1
  /\ pc' = IF pc = "off" THEN "ready" ELSE Woken
  /\ UNCHANGED <<env, taken, started, startMode, commitQueue, pool, barrier, commits, logs,
                 answers, aborted, run>>

BodySettles(c) ==
  /\ Awaiting /\ c \in running
  /\ running' = running \ {c} /\ settled' = settled \cup {c}
  /\ UNCHANGED <<env, queues, commitQueue, inFlight, barrier, commits, logs, answers, pc, aborted, run>>

FlightEnds(c) ==
  /\ Awaiting /\ c \in inFlight \ running
  /\ inFlight' = inFlight \ {c} /\ pc' = Woken
  /\ UNCHANGED <<env, queues, commitQueue, settled, running, barrier, commits, logs, answers,
                 aborted, run>>

LogEnds(c) ==
  /\ Awaiting /\ c \in logging
  /\ logging' = logging \ {c} /\ settleLog' = settleLog \cup {c}
  /\ UNCHANGED <<env, queues, commitQueue, pool, barrier, commits, answers, pc, aborted, run>>

(* The outer call is aborted. *)
Abort ==
  /\ Awaiting /\ run = "program" /\ ~aborted /\ aborted' = TRUE
  /\ UNCHANGED <<env, queues, commitQueue, pool, barrier, commits, logs, answers, pc, run>>

(* The program returns, throws or exceeds its budget, whatever it left behind. *)
RunEnds ==
  /\ Awaiting /\ run = "program" /\ run' = "draining" /\ aborted' = TRUE
  /\ UNCHANGED <<env, queues, commitQueue, pool, barrier, commits, logs, answers, pc>>

Drained == pc = "off" /\ logging = {}

Closes ==
  /\ run = "draining" /\ Drained /\ run' = "closed"
  /\ UNCHANGED <<env, queues, commitQueue, pool, barrier, commits, logs, answers, pc, aborted>>

(* A plugin changes how a tool is classified. *)
Reclassify(c) ==
  /\ Awaiting /\ run = "program" /\ reclasses < MaxReclass
  /\ registry' = [registry EXCEPT ![c] = CHOOSE m \in Modes : m # @]
  /\ reclasses' = reclasses + 1
  /\ UNCHANGED <<queues, commitQueue, pool, barrier, commits, logs, answers, pc, aborted, run>>

--------------------------------------------------------------------------------
Lane == Commits \/ Abandons \/ Starts \/ Rests \/ PrepareEnds \/ CommitEnds \/ BacklogClears

Next ==
  \/ Lane \/ Submit \/ Abort \/ RunEnds \/ Closes
  \/ \E c \in Calls : BodySettles(c) \/ FlightEnds(c) \/ LogEnds(c) \/ Reclassify(c)

Spec == Init /\ [][Next]_vars

(* Policies and event writes end; a body ends only once it is told to. *)
Fairness ==
  /\ WF_vars(Lane) /\ WF_vars(Closes)
  /\ \A c \in Calls :
       WF_vars(aborted /\ BodySettles(c)) /\ WF_vars(FlightEnds(c)) /\ WF_vars(LogEnds(c))

FairSpec == Spec /\ Fairness

--------------------------------------------------------------------------------
(* Properties *)

(* The calls between the start of their policy and the end of their commit. *)
Open ==
  {c \in 1..started : \A i \in 1..Len(commits) : commits[i] = c =>
                        i = Len(commits) /\ pc \in {"commit", "backlog"}}

TypeOK ==
  /\ registry \in [Calls -> Modes] /\ startMode \in [Calls -> Modes]
  /\ started <= taken /\ taken <= submitted /\ submitted <= NCalls
  /\ UNION {running, inFlight, settled, logging, settleLog} \subseteq 1..started
  /\ running \subseteq inFlight /\ running \cap settled = {}
  /\ answers \in [Calls -> {"none", "value", "discarded", "rejected"}]
  /\ commits \o commitQueue = [i \in 1..started |-> i]
  /\ \A i \in 1..Len(commits) : commits[i] \in settled

(* An exclusive call shares the pipeline with nobody, from before its policy to *)
(* the end of its commit, however the registry changes meanwhile.               *)
ExclusiveAlone == \A c \in Open : startMode[c] = "exclusive" => Open = {c}

(* No more bodies than the pool holds, and no more unwritten settle events than *)
(* the lane lets pile up.                                                        *)
ResourcesBounded ==
  Cardinality(inFlight) <= MaxParallel /\ Cardinality(logging) <= MaxParallel + 1

(* The lane sleeps only while a call is in flight that will wake it. *)
SleepsOnWork == pc = "asleep" => inFlight # {}

(* When run_code returns, every call the program made is answered, every call  *)
(* that started has both of its events in the log, and no other call has any.  *)
ClosedIsComplete ==
  run = "closed" =>
    /\ running = {} /\ inFlight = {} /\ commitQueue = <<>>
    /\ settleLog = 1..started
    /\ \A c \in 1..submitted : answers[c] # "none"
    /\ \A c \in 1..submitted : answers[c] = "rejected" <=> c > started

(* No call starts, and no value is handed out, once the run is aborted. *)
NothingAfterAbort ==
  [][aborted =>
       /\ started' = started
       /\ \A c \in Calls : answers'[c] = "value" => answers[c] = "value"]_vars

(* A run whose program is over returns, although bodies end only when told to. *)
RunCloses == run = "draining" ~> run = "closed"

(* A call whose body has ended is answered, unless a body before it never ends. *)
Answered ==
  \A c \in Calls : (c \in settled /\ running = {}) ~> (answers[c] # "none" \/ running # {})

(* What any order of submissions, settlements and an abort keeps. *)
DispatchSafe ==
  /\ TypeOK /\ ExclusiveAlone /\ ResourcesBounded /\ SleepsOnWork /\ ClosedIsComplete
================================================================================
