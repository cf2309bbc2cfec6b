-------------------------------- MODULE Schedule --------------------------------
(***************************************************************************)
(* The durable reminders of one root agent.  Reminders live in the session *)
(* log; the runtime derives a timer from it and, when something is due,    *)
(* claims the agent's idle phase, queues a follow-up and appends the       *)
(* dispatch.  The model's tools create and delete reminders; they and the  *)
(* runtime take turns on one chain of transactions.  Every transaction     *)
(* begins and ends at a durability barrier that may fail, the wall clock   *)
(* may be set back, and a crash keeps some prefix of the log.              *)
(***************************************************************************)
EXTENDS Integers, Sequences, FiniteSets, SequencesExt

CONSTANTS Horizon,     \* the last representable instant
          Delays,      \* delays of one-shots
          MaxDelay,    \* the longest timer
          Setups       \* the intervals of fixed rates and the bounds of a run

(* Assumed by the modules that instantiate this one. *)
ScheduleBounds ==
  /\ Horizon \in Nat /\ MaxDelay \in Nat \ {0} /\ Delays \subseteq Nat \ {0}
  /\ \A s \in Setups :
       /\ s.intervals \subseteq Nat \ {0} /\ s.ids \in Nat /\ s.time \in Nat /\ s.faults \in Nat
       /\ s.setBacks \in Nat /\ s.restarts \in Nat /\ s.turns \in Nat

VARIABLES
  setup,      \* the setup of this run
  now,        \* the wall clock
  log,        \* schedule changes and follow-ups of the session, in order
  stored,     \* length of the prefix a crash keeps
  host,       \* the agent is live, or down
  phase,      \* ReactLoopAgent.phase: idle, running or maintenance
  wake,       \* a wake latched behind the maintenance
  queue,      \* the transactions of the agent, the first one running
  drive,      \* where the runtime's run is
  tool,       \* the tool call under way: where it is and what it asks
  requested, timer, idleWait, stopping, faulted,  \* ScheduleRuntime
  missed,     \* the last drive ended at a failure that nothing retries
  faults, setBacks, restarts, turns  \* for the bounds

agent == <<host, phase, wake, turns>>
runtime == <<drive, requested, timer, idleWait, stopping, faulted, missed>>
clock == <<now, setBacks>>
store == <<log, stored>>
vars == <<setup, clock, store, agent, queue, tool, runtime, faults, restarts>>

None == -1
Intervals == setup.intervals
MaxIds == setup.ids            \* bound on the reminders created
MaxTime == setup.time          \* bound on the clock
MaxFaults == setup.faults      \* bound on what fails
MaxSetBacks == setup.setBacks  \* bound on how often the clock is set back
MaxRestarts == setup.restarts  \* bound on disposals, crashes and restarts
MaxTurns == setup.turns        \* bound on the turns and jobs of others
NoTool == [at |-> "none"]

(* A one-shot has interval 0; the first target of a rate is one interval away. *)
Asks == {[op |-> "create", delay |-> d, every |-> 0] : d \in Delays}
          \union {[op |-> "create", delay |-> e, every |-> e] : e \in Intervals}
          \union {[op |-> "delete", id |-> i] : i \in 1..MaxIds}

Init ==
  /\ setup \in Setups
  /\ now = 0 /\ log = <<>> /\ stored = 0
  /\ host = "live" /\ phase = "idle" /\ wake = FALSE
  /\ queue = <<"drive">> /\ drive = "queued" /\ tool = NoTool
  /\ requested = FALSE /\ timer = None /\ idleWait = FALSE
  /\ stopping = FALSE /\ faulted = FALSE /\ missed = FALSE
  /\ faults = 0 /\ setBacks = 0 /\ restarts = 0 /\ turns = 0

--------------------------------------------------------------------------------
(* Reminders as a fold of the log *)

(* resolveEveryOccurrence: the latest due occurrence, and the next target. *)
Latest(r, t) == IF r.every = 0 THEN r.at ELSE r.at + ((t - r.at) \div r.every) * r.every
NextAt(r, t) == Latest(r, t) + r.every

Seen(events) == {events[i].id : i \in {j \in DOMAIN events : events[j].op = "create"}}

Advanced(r, t) == IF r.every = 0 \/ NextAt(r, t) > Horizon THEN {} ELSE {[r EXCEPT !.at = NextAt(r, t)]}

Folds(active, e) ==
  LET others == {r \in active : r.id # e.id}
  IN CASE e.op = "create" -> active \union {[id |-> e.id, at |-> e.at, every |-> e.every]}
       [] e.op = "delete" -> others
       [] e.op = "dispatch" -> others \union UNION {Advanced(r, e.accepted) : r \in active \ others}
       [] OTHER -> active

ActiveIn(events) == FoldLeft(Folds, {}, events)
Active == ActiveIn(log)

Due(t) == {r \in Active : r.at <= t}

Earlier(r, s) == r.at < s.at \/ (r.at = s.at /\ r.id < s.id)

(* dueDecision: the earliest one-shot that is due, else every fixed rate due. *)
Decision(t) ==
  LET single == {r \in Due(t) : r.every = 0}
      first == {r \in single : \A s \in single \ {r} : Earlier(r, s)}
  IN IF single # {} THEN first ELSE Due(t)

(* The delay of the timer for the earliest target. *)
Delay(t) ==
  LET targets == {r.at : r \in Active}
  IN IF targets = {} THEN None
     ELSE LET wait == (CHOOSE a \in targets : \A b \in targets : a <= b) - t
          IN IF wait < MaxDelay THEN wait ELSE MaxDelay

(* The decision d in the order of its targets, which is how it is dispatched. *)
Orders(d) ==
  {q \in Bijection(1..Cardinality(d), d) : \A i, j \in 1..Cardinality(d) : i < j => Earlier(q[i], q[j])}

Dispatches(order, t) ==
  [i \in DOMAIN order |-> [op |-> "dispatch", accepted |-> t, id |-> order[i].id]]

Remind(d, t) == <<[op |-> "remind", id |-> None, sent |-> t, due |-> {<<r.id, Latest(r, t)>> : r \in d}]>>

--------------------------------------------------------------------------------
(* Plausible bugs: each is a mutated form of the definition it is named after *)

AppendedBug(d, order, t) == Dispatches(order, t) \o Remind(d, t)  \* dispatch first

--------------------------------------------------------------------------------
(* Helpers *)

(* What the job of a claimed phase goes by. *)
Decided(d, t) == Decision(t)

(* The follow-up is queued before the dispatch is appended. *)
Appended(d, order, t) == Remind(d, t) \o Dispatches(order, t)

(* whenIdle() or disposal, whichever comes first. *)
WaitOver == phase = "idle" \/ stopping

Deletable(id) == \E r \in Active : r.id = id

Runnable == ~stopping
Fault == faults < MaxFaults /\ faults' = faults + 1

Ignored == stopping \/ faulted

(* requestDrive, q being what is left of the queue.  A run not under way is *)
(* started, and its transaction queued, at once.                            *)
RequestDrive(q) ==
  /\ timer' = IF Ignored THEN timer ELSE None
  /\ IF Ignored \/ drive # "none"
     THEN requested' = (requested \/ ~Ignored) /\ queue' = q /\ UNCHANGED drive
     ELSE requested' = FALSE /\ queue' = Append(q, "drive") /\ drive' = "queued"

(* driveOnce returns, with or without a new trigger of its own; runRequested *)
(* looks once more before it ends.                                           *)
EndsDrive(again, isFaulted) ==
  LET more == (requested \/ again) /\ ~stopping /\ ~isFaulted
  IN /\ requested' = FALSE
     /\ queue' = Tail(queue) \o (IF more THEN <<"drive">> ELSE <<>>)
     /\ drive' = IF more THEN "queued" ELSE "retiring"

Stored == stored' = Len(log) /\ UNCHANGED log

(* At the end of its last microtask a run honours a trigger that came late. *)
Retires == requested /\ ~Ignored

--------------------------------------------------------------------------------
(* The runtime *)

InDrive(at) == host = "live" /\ queue # <<>> /\ Head(queue) = "drive" /\ drive = at

BeginDrive ==
  /\ InDrive("queued")
  /\ timer' = None /\ missed' = FALSE
  /\ IF Runnable THEN drive' = "preflight" /\ UNCHANGED <<requested, queue>> ELSE EndsDrive(FALSE, faulted)
  /\ UNCHANGED <<clock, store, agent, tool, idleWait, stopping, faulted, faults, restarts>>

PreflightFails ==
  /\ InDrive("preflight") /\ Fault
  /\ missed' = TRUE /\ EndsDrive(FALSE, faulted)
  /\ UNCHANGED <<clock, store, agent, tool, timer, idleWait, stopping, faulted, restarts>>

(* Nothing to do: disposed meanwhile, or nothing due and the timer is armed. *)
Waits ==
  /\ InDrive("preflight")
  /\ ~Runnable \/ Due(now) = {}
  /\ Stored
  /\ timer' = IF Runnable THEN Delay(now) ELSE timer
  /\ EndsDrive(FALSE, faulted)
  /\ UNCHANGED <<clock, agent, tool, idleWait, stopping, faulted, missed, faults, restarts>>

(* The idle phase is not free: the claim is refused, and idleness awaited. *)
Busy == InDrive("preflight") /\ Runnable /\ Due(now) # {} /\ phase # "idle"

FindsBusyBug ==   \* nothing is awaited
  /\ Busy /\ Stored /\ EndsDrive(FALSE, faulted)
  /\ UNCHANGED <<clock, agent, tool, timer, idleWait, stopping, faulted, missed, faults, restarts>>

FindsBusy ==
  /\ Busy /\ Stored
  /\ idleWait' = TRUE
  /\ EndsDrive(FALSE, faulted)
  /\ UNCHANGED <<clock, agent, tool, timer, stopping, faulted, missed, faults, restarts>>

(* The phase is claimed; the job samples the clock t anew and decides again. *)
Claims(t) ==
  /\ InDrive("preflight") /\ Runnable /\ Due(now) # {} /\ phase = "idle"
  /\ t = now \/ (t = now - 1 /\ t >= 0 /\ setBacks < MaxSetBacks)
  /\ now' = t /\ setBacks' = setBacks + (now - t)
  /\ phase' = "maintenance"
  /\ UNCHANGED <<host, turns, queue, tool, requested, idleWait, stopping, restarts>>

ClaimsInVain(t) ==
  /\ Claims(t) /\ Stored
  /\ \/ /\ Decided(Decision(now), t) = {}
        /\ timer' = Delay(t) /\ UNCHANGED <<missed, faults>>
     \/ Fault /\ missed' = TRUE /\ UNCHANGED timer
  /\ wake' = FALSE /\ drive' = "released" /\ UNCHANGED faulted

Dispatch(t) ==
  LET d == Decided(Decision(now), t)
  IN /\ Claims(t)
     /\ d # {}
     /\ \E order \in Orders(d) : log' = log \o Appended(d, order, t)
     /\ stored' = Len(log)
     /\ wake' = TRUE /\ drive' = "dispatched"
     /\ UNCHANGED <<timer, missed, faulted, faults>>

(* An append fails after the follow-up is queued: the runtime stops for good. *)
DispatchFails(t) ==
  LET d == Decided(Decision(now), t)
  IN /\ Claims(t)
     /\ d # {} /\ Fault
     /\ \E order \in Orders(d), n \in 1..Cardinality(d) :
          log' = log \o SubSeq(Appended(d, order, t), 1, n)
     /\ stored' = Len(log)
     /\ wake' = TRUE /\ drive' = "released"
     /\ faulted' = TRUE /\ timer' = None /\ UNCHANGED missed

(* The maintenance ends, and a latched wake starts a turn. *)
Releases ==
  /\ InDrive("released") \/ InDrive("dispatched")
  /\ phase = "maintenance"
  /\ phase' = (IF wake THEN "running" ELSE "idle") /\ wake' = FALSE
  /\ IF drive = "dispatched"
     THEN drive' = "barrier" /\ UNCHANGED <<requested, queue>>
     ELSE EndsDrive(FALSE, faulted)
  /\ UNCHANGED <<clock, store, host, turns, tool, timer, idleWait, stopping, faulted, missed, faults, restarts>>

Confirms ==
  /\ InDrive("barrier")
  /\ \/ Stored /\ timer' = (IF Ignored THEN timer ELSE None)
        /\ EndsDrive(Runnable, faulted) /\ UNCHANGED <<missed, faults>>
     \/ Fault /\ missed' = TRUE /\ EndsDrive(FALSE, faulted) /\ UNCHANGED <<store, timer>>
  /\ UNCHANGED <<clock, agent, tool, idleWait, stopping, faulted, restarts>>

Retire ==
  /\ host = "live" /\ drive = "retiring"
  /\ IF Retires
     THEN requested' = FALSE /\ queue' = Append(queue, "drive") /\ drive' = "queued" /\ timer' = None
     ELSE drive' = "none" /\ UNCHANGED <<requested, queue, timer>>
  /\ UNCHANGED <<clock, store, agent, tool, idleWait, stopping, faulted, missed, faults, restarts>>

Fires ==
  /\ host = "live" /\ timer = 0
  /\ RequestDrive(queue)
  /\ UNCHANGED <<clock, store, agent, tool, idleWait, stopping, faulted, missed, faults, restarts>>

IdleSeen ==
  /\ host = "live" /\ idleWait /\ WaitOver
  /\ idleWait' = FALSE /\ RequestDrive(queue)
  /\ UNCHANGED <<clock, store, agent, tool, stopping, faulted, missed, faults, restarts>>

Dispose ==
  /\ host = "live" /\ ~stopping /\ restarts < MaxRestarts
  /\ stopping' = TRUE /\ requested' = FALSE /\ timer' = None
  /\ UNCHANGED <<clock, store, agent, queue, tool, drive, idleWait, faulted, missed, faults, restarts>>

--------------------------------------------------------------------------------
(* The tools *)

Ask(what) ==
  /\ host = "live" /\ phase = "running" /\ tool = NoTool /\ ~stopping
  /\ tool' = [at |-> "preflight", ask |-> what] /\ queue' = Append(queue, "tool")
  /\ UNCHANGED <<clock, store, agent, runtime, faults, restarts>>

InTool(at) == host = "live" /\ queue # <<>> /\ Head(queue) = "tool" /\ tool.at = at

(* Cancelled before its turn, or a barrier failed: persistence_uncertain. *)
ToolEnds ==
  /\ InTool("preflight") \/ InTool("barrier")
  /\ Fault
  /\ tool' = NoTool /\ queue' = Tail(queue)
  /\ UNCHANGED <<clock, store, agent, runtime, restarts>>

(* Behind the preflight the runtime is asked to look, and the log may grow. *)
Preflighted(events) ==
  /\ InTool("preflight")
  /\ log' = log \o events /\ stored' = Len(log)
  /\ IF events = <<>>
     THEN tool' = NoTool /\ RequestDrive(Tail(queue))
     ELSE tool' = [tool EXCEPT !.at = "barrier"] /\ RequestDrive(queue)
  /\ UNCHANGED <<clock, agent, idleWait, stopping, faulted, missed, faults, restarts>>

Create ==
  LET id == Cardinality(Seen(log)) + 1  at == now + tool.ask.delay
  IN /\ InTool("preflight") /\ tool.ask.op = "create"
     /\ id <= MaxIds /\ at <= Horizon
     /\ Preflighted(<<[op |-> "create", id |-> id, at |-> at, every |-> tool.ask.every]>>)

Delete ==
  /\ InTool("preflight") /\ tool.ask.op = "delete" /\ Deletable(tool.ask.id)
  /\ Preflighted(<<[op |-> "delete", id |-> tool.ask.id]>>)

(* Not found, refused, or cancelled before the append. *)
NoChange == InTool("preflight") /\ Preflighted(<<>>)

ToolConfirms ==
  /\ InTool("barrier") /\ Stored
  /\ tool' = NoTool /\ RequestDrive(Tail(queue))
  /\ UNCHANGED <<clock, agent, idleWait, stopping, faulted, missed, faults, restarts>>

--------------------------------------------------------------------------------
(* The agent, the clock and the process *)

TurnBegins ==
  /\ host = "live" /\ phase = "idle" /\ turns < MaxTurns
  /\ phase' = "running" /\ turns' = turns + 1
  /\ UNCHANGED <<clock, store, host, wake, queue, tool, runtime, faults, restarts>>

(* Becoming idle asks the runtime to look, if there ever was a reminder. *)
TurnEnds ==
  /\ host = "live" /\ phase = "running" /\ tool = NoTool
  /\ phase' = "idle"
  /\ IF log = <<>> THEN UNCHANGED <<timer, requested, queue, drive>> ELSE RequestDrive(queue)
  /\ UNCHANGED <<clock, store, host, wake, turns, tool, idleWait, stopping, faulted, missed, faults, restarts>>

(* Another job holds the idle phase.  Its end shows in no change of status. *)
OthersBegin ==
  /\ host = "live" /\ phase = "idle" /\ turns < MaxTurns
  /\ phase' = "maintenance" /\ turns' = turns + 1
  /\ UNCHANGED <<clock, store, host, wake, queue, tool, runtime, faults, restarts>>

OthersEnd ==
  /\ host = "live" /\ phase = "maintenance" /\ drive \notin {"released", "dispatched"}
  /\ phase' = "idle"
  /\ UNCHANGED <<clock, store, host, wake, turns, queue, tool, runtime, faults, restarts>>

Tick ==
  /\ now < MaxTime /\ now' = now + 1
  /\ timer' = IF timer > 0 THEN timer - 1 ELSE timer
  /\ UNCHANGED <<setBacks, store, agent, queue, tool, drive, requested, idleWait, stopping, faulted, missed, faults, restarts>>

SetBack ==
  /\ now > 0 /\ setBacks < MaxSetBacks
  /\ now' = now - 1 /\ setBacks' = setBacks + 1
  /\ UNCHANGED <<store, agent, queue, tool, runtime, faults, restarts>>

(* The write-behind stores more of the log, a torn batch included. *)
Writes ==
  /\ host = "live"
  /\ \E n \in (stored + 1)..Len(log) : stored' = n
  /\ UNCHANGED <<clock, log, agent, queue, tool, runtime, faults, restarts>>

(* A crash, or the end of a disposal. *)
Leaves ==
  /\ host' = "down" /\ phase' = "idle" /\ wake' = FALSE
  /\ log' = SubSeq(log, 1, stored)
  /\ queue' = <<>> /\ drive' = "none" /\ tool' = NoTool
  /\ requested' = FALSE /\ timer' = None /\ idleWait' = FALSE
  /\ stopping' = FALSE /\ faulted' = FALSE /\ missed' = FALSE
  /\ UNCHANGED <<clock, stored, turns, faults, restarts>>

Crash == host = "live" /\ restarts < MaxRestarts /\ Leaves
Disposed == host = "live" /\ stopping /\ drive = "none" /\ ~idleWait /\ tool = NoTool /\ Leaves

Resumes ==
  /\ host = "down" /\ restarts < MaxRestarts
  /\ host' = "live" /\ restarts' = restarts + 1
  /\ queue' = <<"drive">> /\ drive' = "queued"
  /\ UNCHANGED <<clock, store, phase, wake, turns, tool, requested, timer, idleWait, stopping, faulted, missed, faults>>

--------------------------------------------------------------------------------
Drives ==
  \/ BeginDrive \/ PreflightFails \/ Waits \/ FindsBusy
  \/ (\E t \in 0..MaxTime : ClaimsInVain(t) \/ Dispatch(t) \/ DispatchFails(t))
  \/ Releases \/ Confirms \/ Retire

Tools == ToolEnds \/ Create \/ Delete \/ NoChange \/ ToolConfirms

Steps ==
  \/ Drives \/ Fires \/ IdleSeen \/ Dispose \/ (\E what \in Asks : Ask(what)) \/ Tools
  \/ TurnBegins \/ TurnEnds \/ OthersBegin \/ OthersEnd \/ Tick \/ SetBack \/ Writes \/ Crash \/ Disposed \/ Resumes

Next == UNCHANGED setup /\ Steps

Spec == Init /\ [][Next]_vars

(* Promises settle, timers fire and time passes; turns need not end. *)
Fairness ==
  /\ WF_vars(UNCHANGED setup /\ Drives) /\ WF_vars(UNCHANGED setup /\ Tools)
  /\ WF_vars(UNCHANGED setup /\ Fires) /\ WF_vars(UNCHANGED setup /\ IdleSeen)
  /\ WF_vars(UNCHANGED setup /\ Tick) /\ WF_vars(UNCHANGED setup /\ Disposed)

FairSpec == Spec /\ Fairness

--------------------------------------------------------------------------------
(* Properties *)

TypeOK ==
  /\ now \in 0..MaxTime /\ stored \in 0..Len(log)
  /\ \A i \in DOMAIN log : log[i].op \in {"create", "delete", "dispatch", "remind"}
  /\ host \in {"live", "down"} /\ phase \in {"idle", "running", "maintenance"}
  /\ wake \in BOOLEAN /\ (wake => phase = "maintenance")
  /\ drive \in {"none", "queued", "preflight", "released", "dispatched", "barrier", "retiring"}
  /\ (drive \in {"released", "dispatched"} => phase = "maintenance")
  /\ tool.at \in {"none", "preflight", "barrier"}
  (* Each party has at most one transaction, queued while it is under way. *)
  /\ queue \in {<<>>, <<"drive">>, <<"tool">>, <<"drive", "tool">>, <<"tool", "drive">>}
  /\ (\E i \in DOMAIN queue : queue[i] = "drive") <=> drive \notin {"none", "retiring"}
  /\ (\E i \in DOMAIN queue : queue[i] = "tool") <=> tool # NoTool
  /\ requested \in BOOLEAN /\ timer \in {None} \union 0..MaxDelay /\ idleWait \in BOOLEAN
  /\ stopping \in BOOLEAN /\ faulted \in BOOLEAN /\ missed \in BOOLEAN
  /\ faults \in 0..MaxFaults /\ setBacks \in 0..MaxSetBacks
  /\ restarts \in 0..MaxRestarts /\ turns \in 0..MaxTurns

Prefix(n) == SubSeq(log, 1, n)

(* The fold accepts every change at its place: no id is used twice, and what  *)
(* is deleted or dispatched is active there and, when dispatched, due.        *)
LogFolds ==
  \A i \in DOMAIN log :
    CASE log[i].op = "create" -> log[i].id \notin Seen(Prefix(i - 1))
      [] log[i].op = "delete" -> \E r \in ActiveIn(Prefix(i - 1)) : r.id = log[i].id
      [] log[i].op = "dispatch" ->
           \E r \in ActiveIn(Prefix(i - 1)) : r.id = log[i].id /\ r.at <= log[i].accepted
      [] OTHER -> TRUE

(* A crash never loses a reminder: a dispatch stands behind its follow-up in  *)
(* the log, so no prefix that a crash may keep has the first without the      *)
(* second.                                                                    *)
DispatchBacked ==
  \A i \in DOMAIN log : log[i].op = "dispatch" =>
    \A r \in ActiveIn(Prefix(i - 1)) : r.id = log[i].id =>
      \E j \in 1..(i - 1) :
        log[j].op = "remind" /\ <<r.id, Latest(r, log[i].accepted)>> \in log[j].due

(* An occurrence is repeated by a restart only, at most once for each.        *)
RepeatsBounded ==
  \A i \in DOMAIN log : log[i].op = "remind" =>
    \A o \in log[i].due :
      Cardinality({j \in DOMAIN log : log[j].op = "remind" /\ o \in log[j].due}) <= 1 + restarts

(* No reminder is sent before its time, wherever the clock was set.           *)
NeverEarly ==
  \A i \in DOMAIN log : log[i].op = "remind" => \A o \in log[i].due : o[2] <= log[i].sent

(* A fixed rate keeps to the grid of its creation and is past what it sent.   *)
RateKept ==
  \A r \in Active : r.every > 0 =>
    /\ \A i \in DOMAIN log : log[i].op = "create" /\ log[i].id = r.id =>
         \E k \in 0..Horizon : r.at = log[i].at + k * r.every
    /\ \A i \in DOMAIN log : log[i].op = "dispatch" /\ log[i].id = r.id => log[i].accepted < r.at

(* While a reminder is active, something will make the runtime look at it     *)
(* again, unless the last look ended at a failure.                            *)
SomeoneWatches ==
  host = "live" /\ ~stopping /\ ~faulted /\ ~missed /\ Active # {} =>
    drive # "none" \/ timer # None \/ idleWait

(* What is due is dispatched or deleted if the agent comes to rest again and  *)
(* again, or the runtime fails or ends first.                                 *)
Overdue(id) == \E r \in Active : r.id = id /\ r.at <= now
Gives == missed \/ faulted \/ stopping \/ host = "down"
OverdueIsServed ==
  []<>(phase = "idle") =>
    \A id \in UNION {1..s.ids : s \in Setups} : (Overdue(id) /\ ~Gives) ~> (~Overdue(id) \/ Gives)

(* Disposal ends although the agent may never come to rest.                   *)
DisposeEnds == stopping ~> ~stopping \/ tool # NoTool

(* What any order of timers, tools, turns, clock changes, failures and       *)
(* restarts keeps.                                                           *)
ScheduleSafe ==
  /\ TypeOK /\ LogFolds /\ DispatchBacked /\ RepeatsBounded /\ NeverEarly /\ RateKept
  /\ SomeoneWatches
================================================================================
