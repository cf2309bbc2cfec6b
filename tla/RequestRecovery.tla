---------------------------- MODULE RequestRecovery ----------------------------
(***************************************************************************)
(* What happens to a model request that fails: the agent loop asks the     *)
(* recovery hooks in their order (the provider-routed retry policy, the    *)
(* overflow recovery of the compaction engine, any other), each of which   *)
(* may wait and may delegate, and tries the same step again when told to.  *)
(* Routes change policies between attempts, turns are cancelled, and the   *)
(* retry plugin is unloaded and loaded again, at any moment.               *)
(***************************************************************************)
EXTENDS Integers, Sequences, FiniteSets, SequencesExt

CONSTANTS Policies,      \* provider and complete policy key of a route
          NoPolicy,      \* a route that declares none
          Always,        \* the policies in always mode; the others are normal
          MaxRetries,    \* policy -> maxRetries
          MaxOverflow,   \* maxOverflowRetries of the compaction engine
          Setups,        \* the policies of the routes, and the hooks "retry", "compact"
                         \* and "other" in their order
          MaxSteps, MaxInstances,
          MaxAttempts    \* bounds, the last for each setup

Hooks == {"retry", "compact", "other"}

(* Assumed by the modules that instantiate this one. *)
RequestRecoveryAssumption ==
  /\ IsFiniteSet(Policies) /\ Always \subseteq Policies /\ NoPolicy \notin Policies
  /\ MaxRetries \in [Policies -> Nat]
  /\ MaxOverflow \in Nat /\ MaxAttempts \in [Setups -> Nat]
  /\ MaxSteps \in Nat \ {0} /\ MaxInstances \in Nat \ {0}
  /\ Setups # {} /\ Setups \subseteq [routes : SUBSET Policies, order : Seq(Hooks)]
  /\ \A s \in Setups : /\ \E i \in DOMAIN s.order : s.order[i] = "retry"
                       /\ \A i, j \in DOMAIN s.order : s.order[i] = s.order[j] => i = j

Instances == 1..MaxInstances

VARIABLES
  setup,     \* what the agent is composed of; it does not change
  step,      \* the (turn, step) at hand
  pc,        \* request, hook, backoff, compacting, other, unwind, decided, end
  attempts,  \* requests sent in this step
  failure,   \* code of the last failure, and whether its retry-after is over the cap
  policy,    \* of the route that served the last request
  chain,     \* hooks still to be asked
  hook,      \* the plugin instance whose callback the waterfall captured, 0: none
  active,    \* that instance tracks a recovery under way
  awaiting,  \* always mode waits for the hooks after it
  decision,  \* none, retry, error
  log,       \* llm/retry and llm/retry-started events
  aborted,   \* the turn's signal
  instance, lifetime, drained,  \* plugin instances: the newest, disposed, quiet
  overflow,  \* overflowRetries of the agent
  others     \* observed by the properties: retries in this step not in the log

plugin == <<instance, lifetime, drained>>
vars == <<step, pc, attempts, failure, policy, chain, hook, active, awaiting, decision,
          log, aborted, plugin, overflow, others, setup>>

Codes == {"transient", "overflow", "fatal"}

Init ==
  /\ step = 1 /\ pc = "request" /\ attempts = 0
  /\ failure = [code |-> "fatal", overcap |-> FALSE] /\ policy = NoPolicy
  /\ chain = <<>> /\ hook = 0 /\ active = FALSE /\ awaiting = FALSE /\ decision = "none"
  /\ log = <<>> /\ aborted = FALSE
  /\ instance = 1 /\ lifetime = {} /\ drained = {}
  /\ overflow = 0 /\ others = 0 /\ setup \in Setups

--------------------------------------------------------------------------------
(* An event of the retry policy's instance at work. *)
Event(kind, n) == [kind |-> kind, step |-> step, policy |-> policy, retry |-> n, by |-> hook]

(* Plausible bugs: each is a mutated form of the definition it is named after *)

ExhaustedBug(p, n) == p \notin Always /\ n > MaxRetries[p]   \* off by one
LeavesBug == active                            \* a settled recovery stays in the set

--------------------------------------------------------------------------------
Installed == instance \notin lifetime

(* An unloaded plugin has taken its hook with it. *)
Registered ==
  IF Installed THEN setup.order
  ELSE RemoveAt(setup.order, CHOOSE i \in DOMAIN setup.order : setup.order[i] = "retry")

(* The number of the last retry scheduled for this step under this policy. *)
Prior(p) ==
  LET mine == {i \in DOMAIN log : log[i].kind = "retry" /\ log[i].step = step /\ log[i].policy = p}
  IN IF mine = {} THEN 0 ELSE log[Max(mine)].retry

Exhausted(p, n) == p \notin Always /\ n >= MaxRetries[p]

(* AbortSignal.any of the turn and the plugin's lifetime. *)
Fused(n) == aborted \/ n \in lifetime

Goes(d) == pc' = "unwind" /\ decision' = d
Asks == pc' = "hook" /\ chain' = Tail(chain) /\ UNCHANGED decision

(* A retry is scheduled durably before its wait. *)
Events(n) == <<Event("retry", n)>>

Schedules ==
  IF Fused(hook)
    THEN Goes("none") /\ UNCHANGED log
    ELSE log' = log \o Events(Prior(policy) + 1) /\ pc' = "backoff" /\ UNCHANGED decision

--------------------------------------------------------------------------------
(* The agent loop *)

Fails(p, c, over) ==
  /\ pc = "request" /\ ~aborted /\ attempts < MaxAttempts[setup]
  /\ attempts' = attempts + 1 /\ policy' = p /\ failure' = [code |-> c, overcap |-> over]
  /\ pc' = "hook" /\ decision' = "none"
  /\ chain' = Registered
  /\ hook' = IF Installed THEN instance ELSE 0
  /\ UNCHANGED <<step, active, awaiting, log, aborted, plugin, overflow, others>>

(* What the waterfall knew is forgotten. *)
Forgets ==
  /\ hook' = 0 /\ chain' = <<>> /\ decision' = "none"
  /\ policy' = NoPolicy /\ failure' = [code |-> "fatal", overcap |-> FALSE]
  /\ UNCHANGED <<active, awaiting, log, plugin>>

(* The next step, of this turn or of a later one. *)
NextStep ==
  /\ IF step < MaxSteps THEN step' = step + 1 /\ pc' = "request" ELSE pc' = "end" /\ UNCHANGED step
  /\ attempts' = 0 /\ aborted' = FALSE /\ overflow' = 0 /\ others' = 0
  /\ Forgets

(* assistant/message; or the agent goes idle after an error or a cancellation. *)
Succeeds == pc = "request" /\ ~aborted /\ NextStep
Cancelled == pc = "request" /\ aborted /\ NextStep

Decides ==
  /\ pc = "decided"
  /\ IF decision = "retry" /\ ~aborted
       THEN pc' = "request" /\ Forgets /\ UNCHANGED <<step, attempts, aborted, overflow, others>>
       ELSE NextStep

--------------------------------------------------------------------------------
(* The retry policy's hook *)

Hooked(h) == pc = "hook" /\ chain # <<>> /\ Head(chain) = h

Delegates ==
  \/ policy = NoPolicy
  \/ /\ policy \notin Always
     /\ \/ failure.code # "transient" \/ Exhausted(policy, Prior(policy)) \/ failure.overcap

(* A callback captured before its plugin was unloaded fails closed. *)
StaleHook ==
  /\ Hooked("retry") /\ hook \in lifetime /\ Goes("none")
  /\ UNCHANGED <<step, attempts, failure, policy, chain, hook, active, awaiting, log, aborted,
                 plugin, overflow, others>>

(* recover: delegate, ask the hooks behind it first, or schedule. *)
RetryHook ==
  /\ Hooked("retry") /\ hook \notin lifetime /\ active' = TRUE
  /\ CASE Delegates -> Asks /\ UNCHANGED <<awaiting, log>>
       [] ~Delegates /\ policy \in Always ->
            IF aborted THEN Goes("none") /\ UNCHANGED <<chain, awaiting, log>>
            ELSE Asks /\ awaiting' = TRUE /\ UNCHANGED log
       [] OTHER -> Schedules /\ UNCHANGED <<chain, awaiting>>
  /\ UNCHANGED <<step, attempts, failure, policy, hook, aborted, plugin, overflow, others>>

(* The wait is over... *)
Wakes ==
  /\ pc = "backoff" /\ ~Fused(hook)
  /\ Goes("retry") /\ log' = Append(log, Event("started", Prior(policy)))
  /\ UNCHANGED <<step, attempts, failure, policy, chain, hook, active, awaiting, aborted, plugin,
                 overflow, others>>

(* ...or is cut short. *)
CutShort ==
  /\ pc = "backoff" /\ Fused(hook) /\ Goes("none")
  /\ UNCHANGED <<step, attempts, failure, policy, chain, hook, active, awaiting, log, aborted, plugin,
                 overflow, others>>

--------------------------------------------------------------------------------
(* Overflow recovery and any other hook *)

Spent == overflow >= MaxOverflow

CompactHook ==
  /\ Hooked("compact")
  /\ IF failure.code # "overflow" \/ aborted \/ Spent
       THEN Asks ELSE pc' = "compacting" /\ UNCHANGED <<chain, decision>>
  /\ UNCHANGED <<step, attempts, failure, policy, hook, active, awaiting, log, aborted, plugin,
                 overflow, others>>

(* Compaction ends, having rewritten the surface or not. *)
Compacted(progress) ==
  /\ pc = "compacting"
  /\ IF progress /\ ~aborted
       THEN /\ Goes("retry") /\ overflow' = overflow + 1 /\ others' = others + 1
            /\ UNCHANGED chain
       ELSE Asks /\ UNCHANGED <<overflow, others>>
  /\ UNCHANGED <<step, attempts, failure, policy, hook, active, awaiting, log, aborted, plugin>>

OtherHook(d) ==
  /\ Hooked("other") /\ Goes(d)
  /\ others' = IF d = "retry" THEN others + 1 ELSE others
  /\ UNCHANGED <<step, attempts, failure, policy, chain, hook, active, awaiting, log, aborted,
                 plugin, overflow>>

EndOfChain ==
  /\ pc = "hook" /\ chain = <<>> /\ Goes("none")
  /\ UNCHANGED <<step, attempts, failure, policy, chain, hook, active, awaiting, log, aborted,
                 plugin, overflow, others>>

(* The tracked recovery settles. *)
Leaves == FALSE

(* A decision travels back; always mode takes a retry of the hooks behind it *)
(* and falls back on its own otherwise, unless it was stopped meanwhile.     *)
Unwinds ==
  /\ pc = "unwind"
  /\ IF awaiting
       THEN /\ awaiting' = FALSE
            /\ CASE Fused(hook) -> Goes("none") /\ UNCHANGED <<log, others>>
                 [] ~Fused(hook) /\ decision = "retry" -> UNCHANGED <<pc, decision, log, others>>
                 [] OTHER -> Schedules /\ UNCHANGED others
            /\ UNCHANGED active
       ELSE /\ pc' = "decided" /\ active' = Leaves
            /\ UNCHANGED <<awaiting, decision, log, others>>
  /\ UNCHANGED <<step, attempts, failure, policy, chain, hook, aborted, plugin, overflow>>

--------------------------------------------------------------------------------
(* Cancellation and the plugin's life *)

Abort ==
  /\ ~aborted /\ pc # "end" /\ aborted' = TRUE
  /\ UNCHANGED <<step, pc, attempts, failure, policy, chain, hook, active, awaiting, decision, log,
                 plugin, overflow, others>>

Dispose ==
  /\ Installed /\ lifetime' = lifetime \cup {instance}
  /\ UNCHANGED <<step, pc, attempts, failure, policy, chain, hook, active, awaiting, decision, log,
                 aborted, instance, drained, overflow, others>>

Drained ==
  /\ ~Installed /\ instance \notin drained /\ ~active
  /\ drained' = drained \cup {instance}
  /\ UNCHANGED <<step, pc, attempts, failure, policy, chain, hook, active, awaiting, decision, log,
                 aborted, instance, lifetime, overflow, others>>

Reload ==
  /\ instance \in drained /\ instance < MaxInstances /\ instance' = instance + 1
  /\ UNCHANGED <<step, pc, attempts, failure, policy, chain, hook, active, awaiting, decision, log,
                 aborted, lifetime, drained, overflow, others>>

--------------------------------------------------------------------------------
Continues ==
  \/ Succeeds \/ Cancelled \/ Decides
  \/ \E p \in setup.routes \cup {NoPolicy}, c \in Codes, over \in BOOLEAN : Fails(p, c, over)
  \/ StaleHook \/ RetryHook \/ Wakes \/ CutShort
  \/ CompactHook \/ \E progress \in BOOLEAN : Compacted(progress)
  \/ \E d \in {"none", "retry", "error"} : OtherHook(d)
  \/ EndOfChain \/ Unwinds

Next == (Continues \/ Abort \/ Dispose \/ Drained \/ Reload) /\ UNCHANGED setup

Spec == Init /\ [][Next]_vars

(* Requests, timers and compactions settle; so does the drain of an unload. *)
Fairness == WF_vars(Continues /\ UNCHANGED setup) /\ WF_vars(Drained /\ UNCHANGED setup)

FairSpec == Spec /\ Fairness

--------------------------------------------------------------------------------
(* Properties *)

TypeOK ==
  /\ step \in 1..MaxSteps /\ attempts \in 0..MaxAttempts[setup] /\ overflow \in 0..MaxOverflow
  /\ pc \in {"request", "hook", "backoff", "compacting", "unwind", "decided", "end"}
  /\ policy \in setup.routes \cup {NoPolicy} /\ setup \in Setups /\ failure \in [code : Codes, overcap : BOOLEAN]
  /\ hook \in Instances \cup {0} /\ active \in BOOLEAN /\ awaiting \in BOOLEAN
  /\ (awaiting => active) /\ (active => pc \in {"hook", "backoff", "compacting", "unwind"})
  /\ decision \in {"none", "retry", "error"} /\ aborted \in BOOLEAN
  /\ drained \subseteq lifetime /\ lifetime \subseteq 1..instance /\ others \in Nat

Of(s, p, kind) == {i \in DOMAIN log : log[i].step = s /\ log[i].policy = p /\ log[i].kind = kind}

(* A step's retries under one policy are numbered 1, 2, ... and stay within its *)
(* budget, over any number of route changes and reloads of the plugin.          *)
BudgetRespected ==
  \A s \in 1..MaxSteps, p \in Policies :
    /\ {log[i].retry : i \in Of(s, p, "retry")} = 1..Cardinality(Of(s, p, "retry"))
    /\ p \notin Always => Cardinality(Of(s, p, "retry")) <= MaxRetries[p]

(* Every start names one scheduled retry before it, and none is started twice. *)
StartsPaired ==
  \A s \in 1..MaxSteps, p \in Policies : \A i \in Of(s, p, "started") :
    /\ \E j \in Of(s, p, "retry") : j < i /\ log[j].retry = log[i].retry
    /\ \A j \in Of(s, p, "started") : log[j].retry = log[i].retry => i = j

(* The step's requests are the first, one for each retry that was started and  *)
(* one for each the other hooks asked for.                                      *)
Started == Cardinality({i \in DOMAIN log : log[i].step = step /\ log[i].kind = "started"})

AttemptsAccounted ==
  pc \in {"hook", "backoff", "compacting"} => attempts = 1 + Started + others

(* Neither always mode nor hooks without a budget. *)
Budgeted ==
  setup.routes \cap Always = {} /\ \A i \in DOMAIN setup.order : setup.order[i] # "other"

(* Then the budgets add up: no step is tried more often than that. *)
AttemptsBounded ==
  Budgeted =>
    attempts <= 1 + MaxOverflow + MapThenSumSet(LAMBDA p : MaxRetries[p], setup.routes)

(* An unloaded instance writes nothing any more, and asks for nothing. *)
SilentAfterDispose ==
  [][log' # log => Last(log').by \notin lifetime]_log

(* A cancelled turn schedules and sends nothing more. *)
AbortWins == [][aborted /\ aborted' => log' = log /\ attempts' <= attempts]_vars

(* Unloading the plugin ends. *)
DisposeEnds == \A n \in Instances : n \in lifetime ~> n \in drained

(* Every step comes to an end where the attempts are budgeted. *)
StepEnds == \A s \in 1..MaxSteps : Budgeted /\ step = s ~> step # s \/ pc = "end"

(* A retry opens a turn of its own. *)
FreshTurn ==
  pc = "request" /\ attempts > 0 => log = <<>> \/ Last(log).kind # "started" \/ Last(log).step # step

(* What any mix of failing routes, hooks, cancellations and reloads keeps:   *)
(* budgets and the log of retries agree with the requests that were sent.    *)
RecoverySafe ==
  TypeOK /\ BudgetRespected /\ StartsPaired /\ AttemptsAccounted /\ AttemptsBounded

(* What no step does: a retry by an unloaded plugin or in a cancelled turn. *)
RecoverySteps == SilentAfterDispose /\ AbortWins
================================================================================
