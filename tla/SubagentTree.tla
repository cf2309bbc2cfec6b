------------------------------ MODULE SubagentTree ------------------------------
(***************************************************************************)
(* The continuation manager of background subagents.  A child lives as an  *)
(* Activation: it is materialized for a message, runs turns, waits for the *)
(* children it owns, settles, tells its parent and is released; a later    *)
(* message brings it back from its log.  Calls to one child take its lock, *)
(* teardowns stop top-down and release child-first, and three kinds of     *)
(* drain close admission while calls are in the middle of their awaits.    *)
(***************************************************************************)
EXTENDS Naturals, Sequences, FiniteSets

CONSTANTS Roots,       \* agents the host owns, which have no Activation
          Children,    \* the durable child sessions
          Parent,      \* the header's parentSession
          Ops,         \* the calls to start or follow up a child
          Setups       \* what a run begins with and what may disturb it

Nodes == Roots \cup Children

(* An agent and those it descends from: the least set with it and their parents. *)
Ancestors ==
  [a \in Nodes |->
     {b \in Nodes : \A T \in SUBSET Nodes :
                      a \in T /\ (\A c \in T \cap Children : Parent[c] \in T) => b \in T}]

Disturbances == {"interrupt",  \* somebody interrupts a child's turn
                 "fail",       \* a turn ends in an error
                 "abort",      \* callers abort, providers and backends reject
                 "drain",      \* the manager drains
                 "scope",      \* a root's descendants are drained
                 "select"}     \* a root drains some of its children

ASSUME SubagentTreeAssumption ==
  /\ IsFiniteSet(Nodes) /\ Roots # {} /\ Children # {} /\ Roots \cap Children = {}
  /\ Parent \in [Children -> Nodes] /\ \A c \in Children : c \notin Ancestors[Parent[c]]
  /\ \A s \in Setups :
       /\ s.started \subseteq s.children /\ s.children \subseteq Children
       /\ s.ops \subseteq Ops /\ s.live \in BOOLEAN /\ s.reports \in Nat /\ s.features \subseteq Disturbances
       /\ \A c \in s.started : Parent[c] \in Roots \cup s.started

VARIABLES
  setup,      \* the setup of this run
  ag,         \* every agent: its phase, latched wake, inbox, generation; whether the
              \* watcher of its Activation was poked; the messages it read
  stage,      \* an Activation: none, up, rollback, stop (its agent still to fall idle),
              \* quiet (it did, owned children may remain), handle
  owned,      \* ownedChildren
  above,      \* ancestry
  announced,
  waits,      \* the owned children a teardown waits for
  watch,      \* watchSettlement: off, race, poke
  op,         \* the calls under way
  durable,    \* children with a session in the store
  drain,      \* drain(): its phase, the calls and the Activations it waits for
  scope,      \* drainDescendants() of one root: the same, and closingScopes' members
  reports     \* reports sent, for the bound

actVars   == <<stage, owned, above, announced, waits, watch>>
drainVars == <<drain, scope>>
vars == <<setup, ag, actVars, op, durable, drainVars, reports>>

Started == setup.started      \* children already at work when the run begins
MaxReports == setup.reports   \* bound on the reports of children
Features == setup.features    \* which of the disturbances may happen

Resident(c) == stage[c] # "none"
Live(a) == ag[a].phase # "off"

Started0(a) ==
  [phase |-> IF a \in Roots \cup Started THEN "run" ELSE "off",
   latch |-> FALSE, stepQ |-> <<>>, turnQ |-> <<>>,
   gen |-> IF a \in Started THEN 1 ELSE 0, poked |-> FALSE, log |-> <<>>]

NoDrain == [phase |-> "no", ops |-> {}, roots |-> {}]

(* The roots are in a turn; a child at work has an owner, an id and a watcher. *)
Init ==
  /\ setup \in Setups
  /\ ag = [a \in Nodes |-> Started0(a)]
  /\ stage = [c \in Children |-> IF c \in Started THEN "up" ELSE "none"]
  /\ owned = [c \in Children |-> {d \in Started : Parent[d] = c}]
  /\ above = [c \in Children |-> IF c \in Started THEN Ancestors[c] ELSE {}]
  /\ announced = [c \in Children |-> c \in Started]
  /\ waits = [c \in Children |-> {}]
  /\ watch = [c \in Children |-> IF c \in Started THEN "race" ELSE "off"]
  /\ op \in [Ops -> [pc : {"new"}, child : {CHOOSE c \in Children : TRUE}, start : {FALSE},
                     gen : {0}, line : {{}}]]
  /\ durable = Started
  /\ drain = NoDrain
  /\ scope = [phase |-> "no", ops |-> {}, roots |-> {}, root |-> CHOOSE r \in Roots : TRUE,
              members |-> {}]
  /\ reports = 0

--------------------------------------------------------------------------------
(* An agent and its inbox *)

Task == [kind |-> "task", from |-> "caller", gen |-> 0, acc |-> TRUE]

Pending(r) == r.stepQ # <<>> \/ r.turnQ # <<>>

Waking(q) == \E i \in DOMAIN q : q[i].acc

(* An id the manager admitted is still in the inbox. *)
Accepted(r) == Waking(r.stepQ) \/ Waking(r.turnQ)

(* A boundary takes the batch q into the log; listeners drop its ids from accepted. *)
Takes(r, q) ==
  [r EXCEPT !.poked = @ \/ Waking(q), !.log = @ \o q]

(* A turn opens and claims the whole next-step queue and one next-turn message. *)
Opened(r) ==
  LET head == IF r.turnQ = <<>> THEN <<>> ELSE <<Head(r.turnQ)>>
  IN  [Takes(r, r.stepQ \o head) EXCEPT
         !.phase = "run", !.latch = FALSE, !.stepQ = <<>>,
         !.turnQ = SubSeq(r.turnQ, 2, Len(r.turnQ))]

(* The driver retires, replaying a latched wake. *)
Retired(r) ==
  IF r.latch /\ Pending(r) THEN Opened(r) ELSE [r EXCEPT !.phase = "idle", !.latch = FALSE]

(* Waking input cannot join an aborted activity: it waits for the next turn. *)
Sent(r, m, where, wakes) ==
  LET late == wakes /\ r.phase = "abort"
      put  == IF late \/ where = "turn" THEN [r EXCEPT !.turnQ = Append(@, m)]
                                        ELSE [r EXCEPT !.stepQ = Append(@, m)]
      told == [put EXCEPT !.poked = @ \/ m.acc]
  IN  IF wakes /\ r.phase = "idle" THEN Opened(told)
      ELSE [told EXCEPT !.latch = @ \/ late]

(* cancel without keepInbox *)
Cleared(r) ==
  [r EXCEPT !.phase = IF @ = "run" THEN "abort" ELSE @, !.latch = FALSE,
            !.poked = @ \/ Accepted(r), !.stepQ = <<>>, !.turnQ = <<>>]

--------------------------------------------------------------------------------
(* Helpers of the manager *)

(* liveLineage: the agent itself, then its ancestors while the registry resolves them. *)
Lineage(a) ==
  {b \in Ancestors[a] : \A d \in Ancestors[a] \ {a} : b \in Ancestors[d] => Live(d)}

(* closingTeardownFor *)
Closing(a) ==
  \/ drain.phase # "no"
  \/ scope.phase # "no" /\ (a \in scope.members \/ scope.root \in Lineage(a))

Admits(a) == ~Closing(a)

Up == {c \in Children : stage[c] = "up"}

(* Activations the disposal of S stops with it: the owned ones, all the way down. *)
Below(S) ==
  {c \in Up : \A T \in SUBSET Up :
     S \cap Up \subseteq T /\ (\A d \in T : owned[d] \cap Up \subseteq T) => c \in T}

(* dispose(): everything below is stopped in the same synchronous span. *)
Disposes(S) ==
  LET D == Below(S)
  IN  /\ ag' = [a \in Nodes |-> IF a \in D THEN Cleared(ag[a]) ELSE ag[a]]
      /\ stage' = [c \in Children |->
                     IF c \notin D THEN stage[c] ELSE IF ag[c].phase = "idle" THEN "quiet" ELSE "stop"]
      /\ waits' = [c \in Children |-> IF c \in D THEN owned[c] ELSE waits[c]]
      /\ watch' = [c \in Children |-> IF c \in D THEN "off" ELSE watch[c]]
      /\ UNCHANGED <<owned, above, announced>>

Settled(c) == ag[c].phase = "idle" /\ ~Accepted(ag[c]) /\ owned[c] = {}

(* The call holds the child's lock. *)
Holding == {"inspect", "create", "submit", "rolling", "undo", "gone"}
Held(c) == \E o \in Ops : op[o].child = c /\ op[o].pc \in Holding

(* A drain waits for these: materializations that registered and did not finish. *)
Materializing == {o \in Ops : op[o].pc \in {"create", "rolling"}}

(* The caller is still the exact live parent. *)
Authorized(o) ==
  LET p == Parent[op[o].child] IN Live(p) /\ ag[p].gen = op[o].gen

(* acquireOwnership does not throw, and the owners it leaves. *)
CanOwn(p) == p \in Children => stage[p] \in {"none", "up"}
Acquired(c) ==
  [a \in Children |-> IF a = Parent[c] /\ stage[a] = "up" THEN owned[a] \cup {c} ELSE owned[a]]

(* A start is a tool call: its signal is its caller's turn's. *)
Wanted(o) == op[o].start => ag[Parent[op[o].child]].phase = "run"

(* The turn of a waits for the tool calls in it. *)
InCall(a) ==
  \E o \in Ops : /\ op[o].start /\ Parent[op[o].child] = a
                 /\ op[o].pc \in {"prepare", "queued"} \cup Holding

To(o, pc) == op' = [op EXCEPT ![o].pc = pc]
Fails == "abort" \in Features

--------------------------------------------------------------------------------
(* Calls: startContinuable and followup *)

(* Nobody calls for an agent before the call that brings it up is answered. *)
Call(o, c, start) ==
  /\ o \in setup.ops /\ c \in setup.children
  /\ op[o].pc = "new" /\ Live(Parent[c]) /\ Admits(Parent[c])
  /\ Parent[c] \in Children => announced[Parent[c]]
  /\ start => ~Live(c) /\ ag[Parent[c]].phase = "run"
  /\ op' = [op EXCEPT ![o] = [pc |-> IF start THEN "prepare" ELSE "queued", child |-> c,
                              start |-> start, gen |-> ag[Parent[c]].gen, line |-> {}]]
  /\ UNCHANGED <<ag, actVars, durable, drainVars, reports>>

(* The provider's spec is ready, or the caller gave up. *)
Prepared(o) ==
  /\ op[o].pc = "prepare"
  /\ \/ Wanted(o) /\ Admits(Parent[op[o].child]) /\ To(o, "queued")
     \/ (~Wanted(o) \/ ~Admits(Parent[op[o].child]) \/ Fails) /\ To(o, "failed")
  /\ UNCHANGED <<ag, actVars, durable, drainVars, reports>>

(* submit(): the message enters the child's inbox under a registered id. *)
Accepts(o) ==
  LET c == op[o].child
  IN  /\ owned' = Acquired(c)
      /\ ag' = [ag EXCEPT ![c] = Sent(@, Task, "turn", TRUE)]
      /\ announced' = [announced EXCEPT ![c] = TRUE]
      /\ To(o, "ok")

MaySubmit(o) ==
  /\ Admits(Parent[op[o].child]) /\ stage[op[o].child] = "up"
  /\ Wanted(o) /\ Authorized(o) /\ CanOwn(Parent[op[o].child])

(* The call gets the lock and looks at the child. *)
Enter(o) ==
  LET c == op[o].child
      p == Parent[c]
      goes == IF op[o].start
              THEN IF Wanted(o) /\ Admits(p) /\ ~Live(c) THEN "inspect" ELSE "failed"
              ELSE CASE stage[c] = "none" -> "inspect"
                     [] stage[c] = "up"   -> IF MaySubmit(o) THEN "accept" ELSE "failed"
                     [] OTHER             -> "gone"
  IN  /\ op[o].pc = "queued" /\ ~Held(c)
      /\ \/ /\ goes = "accept" /\ Accepts(o)
            /\ UNCHANGED <<stage, above, waits, watch>>
         \/ /\ goes # "accept" /\ To(o, goes)
            /\ UNCHANGED <<ag, actVars>>
         \/ /\ Fails /\ goes # "gone" /\ To(o, "failed")
            /\ UNCHANGED <<ag, actVars>>
      /\ UNCHANGED <<durable, drainVars, reports>>

(* A followup waited for the release of an Activation going away, and tries again. *)
Gone(o) ==
  /\ op[o].pc = "gone" /\ ~Resident(op[o].child)
  /\ \/ Admits(Parent[op[o].child]) /\ To(o, "queued")
     \/ (~Admits(Parent[op[o].child]) \/ Fails) /\ To(o, "failed")
  /\ UNCHANGED <<ag, actVars, durable, drainVars, reports>>

(* The store answered; materialize() registers with the drains and begins. *)
Inspected(o) ==
  LET c  == op[o].child
      p  == Parent[c]
      ok == /\ Wanted(o) /\ Admits(p)
            /\ IF op[o].start THEN ~Live(c) /\ c \notin durable ELSE Authorized(o) /\ c \in durable
  IN  /\ op[o].pc = "inspect"
      /\ \/ ok /\ op' = [op EXCEPT ![o].pc = "create", ![o].line = Lineage(p)]
         \/ (~ok \/ Fails) /\ To(o, "failed")
      /\ UNCHANGED <<ag, actVars, durable, drainVars, reports>>

(* The child's agent exists: install the Activation, or begin to roll it back. *)
Installs(o) ==
  Wanted(o) /\ Admits(Parent[op[o].child]) /\ CanOwn(Parent[op[o].child])

Created(o) ==
  LET c == op[o].child
  IN  /\ op[o].pc = "create"
      /\ ag' = [ag EXCEPT ![c].phase = "idle", ![c].gen = @ + 1, ![c].poked = FALSE]
      /\ durable' = durable \cup {c}
      /\ above' = [above EXCEPT ![c] = {c} \cup op[o].line]
      /\ \/ /\ Installs(o)
            /\ stage' = [stage EXCEPT ![c] = "up"] /\ owned' = Acquired(c)
            /\ watch' = [watch EXCEPT ![c] = "race"] /\ To(o, "submit")
         \/ /\ ~Installs(o) \/ Fails
            /\ stage' = [stage EXCEPT ![c] = "rollback"]
            /\ To(o, "rolling") /\ UNCHANGED <<owned, watch>>
      /\ UNCHANGED <<announced, waits, drainVars, reports>>

CreateFails(o) ==
  /\ op[o].pc = "create" /\ (Fails \/ ~Wanted(o)) /\ To(o, "failed")
  /\ UNCHANGED <<ag, actVars, durable, drainVars, reports>>

(* releaseOwnership lets the owner look again. *)
Gives(agents, c) ==
  [a \in Nodes |-> IF a \in Children /\ c \in owned[a] THEN [agents[a] EXCEPT !.poked = TRUE]
                                                       ELSE agents[a]]

(* The entry and its ownership go, and with them the agent c of agents. *)
Removed(c, agents) ==
  /\ ag' = Gives([agents EXCEPT ![c].phase = "off", ![c].stepQ = <<>>, ![c].turnQ = <<>>,
                                ![c].latch = FALSE, ![c].poked = FALSE], c)
  /\ stage' = [stage EXCEPT ![c] = "none"]
  /\ owned' = [a \in Children |-> owned[a] \ {c}]
  /\ waits' = [a \in Children |-> waits[a] \ {c}]
  /\ above' = [above EXCEPT ![c] = {}]
  /\ announced' = [announced EXCEPT ![c] = FALSE]
  /\ UNCHANGED watch

(* rollbackUnpublished disposed the handle. *)
RolledBack(o) ==
  /\ op[o].pc = "rolling"
  /\ Removed(op[o].child, ag) /\ To(o, "failed")
  /\ UNCHANGED <<durable, drainVars, reports>>

(* submitMaterialized *)
Submit(o) ==
  LET c == op[o].child
  IN  /\ op[o].pc = "submit"
      /\ \/ MaySubmit(o) /\ Accepts(o) /\ UNCHANGED <<stage, above, waits, watch>>
         \/ (~MaySubmit(o) \/ Fails) /\ Disposes({c}) /\ To(o, "undo")
      /\ UNCHANGED <<durable, drainVars, reports>>

Undone(o) ==
  /\ op[o].pc = "undo" /\ ~Resident(op[o].child) /\ To(o, "failed")
  /\ UNCHANGED <<ag, actVars, durable, drainVars, reports>>

--------------------------------------------------------------------------------
(* Agents at work *)

(* An agent that fell idle lets a teardown go on. *)
Becomes(a, r) ==
  /\ ag' = [ag EXCEPT ![a] = r]
  /\ stage' = [c \in Children |->
                 IF c = a /\ stage[c] = "stop" /\ r.phase = "idle" THEN "quiet" ELSE stage[c]]
  /\ UNCHANGED <<owned, above, announced, waits, watch, op, durable, drainVars, reports>>

(* The next step of a turn takes what was steered or injected meanwhile. *)
NextStep(a) ==
  /\ ag[a].phase = "run" /\ ~InCall(a) /\ ag[a].stepQ # <<>>
  /\ Becomes(a, [Takes(ag[a], ag[a].stepQ) EXCEPT !.stepQ = <<>>])

TurnEnds(a) ==
  /\ ag[a].phase = "run" /\ ~InCall(a) /\ ag[a].stepQ = <<>>
  /\ Becomes(a, IF Pending(ag[a]) THEN Opened(ag[a]) ELSE [ag[a] EXCEPT !.phase = "idle"])

(* A model failure ends the driver and leaves the queue where it is. *)
TurnFails(a) ==
  /\ "fail" \in Features /\ ag[a].phase = "run" /\ ~InCall(a)
  /\ Becomes(a, Retired(ag[a]))

AbortSeen(a) == ag[a].phase = "abort" /\ ~InCall(a) /\ Becomes(a, Retired(ag[a]))

(* interrupt(): the turn is cancelled, the inbox kept. *)
Interrupt(c) ==
  /\ "interrupt" \in Features /\ stage[c] = "up" /\ ag[c].phase = "run"
  /\ Becomes(c, [ag[c] EXCEPT !.phase = "abort"])

(* sendWaking: accounted when the parent has an Activation. *)
HasActivation(a) == a \in Children /\ Resident(a)

ReportBug(c, quiet) ==         \* reports wait for the parent's next turn
  LET p == Parent[c]
      m == [kind |-> "report", from |-> c, gen |-> ag[c].gen, acc |-> ~quiet /\ HasActivation(p)]
  IN  /\ stage[c] = "up" /\ ag[c].phase = "run" /\ Admits(c) /\ Live(p)
      /\ reports < MaxReports /\ reports' = reports + 1
      /\ ag' = [ag EXCEPT ![p] = Sent(@, m, "turn", ~quiet)]
      /\ UNCHANGED <<actVars, op, durable, drainVars>>

(* reportFrom, from within a turn of the child *)
Report(c, quiet) ==
  LET p == Parent[c]
      m == [kind |-> "report", from |-> c, gen |-> ag[c].gen, acc |-> ~quiet /\ HasActivation(p)]
  IN  /\ stage[c] = "up" /\ ag[c].phase = "run" /\ Admits(c) /\ Live(p)
      /\ reports < MaxReports /\ reports' = reports + 1
      /\ ag' = [ag EXCEPT ![p] = Sent(@, m, "step", ~quiet)]
      /\ UNCHANGED <<actVars, op, durable, drainVars>>

--------------------------------------------------------------------------------
(* Settlement and release *)

(* watchSettlement decides inside the child's lock. *)
Look(c) ==
  /\ watch[c] = "race" /\ (ag[c].phase = "idle" \/ ag[c].poked) /\ ~Held(c)
  /\ \/ Settled(c) /\ Disposes({c})
     \/ /\ ~Settled(c)
        /\ IF ag[c].phase = "idle"
           THEN watch' = [watch EXCEPT ![c] = "poke"] /\ UNCHANGED ag
           ELSE ag' = [ag EXCEPT ![c].poked = FALSE] /\ UNCHANGED watch
        /\ UNCHANGED <<stage, owned, above, announced, waits>>
  /\ UNCHANGED <<op, durable, drainVars, reports>>

Poked(c) ==
  /\ watch[c] = "poke" /\ ag[c].poked
  /\ watch' = [watch EXCEPT ![c] = "race"] /\ ag' = [ag EXCEPT ![c].poked = FALSE]
  /\ UNCHANGED <<stage, owned, above, announced, waits, op, durable, drainVars, reports>>

(* The owned children are gone and the agent fell idle: flush, then dispose the handle. *)
Release(c) ==
  /\ stage[c] = "quiet" /\ waits[c] = {}
  /\ stage' = [stage EXCEPT ![c] = "handle"] /\ ag' = [ag EXCEPT ![c] = Cleared(@)]
  /\ UNCHANGED <<owned, above, announced, waits, watch, op, durable, drainVars, reports>>

NotifiedBug(c) ==              \* the notice always wakes
  LET p == Parent[c]
      m == [kind |-> "notice", from |-> c, gen |-> ag[c].gen, acc |-> HasActivation(p)]
  IN  IF ~announced[c] \/ ~Live(p) THEN ag
      ELSE [ag EXCEPT ![p] = Sent(@, m, IF @.phase = "idle" THEN "turn" ELSE "step", TRUE)]

(* notifySettlement: a parent whose lineage is closing is told without a wake. *)
Notified(c) ==
  LET p == Parent[c]
      m(acc) == [kind |-> "notice", from |-> c, gen |-> ag[c].gen, acc |-> acc]
  IN  IF ~announced[c] \/ ~Live(p) THEN ag
      ELSE IF Closing(p) THEN [ag EXCEPT ![p] = Sent(@, m(FALSE), "step", FALSE)]
      ELSE [ag EXCEPT ![p] = Sent(@, m(HasActivation(p)),
                                  IF @.phase = "idle" THEN "turn" ELSE "step", TRUE)]

Released(c) ==
  /\ stage[c] = "handle" /\ ag[c].phase = "idle"
  /\ Removed(c, Notified(c))
  /\ UNCHANGED <<op, durable, drainVars, reports>>

--------------------------------------------------------------------------------
(* Drains *)

Unowned(S) == {c \in S : \A d \in S : c \notin owned[d]}

Drain ==
  /\ "drain" \in Features /\ drain.phase = "no"
  /\ drain' = [drain EXCEPT !.phase = "wait", !.ops = Materializing]
  /\ UNCHANGED <<ag, actVars, op, durable, scope, reports>>

(* The materializations are through: dispose the roots of the forest. *)
DrainForest ==
  /\ drain.phase = "wait" /\ drain.ops \cap Materializing = {}
  /\ LET roots == Unowned({c \in Children : Resident(c)})
     IN  drain' = [drain EXCEPT !.phase = "roots", !.roots = roots] /\ Disposes(roots)
  /\ UNCHANGED <<op, durable, scope, reports>>

DrainDone ==
  /\ drain.phase = "roots" /\ \A c \in drain.roots : ~Resident(c)
  /\ drain' = [drain EXCEPT !.phase = "done"]
  /\ UNCHANGED <<ag, actVars, op, durable, scope, reports>>

(* drainDescendants: the cutoff, the members and every disposal in one span. *)
DrainScope(r) ==
  LET targets == {c \in Children : Resident(c) /\ r \in above[c]}
      started == {o \in Materializing : r \in op[o].line}
  IN  /\ "scope" \in Features /\ scope.phase = "no"
      /\ scope' = [phase |-> "wait", root |-> r, ops |-> started, roots |-> Unowned(targets),
                   members |-> {r} \cup (UNION {{c} \cup Lineage(c) : c \in targets})
                                   \cup (UNION {op[o].line : o \in started})]
      /\ Disposes(targets)
      /\ UNCHANGED <<op, durable, drain, reports>>

ScopeDone ==
  /\ scope.phase = "wait" /\ scope.ops \cap Materializing = {}
  /\ \A c \in scope.roots : ~Resident(c)
  /\ scope' = [scope EXCEPT !.phase = "done"]
  /\ UNCHANGED <<ag, actVars, op, durable, drain, reports>>

(* drainChildren: selected children only, admission stays open. *)
Select(r, S) ==
  /\ "select" \in Features /\ \E c \in S : stage[c] = "up"
  /\ \A c \in S : Resident(c) /\ Parent[c] = r
  /\ Disposes(S)
  /\ UNCHANGED <<op, durable, drainVars, reports>>

--------------------------------------------------------------------------------

CallSteps(o) ==
  \/ Prepared(o) \/ Enter(o) \/ Gone(o) \/ Inspected(o) \/ Created(o) \/ RolledBack(o)
  \/ Submit(o) \/ Undone(o)

AgentSteps(a) == NextStep(a) \/ TurnEnds(a) \/ AbortSeen(a)

Watches(c) == Look(c) \/ Poked(c) \/ Release(c) \/ Released(c)

(* Nothing is under way: every agent is at rest, the Activations left wait for a message. *)
Rest ==
  /\ \A o \in Ops : op[o].pc \in {"new", "ok", "failed"}
  /\ \A a \in Nodes : ag[a].phase \in {"off", "idle"}
  /\ \A c \in Children : stage[c] \in {"none", "up"}
  /\ drain.phase \in {"no", "done"} /\ scope.phase \in {"no", "done"}
  /\ UNCHANGED vars

DrainSteps == DrainForest \/ DrainDone \/ ScopeDone

Steps ==
  \/ \E o \in Ops : CallSteps(o) \/ CreateFails(o)
  \/ \E o \in Ops, c \in Children, start \in BOOLEAN : Call(o, c, start)
  \/ \E a \in Nodes : AgentSteps(a) \/ TurnFails(a)
  \/ \E c \in Children : Watches(c) \/ Interrupt(c)
  \/ \E c \in Children, quiet \in BOOLEAN : Report(c, quiet)
  \/ DrainSteps \/ Drain
  \/ \E r \in Roots : DrainScope(r) \/ \E S \in SUBSET Children : Select(r, S)
  \/ Rest

Next == UNCHANGED setup /\ Steps

Spec == Init /\ [][Next]_vars

(* Awaits of the manager end, turns end, and promises that resolved run their  *)
(* continuations; nobody is obliged to call, report, interrupt or drain.       *)
(* Liveness is asked of the setups that say so.                                *)
Obliged == setup.live /\ UNCHANGED setup

Fairness ==
  /\ WF_vars(Obliged /\ DrainSteps)
  /\ \A o \in Ops : WF_vars(Obliged /\ CallSteps(o))
  /\ \A a \in Nodes : WF_vars(Obliged /\ AgentSteps(a))
  /\ \A c \in Children : WF_vars(Obliged /\ Watches(c))

FairSpec == Spec /\ Fairness

--------------------------------------------------------------------------------
(* Properties *)

TypeOK ==
  /\ \A a \in Nodes :
       /\ ag[a].phase \in {"off", "idle", "run", "abort"}
       /\ {ag[a].latch, ag[a].poked} \subseteq BOOLEAN /\ ag[a].gen \in Nat
  /\ stage \in [Children -> {"none", "up", "rollback", "stop", "quiet", "handle"}]
  /\ owned \in [Children -> SUBSET Children] /\ above \in [Children -> SUBSET Nodes]
  /\ announced \in [Children -> BOOLEAN] /\ waits \in [Children -> SUBSET Children]
  /\ watch \in [Children -> {"off", "race", "poke"}]
  /\ \A o \in Ops : op[o].pc \in {"new", "prepare", "queued", "ok", "failed"} \cup Holding
  /\ durable \subseteq Children /\ reports \in 0 .. MaxReports
  /\ drain.phase \in {"no", "wait", "roots", "done"} /\ scope.phase \in {"no", "wait", "done"}
  /\ \A c \in Children : (stage[c] = "none" <=> ~Live(c)) /\ (watch[c] # "off" <=> stage[c] = "up")

(* A parent outlives its children: while a child somebody has an id for lives,  *)
(* its parent is live and, if it has an Activation, still counts the child.     *)
ChildFirst ==
  \A c \in Children : announced[c] =>
    /\ Live(Parent[c])
    /\ Parent[c] \in Children => c \in owned[Parent[c]]

(* Nothing pins an owner in waiting: what it owns is resident. *)
OwnsResidents == \A c \in Children : \A d \in owned[c] : Resident(d)

(* A call that failed leaves no Activation nobody has an id for. *)
NoOrphan ==
  \A c \in Children :
    Resident(c) /\ ~announced[c] =>
      \E o \in Ops : op[o].child = c /\ op[o].pc \in {"submit", "rolling", "undo"}

(* Once drain() resolved there is no Activation and no agent, then or ever after. *)
DrainComplete ==
  drain.phase = "done" => \A c \in Children : ~Resident(c) /\ ~Live(c)

(* The same for drainDescendants and the root it was asked for. *)
ScopeComplete ==
  scope.phase = "done" =>
    \A c \in Children : scope.root \in Ancestors[c] => ~Resident(c) /\ ~Live(c)

(* An agent whose teardown began opens no turn, unless a root may drain some of *)
(* its children only, which leaves admission open.                              *)
TurnlessTeardown ==
  "select" \notin Features => \A c \in Children : stage[c] \in {"stop", "quiet", "handle"} =>
    Len(ag'[c].log) = Len(ag[c].log) /\ (ag'[c].phase = "run" => ag[c].phase = "run")
NoTurnInTeardown == [][TurnlessTeardown]_vars

(* A parent reads the reports of an epoch before the notice that it settled, *)
(* unless a turn was interrupted.                                            *)
ReportsFirst ==
  "interrupt" \notin Features => \A a \in Nodes : \A i, j \in 1 .. Len(ag[a].log) :
    LET m == ag[a].log[i]
        n == ag[a].log[j]
    IN  i < j /\ m.kind = "notice" /\ n.kind = "report" /\ m.from = n.from => n.gen > m.gen

(* Every call ends. *)
CallsEnd ==
  \A o \in Ops : op[o].pc \in {"prepare", "queued"} ~> op[o].pc \in {"ok", "failed"}

(* Every accepted id leaves the inbox. *)
AcceptedLeave == \A c \in Children : Accepted(ag[c]) ~> ~Accepted(ag[c])

(* Left alone, the whole forest settles and every announced epoch is accounted for. *)
AllSettle == <>[](\A c \in Children : ~Resident(c))

DrainsEnd == /\ drain.phase = "wait" ~> drain.phase = "done"
             /\ scope.phase = "wait" ~> scope.phase = "done"

(* Whatever calls, drains, interrupts and failures meet: a parent outlives its  *)
(* children and counts them, a failed call leaves nothing, a resolved drain     *)
(* left nothing behind, and reports are read before the notice of their epoch.  *)
TreeHolds ==
  /\ TypeOK /\ ChildFirst /\ OwnsResidents /\ NoOrphan /\ DrainComplete /\ ScopeComplete
  /\ ReportsFirst
================================================================================
