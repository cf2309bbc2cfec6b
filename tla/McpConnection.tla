----------------------------- MODULE McpConnection -----------------------------
(***************************************************************************)
(* The supervisor of one MCP server connection (startConnection).  Client  *)
(* generations are numbered; one is connecting or connected at a time, a   *)
(* lost one is replaced after a delay, within a budget per outage.  Tool   *)
(* lists are synchronized one after the other on a promise chain.  The     *)
(* server may fail, close and announce changes at any time, and the plugin *)
(* may be disposed at any time.                                            *)
(***************************************************************************)
EXTENDS Naturals, Sequences, FiniteSets

CONSTANTS MaxAttempts,  \* policy.maxAttempts
          MaxStable,    \* bound on the connections that outlive the stability window
          MaxQueue      \* bound on the queued synchronizations

ASSUME SupervisorAssumption ==
  MaxAttempts \in Nat \ {0} /\ MaxStable \in Nat /\ MaxQueue \in Nat \ {0}

VARIABLES
  enabled,    \* policy.enabled
  strict,     \* config.failOnStartupError
  gens,       \* generations created so far; the last one's attempt is `settling`
  closed,     \* generations whose close signal has fired
  client,     \* the current generation, 0 for none
  pc,         \* where the last attempt stands
  connected,  \* connectedAt: unset, within the stability window, or past it
  failed,     \* failedAttempts
  timer,      \* reconnectTimer is armed
  syncs,      \* the jobs on syncChain, the first one running
  fetching,   \* the running job awaits the tool list
  published,  \* the generation whose tools are registered, 0 for none
  disposing,  \* where dispose() stands
  stopped,    \* observed: reconnection stopped because a close timed out
  outage,     \* observed: generations created since the last stable connection
  stables     \* connections that became stable, for the bound

policy == <<enabled, strict>>
link == <<client, connected, failed, timer>>
observed == <<stopped, outage, stables>>
vars == <<policy, gens, closed, link, pc, syncs, fetching, published, disposing, observed>>

Job(kind, g) == [kind |-> kind, gen |-> g]

Init ==
  /\ enabled \in BOOLEAN /\ strict \in BOOLEAN
  /\ gens = 1 /\ closed = {} /\ client = 1 /\ pc = "connect"
  /\ connected = "no" /\ failed = 0 /\ timer = FALSE
  /\ syncs = <<>> /\ fetching = FALSE /\ published = 0
  /\ disposing = "no"
  /\ stopped = FALSE /\ outage = 1 /\ stables = 0

--------------------------------------------------------------------------------
(* Plausible bugs: each is a mutated form of the definition it is named after *)

LostMeanwhileBug == FALSE                                   \* no recheck after the sync
FailsStartupBug(job) == strict /\ job.kind = "initial"      \* any attempt's

--------------------------------------------------------------------------------
(* Helpers *)

Current(g) == disposing = "no" /\ client = g

(* The attempt that created generation g no longer owns its close signal. *)
Settled(g) == g < gens \/ pc = "done"

(* The close barrier of a failed attempt. *)
CloseProven == gens \in closed

(* hasClosed() once the attempt has connected and synchronized. *)
LostMeanwhile == gens \in closed

(* The attempts already charged to this outage. *)
Spent == IF connected = "stable" THEN 0 ELSE failed

(* Only the activation attempt's own sync fails on a registration conflict. *)
FailsStartup(job) == strict /\ job.kind = "initial" /\ job.gen = 1

(* Every synchronization queued before the end of dispose() has run. *)
Drained == syncs = <<>>

(* A close() whose signal never comes is given up. *)
AfterTimeout == "done"

(* scheduleReconnect, with q the chain so far. *)
ScheduleReconnect(q) ==
  IF ~enabled
  THEN syncs' = q /\ UNCHANGED <<connected, failed, timer>>
  ELSE /\ connected' = "no"
       /\ failed' = Spent + 1
       /\ IF Spent + 1 > MaxAttempts
          THEN syncs' = Append(q, Job("giveUp", 0)) /\ UNCHANGED timer
          ELSE syncs' = q /\ timer' = TRUE

(* generationDown: one decision per generation. *)
GenerationDown(g) ==
  IF Current(g)
  THEN client' = 0 /\ ScheduleReconnect(syncs)
  ELSE UNCHANGED <<link, syncs>>

--------------------------------------------------------------------------------
(* The attempt: connectGeneration *)

Connects ==
  /\ pc = "connect"
  /\ IF gens \in closed
     THEN pc' = "done" /\ GenerationDown(gens)
     ELSE pc' = "sync" /\ syncs' = Append(syncs, Job("initial", gens)) /\ UNCHANGED link
  /\ UNCHANGED <<policy, gens, closed, fetching, published, disposing, observed>>

ConnectFails ==
  /\ pc = "connect"
  /\ pc' = "closing"
  /\ UNCHANGED <<policy, gens, closed, link, syncs, fetching, published, disposing, observed>>

(* The initial sync is done: the connection may have been lost meanwhile. *)
Synced ==
  /\ pc = "synced"
  /\ pc' = "done"
  /\ IF LostMeanwhile
     THEN GenerationDown(gens)
     ELSE /\ connected' = IF Current(gens) THEN "fresh" ELSE connected
          /\ UNCHANGED <<client, failed, timer, syncs>>
  /\ UNCHANGED <<policy, gens, closed, fetching, published, disposing, observed>>

(* A failed attempt has seen its transport close. *)
Quiesces ==
  /\ pc = "closing"
  /\ CloseProven
  /\ pc' = "done"
  /\ GenerationDown(gens)
  /\ UNCHANGED <<policy, gens, closed, fetching, published, disposing, observed>>

(* It has not within the grace period: a live supervisor stops for good. *)
CloseTimesOut ==
  /\ pc = "closing"
  /\ gens \notin closed
  /\ pc' = AfterTimeout
  /\ client' = IF Current(gens) THEN 0 ELSE client
  /\ stopped' = (stopped \/ Current(gens))
  /\ UNCHANGED <<policy, gens, closed, connected, failed, timer, syncs, fetching, published,
                 disposing, outage, stables>>

(* The reconnect timer fires. *)
Reconnect ==
  /\ timer
  /\ timer' = FALSE
  /\ gens' = gens + 1 /\ client' = gens + 1 /\ outage' = outage + 1
  /\ pc' = "connect"
  /\ UNCHANGED <<policy, closed, connected, failed, syncs, fetching, published, disposing,
                 stopped, stables>>

--------------------------------------------------------------------------------
(* The chain: enqueueSync and syncTools *)

(* The next job begins; one whose generation is no longer current does nothing. *)
BeginSync ==
  /\ syncs # <<>> /\ ~fetching
  /\ LET job == Head(syncs)
     IN \/ /\ job.kind = "giveUp"
           /\ published' = 0 /\ syncs' = Tail(syncs)
           /\ UNCHANGED <<fetching, pc>>
        \/ /\ job.kind # "giveUp" /\ Current(job.gen)
           /\ fetching' = TRUE
           /\ UNCHANGED <<syncs, published, pc>>
        \/ /\ job.kind # "giveUp" /\ ~Current(job.gen)
           /\ syncs' = Tail(syncs)
           /\ pc' = IF job.kind = "initial" THEN "synced" ELSE pc
           /\ UNCHANGED <<fetching, published>>
  /\ UNCHANGED <<policy, gens, closed, link, disposing, observed>>

(* The list has arrived: the tools are swapped, all of them or, when another *)
(* registration holds one of the names, none.                               *)
Swap(conflict) ==
  /\ fetching
  /\ LET job == Head(syncs)
     IN /\ job.gen \notin closed
        /\ published' = IF conflict THEN 0 ELSE job.gen
        /\ pc' = IF conflict /\ FailsStartup(job) THEN "closing"
                 ELSE IF job.kind = "initial" THEN "synced" ELSE pc
  /\ fetching' = FALSE /\ syncs' = Tail(syncs)
  /\ UNCHANGED <<policy, gens, closed, link, disposing, observed>>

(* The list could not be read: what was published stays. *)
FetchFails ==
  /\ fetching
  /\ pc' = IF Head(syncs).kind = "initial" THEN "closing" ELSE pc
  /\ fetching' = FALSE /\ syncs' = Tail(syncs)
  /\ UNCHANGED <<policy, gens, closed, link, published, disposing, observed>>

--------------------------------------------------------------------------------
(* The server *)

(* onclose: the transport's proof that the generation is gone. *)
Closes(g) ==
  /\ g \notin closed
  /\ closed' = closed \union {g}
  /\ IF Settled(g) THEN GenerationDown(g) ELSE UNCHANGED <<link, syncs>>
  /\ UNCHANGED <<policy, gens, pc, fetching, published, disposing, observed>>

(* A list change of the current generation queues another synchronization. *)
ListChanged ==
  /\ client # 0 /\ Current(client) /\ client \notin closed
  /\ Len(syncs) < MaxQueue
  /\ syncs' = Append(syncs, Job("change", client))
  /\ UNCHANGED <<policy, gens, closed, link, pc, fetching, published, disposing, observed>>

(* The connection outlives the stability window. *)
Stabilizes ==
  /\ connected = "fresh" /\ client # 0 /\ stables < MaxStable
  /\ connected' = "stable" /\ outage' = 0 /\ stables' = stables + 1
  /\ UNCHANGED <<policy, gens, closed, client, failed, timer, pc, syncs, fetching, published,
                 disposing, stopped>>

--------------------------------------------------------------------------------
(* dispose() *)

Dispose ==
  /\ disposing = "no"
  /\ disposing' = IF client = 0 THEN "settling" ELSE "closing"
  /\ timer' = FALSE /\ client' = 0
  /\ UNCHANGED <<policy, gens, closed, connected, failed, pc, syncs, fetching, published, observed>>

(* The generation it took has closed, or its grace period is over. *)
DisposeCloses ==
  /\ disposing = "closing"
  /\ disposing' = "settling"
  /\ UNCHANGED <<policy, gens, closed, link, pc, syncs, fetching, published, observed>>

DisposeSettles ==
  /\ disposing = "settling"
  /\ pc = "done"
  /\ disposing' = "draining"
  /\ UNCHANGED <<policy, gens, closed, link, pc, syncs, fetching, published, observed>>

DisposeDrains ==
  /\ disposing = "draining"
  /\ Drained
  /\ published' = 0
  /\ disposing' = "done"
  /\ UNCHANGED <<policy, gens, closed, link, pc, syncs, fetching, observed>>

--------------------------------------------------------------------------------
Attempt == Connects \/ ConnectFails \/ Synced \/ Quiesces \/ CloseTimesOut

Chain == BeginSync \/ FetchFails \/ \E conflict \in BOOLEAN : Swap(conflict)

Teardown == DisposeCloses \/ DisposeSettles \/ DisposeDrains

Next ==
  \/ Attempt \/ Reconnect \/ Chain \/ Teardown
  \/ \E g \in 1..gens : Closes(g)
  \/ ListChanged \/ Stabilizes \/ Dispose

Spec == Init /\ [][Next]_vars

(* Requests and closes settle or time out, and timers fire. *)
Fairness == WF_vars(Attempt) /\ WF_vars(Chain) /\ WF_vars(Reconnect) /\ WF_vars(Teardown)

FairSpec == Spec /\ Fairness

--------------------------------------------------------------------------------
(* Properties *)

GaveUp == failed > MaxAttempts

TypeOK ==
  /\ enabled \in BOOLEAN /\ strict \in BOOLEAN
  /\ gens \in Nat \ {0} /\ closed \subseteq 1..gens /\ client \in {0, gens}
  /\ pc \in {"connect", "sync", "synced", "closing", "done"}
  /\ connected \in {"no", "fresh", "stable"} /\ failed \in 0..(MaxAttempts + 1)
  /\ timer \in BOOLEAN /\ (timer => client = 0)
  /\ syncs \in Seq([kind : {"initial", "change", "giveUp"}, gen : 0..gens])
  /\ Cardinality({i \in DOMAIN syncs : syncs[i].kind = "initial"}) = (IF pc = "sync" THEN 1 ELSE 0)
  /\ fetching \in BOOLEAN /\ (fetching => syncs # <<>>)
  /\ published \in 0..gens
  /\ disposing \in {"no", "closing", "settling", "draining", "done"}
  /\ stopped \in BOOLEAN /\ outage \in Nat /\ stables \in 0..MaxStable

(* No server process is started before the last one is known to be gone. *)
NoOverlap == Cardinality(1..gens \ closed) <= 1

(* However close signals, errors and synchronizations interleave, a supervisor *)
(* that may reconnect never sits on a lost connection without acting on it.    *)
NotForgotten ==
  enabled /\ disposing = "no" =>
    \/ client # 0 /\ (client \notin closed \/ pc # "done")
    \/ timer \/ GaveUp \/ stopped

(* A server that keeps crashing, even one whose connects briefly succeed, is *)
(* started at most maxAttempts times more, until a connection proves stable.  *)
BudgetRespected == outage <= MaxAttempts + 1

(* After giving up, and after dispose(), no tool of the server is registered, *)
(* and nothing is left that could register one or start the server again.     *)
StoppedServesNothing ==
  /\ GaveUp /\ syncs = <<>> => published = 0
  /\ disposing = "done" => published = 0 /\ syncs = <<>> /\ ~timer /\ pc = "done"

(* A registration conflict fails the attempt only while the plugin activates: *)
(* a recovered connection that finds one of its names taken keeps running,     *)
(* with none of its tools registered.                                         *)
ConflictsContained ==
  [][published # 0 /\ published' = 0 /\ pc # "closing" /\ pc' = "closing" => gens = 1]_vars

(* An outage ends: the server is back, or the supervisor has stopped. *)
OutageEnds ==
  (timer \/ pc # "done") ~>
    (connected # "no" \/ GaveUp \/ stopped \/ disposing # "no" \/ ~enabled)

(* dispose() ends, even if the server never closes. *)
DisposeEnds == disposing # "no" ~> disposing = "done"

(* What any order of close signals, errors, lists and a disposal keeps. *)
SupervisorSafe ==
  /\ TypeOK /\ NoOverlap /\ NotForgotten /\ BudgetRespected /\ StoppedServesNothing
================================================================================
