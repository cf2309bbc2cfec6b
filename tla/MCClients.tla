------------------------------- MODULE MCClients -------------------------------
(***************************************************************************)
(* Three parts at the edges of the host, which share no state: the         *)
(* supervisor of an MCP server, the replay of pending approvals to a       *)
(* client that reconnects, and the factory of agents.  They are checked    *)
(* side by side: the initial state picks the part that runs, the others    *)
(* stand still.  The replay runs with three sets of what may happen to a   *)
(* connection, since each of its properties survives another set.          *)
(***************************************************************************)
EXTENDS McpConnection

CONSTANTS
  Approvals, MaxGen,                             \* the replay's bounds
  Attempts, Owners, OwnerOf, Kind, Loop, None    \* the factory's

(* The instance's attempts: one of each kind, the callers' on one fiber. *)
CONSTANTS create, resume, configured, o1
KindOf == [a \in {create, resume, configured} |->
             CASE a = create -> "create" [] a = resume -> "resume" [] OTHER -> "configured"]
FiberOf == [a \in {create, resume, configured} |-> IF a = configured THEN Loop ELSE o1]

VARIABLES
  part,
  fresh, pending, stream, mux, gen, state, linkState, heard, dots, buffer, instance, shown,
  factoryPc, prep, late, aborted, tracked, followed, disp, busy, agents, sessions, stored,
  owner, joins, factory, waits

Early == INSTANCE PromptReplay WITH link <- linkState, Features <- {"early"}
Opened == INSTANCE PromptReplay WITH link <- linkState, Features <- {"early", "cold"}
Ordered == INSTANCE PromptReplay WITH link <- linkState, Features <- {"failed", "cold"}
Agents == INSTANCE AgentFactory WITH pc <- factoryPc

ASSUME ReplayBounds ==
  /\ Early!PromptReplayAssumption /\ Opened!PromptReplayAssumption
  /\ Ordered!PromptReplayAssumption
ASSUME FactoryBounds == Agents!AgentFactoryAssumption

replayVars == <<fresh, pending, stream, mux, gen, state, linkState, heard, dots, buffer,
                instance, shown>>
factoryVars == <<factoryPc, prep, late, aborted, tracked, followed, disp, busy, agents, sessions,
                 stored, owner, joins, factory, waits>>

(* The initial state of a part that does not run is one of its initial states. *)
MCInit ==
  /\ part \in {"mcp", "early", "opened", "ordered", "factory"}
  /\ Init /\ Early!Init /\ Agents!Init
  /\ part # "mcp" => enabled /\ strict
  /\ part # "factory" => stored

MCNext ==
  \/ part = "mcp" /\ Next /\ UNCHANGED <<part, replayVars, factoryVars>>
  \/ part = "early" /\ Early!Next /\ UNCHANGED <<part, vars, factoryVars>>
  \/ part = "opened" /\ Opened!Next /\ UNCHANGED <<part, vars, factoryVars>>
  \/ part = "ordered" /\ Ordered!Next /\ UNCHANGED <<part, vars, factoryVars>>
  \/ part = "factory" /\ Agents!Next /\ UNCHANGED <<part, vars, replayVars>>

MCSpec == MCInit /\ [][MCNext]_<<part, vars, replayVars, factoryVars>>

--------------------------------------------------------------------------------
(* Properties *)

(* However often the connection was lost: the session list marks what the    *)
(* host waits for; an opened session shows no prompt settled meanwhile,      *)
(* unless its instance was there before it was opened or a handshake failed; *)
(* and it shows every prompt there is, unless frames overtook a handshake.   *)
ReplayHolds ==
  /\ part = "early" => Early!TypeOK /\ Early!StatusAgrees /\ Early!NoPhantomPrompt
  /\ part = "opened" => Opened!TypeOK /\ Opened!StatusAgrees
  /\ part = "ordered" => Ordered!TypeOK /\ Ordered!NoPromptLost

(* Agents and sessions are registered together, no agent loses its place or  *)
(* outlives its owner, and a rejected start or an unload leaves nothing.     *)
FactoryHolds == part = "factory" => Agents!FactorySafe

(* A recovered MCP connection with a taken name keeps running, and no agent  *)
(* is published on an aborted signal.                                        *)
ClientSteps == ConflictsContained /\ Agents!AbortedIsNotPublished

(* Timers fire, frames arrive, and what is aborted unwinds: outages and      *)
(* disposals end, pending prompts are shown, unloads and drains end.         *)
ClientsSettle ==
  /\ part = "mcp" /\ Fairness => OutageEnds /\ DisposeEnds
  /\ part = "ordered" /\ Ordered!Fairness => Ordered!PromptsArrive
  /\ part = "factory" /\ Agents!Fairness => Agents!UnloadsEnd /\ Agents!DrainEnds
================================================================================
