# TLA+ models of DSH Desktop and its agent harness

DSH Desktop is an Electron shell (`src/dsh-z-gui`) around the `dsh` agent
harness (`src/deepseek-harness`, a TypeScript monorepo of plugins) with a few
plugins of its own (`src/plugins`, `src/dsh-memory-plugin`).  Nearly all of the
program's own logic is asynchronous JavaScript: single-threaded, but with every
`await`, timer and event callback a point where another party may act.  What it
promises has to survive that, failing files and models, and processes that die.
These modules model that logic, TLC checks them on small instances, and TLAPS
proves most of what TLC checks for all instances.

`tlc -config X.cfg MCmodule.tla` repeats a run and `tlapm MProofs.tla` the
proofs of a module.  `PROJECT.json` maps every definition to the lines it
models and lists components, runs, mutants, hazards, findings and theorems.

Contents: 1 Inventory, 2 Modules, 3 Runs, 4 Proofs, 5 Findings, 6 Plan.

## 1. Inventory

Paths without a prefix are under `src/deepseek-harness/packages/`.
"Partly" says that some operation that changes state has no action; the note in
`PROJECT.json` names it.

### Modelled or partly modelled

| Component | State | Operations | What makes it hard | What makes it correct |
|---|---|---|---|---|
| Session write-behind (`session/session-persistence/src/write-behind.ts`) | queue, batching timer, active write, barrier, two flags | enqueue, flush, deadline, settlement | a flush over a failing write, events behind a barrier, timers outliving their queue | order kept, nothing stranded, a resolved flush is durable |
| Persistence coordinator (`.../coordinator.ts`, partly) | live sessions, cursors, owners, a serial chain per session | prepare, load, inspect, append, repair, retire, delete, flush | checks before an await and use after it; repair beside a writer | one owner, an exact cursor, no load of a log that never was |
| Preparations pool (`.../preparations.ts`) | one entry per session: loading, ready, committing, reserved | reserve, join, commit, abort, evict | openers that join, abort or restart each other | as above; every opener is answered |
| Session backend (`session/session-persistence-jsonl`, partly) | one file: frames or lines; the name that publishes it | create, append, sync, rollback, recover, load | short writes, a rollback that matters, power loss | what was acknowledged can be read, a rejected append left nothing |
| Agent loop driver (`core/agent-loop/src/agent.ts`) and inbox (`core/agent/src/inbox.ts`, partly) | phase, abort signal, latched wake, turn and step; next-turn and next-step lists | send, cancel, runMaintenance, whenIdle, drive a turn; insert, claim, remove, clear | sends and cancels between any two awaits and reentrant ones, wakes latched behind an abort, disposal | one fate per message, balanced log, no wake forgotten or invented, whenIdle means idle |
| Request recovery (`llm/llm-retry`, the loop's hooks, overflow recovery) | attempt, policy, hooks still to ask, retry log, plugin instances | fail, ask, wait, retry, cancel, unload, reload | routes that change between attempts, a delay cut by a cancel or an unload | budgets and log agree with the requests sent |
| Tool-call scheduler (`core/agent-loop/src/tool-calls.ts`) | pool, settled slots, committed prefix, abort flag, failure | classify, start, dispatch, commit, drain, skip | settlement in any order, abort and reclassification at every await | model order, one result per call, cap, exclusivity, nothing left running |
| Tools registry (`core/tools/src/code-mode.ts`, partly) | a program's queue, pool, exclusive barrier, commit order | submit, start, commit, sleep, abort, close | one lane that sleeps and is woken while bodies overlap | exclusive alone, the lane sleeps only on work, a closed run is complete |
| User approval (`interaction/user-approval`) and the gateway's registry | audit log, entries by question, signals | ask, publish, answer, abort, withdraw, sweep | a late answer against an abort, two questions of one call | a grant is a person's answer to that question, audit in pairs |
| Job registry (`jobs/jobs-local`, partly) | job records, waiters, owner cleanups | start, kill, read, wait, settle, dispose | a wait that ends as the job settles, two teardowns at once | first outcome wins, one notice, none swallowed, teardown ends |
| Session log and checkpoint policy (`core/session`, partly; `session/session-checkpoint-policy`) | the log, the stored prefix | record, flush before effects, close a broken log | a crash anywhere, again during the repair | repaired logs obey the relations, effects were recorded first |
| Compaction (`compaction/*`, partly) | surface, bracket in the log, attempt | prune, select, summarise, replace, close | a summary awaited while others append, failing appends, a lock left behind | pairs stay whole, history stands once, the summary replaces what it read |
| Schedule runtime (`schedule/schedule`, partly) | reminders in the log, timer, drive | create, delete, fire, dispatch, wait, restart | clock set back, a crash between a reminder and its record | none lost, early or unwatched |
| Goal and goal round driver (`goal/goal`, `goal/goal-round-driver`, partly) | folded goal, reservation, tasks, fence | set, edit, pause, resume, clear, reserve, admit, unload | awaits between check and admission, people writing in between | the round that enters is the next of its revision and yields to people |
| Subagent continuation (`subagent/subagent/src/continuation.ts`, partly) | Activations, owned children, locks, drains | start, follow up, report, settle, interrupt, tear down, drain | calls in the middle of their awaits while admission closes | parents outlive their children, drains leave nothing, everything settles |
| Workflow host (`workflow/workflow-worker-thread`, partly) | two threads, two channels, slots, children | start, settle, cancel, die, dispose | messages crossing, grace timer, death of the thread | pairs, slots respected across threads, one settlement |
| MCP connection (`mcp/mcp-client/src/connection.ts`) | generation, budget, timer, sync chain, published tools | connect, sync, close, reconnect, dispose | a generation that goes down during connect or sync | one server at a time, budget, a stopped supervisor serves nothing |
| API gateway and client connection (`host/apiproxy`, `client/connection`, `client/runtime`; partly) | open prompts; stream, statuses, buffers, instances | publish, replay, resync, answer, withdraw | frames before the handshake, failed handshakes, cold instances | every open prompt shown, none left over |
| Agent factory (`core/agent-loop/src/index.ts`, partly) | attempts, registries, memoized dispose, fibers | create, resume, adopt, abort, dispose, unload | three owners of one teardown, setup that cannot be interrupted | no agent without an owner, a rejected start leaves nothing |
| Storage domain (`storage/storage-domain`, `storage/storage-json`) | records, unit, file, chain | put, delete, update, publish, close | memory, unit and file changed across awaits that fail | a serial key-value store that keeps what it answered |
| Desktop shell (`src/dsh-z-gui/app/main`, partly) | child, restart counter, window; the folders of `$DSH_HOME` | start, restart, stop, rebuild, quit; provision | exits, timers and the quit path in any order; a start cut short | one backend, a window that comes back if it can be opened, what is marked whole is whole |
| Memory plugin (`src/dsh-memory-plugin`, partly) | model, documents, chunks | import, delete, load | imports that overlap each other and a crash | a reported import is whole, counts agree |
| Skill market (`src/plugins/dsh-skill-market`, partly) | folders, marker files | install, uninstall | calls cut between two files | an install that ended left its package only, a user's skill stays |

How they interact.  The agent loop claims messages from the inbox, appends to
the session log, asks the recovery hooks when a request fails and runs the tool
scheduler inside a step; a tool may ask for approval, run a program, start a
job, a workflow or a subagent.  The schedule and the goal driver queue messages
with the agent; compaction rewrites its surface; the factory owns its life.
The session store hands every event to the coordinator, which queues it in the
write-behind, whose writes reach the backend's file.  The gateway replays open
prompts to clients.  The shell provisions `$DSH_HOME`, then starts the process
in which all of that runs.

`PROJECT.json` lists the hazards by line: interleavings, checks made before an
`await` and used after it, orders, crashes, retries, budgets, liveness.  All
but one have properties.  Where a part of a hazard does go wrong in the code, its
note says so and names the finding of section 5.  The exception is the microtask
window between the driver's last look at the inbox and its return to idle, which
the repository's notes put out of scope: `AgentLoop` has the window and does
not count its messages as owed.

### Not modelled

Most of the repository's lines have no protocol to check, so the share of lines
the map covers is small and would stay small: about 1,700 files and 310,000
lines, of which user interface (`client/ui-*`, panels, themes), generated
catalogs (`extensions/tool-cordis`, `extensions/cordis-client-runner`, type
metadata of `typert`), fixtures and vendored code make up most.

- *Language model adapters, ACP, SDK clients and servers, LSP, MCP tools*: wire
  formats and translations; the other half of each protocol is outside.
- *Shell, terminals, subprocesses, sandboxes, file system, code runtimes*:
  system calls and worker processes; the models see their results.
- *Rendering, prompt text, settings, presets, commands, todo, plan and skill
  tools, web access*: one-step state changes or formatting.
- *SQLite backend and settings storage*: transactions of an external database.
- *Composition of plugins and the fiber lifecycle* (`vendor/cordis`): used
  through its contract: an unload awaits its effects in order.
- *Conversation tools plugin*: shipped as built output without its source.
- *Examples, prototypes, design notes, test support.*

`PROJECT.json` names each of them with its reason.

## 2. Modules

    DurableLog  <- WriteBehind          SessionFile
    KvStore     <- StorageDomain        SessionPreparations
                                                        MCStores
    AgentLoop           RequestRecovery
    CrashRecovery                                       MCAgent
    ToolCalls           CodeDispatch
    Approvals           JobRegistry                     MCTools
    Compaction                                          MCCompaction
    Schedule            GoalRounds                      MCRounds
    SubagentTree                                        MCSubagents
    WorkflowRun                                         MCWorkflow
    McpConnection       PromptReplay    AgentFactory    MCClients
    Provisioning        DesktopShell
    KnowledgeBase       SkillMarket                     MCDesktop

`<-` reads "is implemented by": `Log` in `WriteBehind` and `Store` in
`StorageDomain` are the refinement mappings.  On the right is the module that
TLC runs.  `SubagentTreeProofs` and `WorkflowRunProofs` extend the module they
are named after; `StoresProofs` extends `MCStores`, `AgentLoopProofs` extends
`MCAgent`, `ToolsProofs` extends `MCTools`, `McpConnectionProofs` extends
`MCClients`, `DesktopProofs` extends `MCDesktop` and `RoundsProofs` extends
`MCRounds`: they prove the properties of the runs as they stand in the MC module.

Components that share no state are checked side by side: an MC module has a
variable `part`, the initial state picks one, and its actions alone are
enabled.  The first part of a line is extended and gets its constants from the
`.cfg`; its companions are instances.  Where the companions are proved about
(`MCStores`, `MCAgent`, `MCTools`, `MCClients`, `MCDesktop`, `MCRounds`) their bounds
are CONSTANTS of the MC module, with values in the `.cfg`; elsewhere the MC module
fixes them.  In
either case it ASSUMEs what they assume.  `MCStores` has two configurations:
`Parts` says which of its parts a run may pick.  What differs between the
instances of one component is, where it is proved about, a variable that no step
changes: `setup`, one of `Setups`.  A property of an MC module is the conjunction
of what the parts promise; a temporal one reads
`part = "x" /\ Fairness => promise`.  The same module may be instantiated
several times with different `Features`, the things that may happen around it:
a promise that breaks under one feature (section 5) is still checked under the
others.

In every module an action is one uninterrupted job of the event loop: from a
call, a resumed `await` or a timer to the next `await` or return.  Variables
carry the names of the fields and locals they stand for; those commented
"observed" are read by properties only.  The definitions under "Plausible bugs"
are mutated forms of the definition they are named after; no specification uses
them.

### The way to the disk

**WriteBehind, DurableLog.**  An event is its number.  `pending`, `batch`,
`barrier`, `deadlineExpired` and `automaticPaused` are the fields of
`SessionWriteBehind`; `timer` counts the live timeouts, so that an armed timer
that is overwritten without being cleared would be seen.  `active` and `barrier`
also say which microtasks are queued behind a settled promise; they run in any
order, which is more than the engine allows, but before any timeout
(`MicrotasksDone`).  `caller` is a `flush(session)` call of the coordinator with
the number of events before it.  Assumptions: a rejected write stored nothing,
which `SessionFile` shows of the backend (`CursorMatches`); initialization
settles once, ready or failed.  `DurableLog` states the promise without queue
or timer: events are accepted in order, stored prefix by prefix, and a flush is
answered "resolved" only when everything accepted before it is stored.

**SessionFile.**  The file is a sequence of pieces, frames (one per batch, if it
is `compressed`) or lines (one per event), each whole or cut; `survive` is the set of contents a
power loss may leave.  Actions are the I/O calls of publication (write, sync,
link, directory sync), append (write, sync, rollback), reading and repair.  A
power loss leaves some prefix of an unsynced write, a killed process leaves
what the kernel has.  The header, packed rows, several closers and a second
process on the file are left out; a recovered tail may be lost by a crash
between the repair's two steps.

**StorageDomain, KvStore.**  `records`, `unit` and `file` are the three copies,
`chain` the serial jobs, `stage` where the running one stands: a temporary file
is written, renamed, its directory synced, each of which may fail.  `SyncFails`
lets the last one fail after the rename.  `KvStore` is a map with a queue of
pending calls; the first of them may or may not survive a crash.

**SessionPreparations.**  The log is the number of changes made to it, to which
cursors count.  `entry` is the pool's entry, `chain` the serial chain with
append, repair and revision tasks, `call` where each opener stands, `setup` what
they may ask for.  A live
session writes its tail and is retired, another process may write between
calls.

### The agent's turn

**AgentLoop.**  `nextTurn`, `nextStep` are the inbox; `kind`, `signal`,
`wakeRequested`, `turn`, `step` the phase; `pc`, `held`, `turnEnds` where the
driver stands, its claimed batch and its ending so far; `activity`, `settled`,
`waiter` the promise in `activityDone`, those resolved, and one `whenIdle()`
caller.
- `send` is two actions because insertion observers run between the insertion
  and the wake; a `Cancel` may come between them, nothing of the driver can.
- A model request, its retries and its tool calls are the outcome of one step
  (`StepDone`, `StepFails`); `RequestRecovery` and `ToolCalls` are what happens
  inside.  The pre-step waterfall enters, rejects, empties or fails the step.
- The return of an async function and the resumption of its awaiter are one
  action, except the driver's last look at the inbox (`pc = "exit"`).
- Parking is what the harness documents: after a failed, blocked or emptied
  turn, or a cancel with `keepInbox`, messages wait for the next wake.
- A disposal clears the inbox.  Failing `session.append` calls are left out.

**RequestRecovery.**  `step` is the step at hand, `attempts` its requests,
`policy` the route that served the last one, `chain` the hooks still to be
asked, `log` the retry events, `instance` and `lifetime` the loads of the retry
plugin.  `setup` is what the agent is composed of, the policies its routes may
declare and the order of the hooks; a foreign hook is checked with the retry
policy first only.  In a setup without always mode and foreign hooks
(`Budgeted`) `MaxAttempts` never binds, and `AttemptsBounded` says what the
budgets add up to.

**ToolCalls.**  Calls are numbered in model order.  `started`, `slots`,
`inFlight`, `aborted`, `failed` and `groupMode` are the locals of `runGroup`,
`base` the calls consumed by earlier groups; `running` are the tools still at
work, `pc` the await at which the scheduler stands.  `mode` is the registry,
which may change at any time (`Reclassify`).  `prepare` never dispatches on an
aborted signal (`core/tools/src/index.ts` lines 1470 and 1500).  Result contexts
and the `concluded` flag do not influence scheduling and are left out.

**CodeDispatch.**  The calls of a program inside `run_code`: `submitted`,
`taken`, `started` and `commits` count them through the queues, `pc` is the
lane, "asleep" when it waits to be woken; `answers` is what the program has.
Its log events and their writing are `logging` and `settleLog`.

**Approvals.**  A question is a call and a number, since a call asks for its
gate and then, running, for wider rights of the sandbox.  `pending` are the
gateway's entries with the id each claimed, `gateway` its life (a listener that
is removed before the registry is).  In the part "policy" only one call asks
while the approval policy switches.

**JobRegistry.**  A job's record is `status`, `owner`, membership of `store` and
`reported`; a wait's place is `phase`, and `counted` the waits `job.waiters`
counts.  `scope` follows each agent and, under `NoOwner`, the service.  A `kill`
whose cancel throws changes nothing and is no action.  `Start` is disabled once
the service is being disposed: the controllers that can call it are detached
with the same fiber.  Observers that only read are left out.

### What a session says

**CrashRecovery.**  `log` are the turn, step, answer, call and result records,
of which `durable` are stored; the driver and the calls of a step write them and
wait for checkpoints (`awaited`, `goal`).  A crash keeps any prefix from
`durable` on; the next process closes the log, and may crash doing so.
`TraceOf` is the invariant companion of `core/session` as a recursion over the
log.  `setup` holds the bounds of the run.  Left out:
chunks, request headers, contexts, nested dispatches, the pool's cap and
exclusivity (see `ToolCalls`), a scheduler that fails for good, and the
relations on todo and context events.

**Compaction.**  A node of `surface` has its seq, its price, its calls or the
call it answers, and the seqs it stands for (`from`) beside those its summary
was made from (`read`).  `bracket` is the lock in the log.  A crash leaves a
prefix, which equals an earlier state except between checkpoint and close; that
is the second disjunct of `Crash`.  An answer cut by the token ceiling carries
no tool calls.

### Turns nobody typed

**Schedule.**  `log` holds schedule changes and follow-ups, `stored` the prefix
a crash keeps.  `drive`, `timer`, `idleWait`, `requested`, `faulted` are
`ScheduleRuntime`; `queue` is the chain of transactions it shares with the
tools.  The clock ticks, and may be set back.  `setup` is the intervals and bounds
of the run, chosen at its start: one reminder and every fault but a crash, two
one-shots over a crash and restart, or one over a restart beside turns of the
agent (`Alone`, `Pair`, `Working` in `MCRounds`).  A failed preflight drops an armed
timer, and a crash between a follow-up and its record repeats it: the package's
README documents both ("Activity-driven retry", "Narrow crash duplicate
window").

**GoalRounds.**  `goal` is the fold, `attempt` the reservation, `runs` and
`owner` the driver's tasks; `turn`, `batch`, `inbox` the agent.  `features` is
the composition of the run: "outer" adds a listener that may await behind the
driver's checks, "keep" cancels that keep the inbox; the fence is promised
without the first (`Fenced`), what a checkpoint, a cancel and an unload mean with
both.  `runMaintenance` is not modelled for this driver: with it a queued
reservation can be dropped and made again under the same identity.

**SubagentTree.**  `ag` is each agent (phase, inbox, generation), `stage` its
Activation ("quiet": its whenIdle has been seen, owned children may remain),
`op` the calls to start or follow up a child at their awaits, `drain` and
`scope` the drains.  The order of waiters for a lock is open.  A start is a
tool call: it holds its caller's turn open and shares its signal; a follow-up
may come from outside a turn; nobody calls for a child before it is announced.
Roots never leave.  `setup` is what the run began with and what may disturb it,
one of `Setups`: the children already at work, those that may be called for, the
calls, the bound on reports, and the disturbances (interrupts, failing turns,
callers that abort, the three drains).  `Ancestors` and `Below` are least sets:
what the code reaches by following parents and owned children.  `Rest` marks the states in which everything may be at rest;
any other state without a step is a deadlock.

**WorkflowRun.**  `host`, `worker` and the two channels; `setup`, one of
`Setups`, is what the run began with: its slots, a bound on notes and what may
happen to it.  A side handles one
message at a time with the microtasks it releases.  Providers are free to end a
child at any time, which stands for the abort signal too; settled and failed
children are not told apart.  "stray" lets a script end with calls outstanding,
"crash" lets the thread die.  Messages queued at the exit may be lost.  A child's
dispose resolves after its run has settled.  A `cancel()` from inside a callback
is not modelled.

### Connections and owners

**McpConnection.**  Generations are numbered; `closed` are those whose close
signal fired, `pc` where the last attempt stands, `syncs` the chain of tool
synchronizations, `published` the generation whose tools are registered.

**PromptReplay.**  The host's `pending`, the frames of a `stream`, and the
client's statuses (`dots`), buffers, `instance` and `shown` prompts.  `heard`
says that frames were handled before the handshake was done.  "early" and
"failed" let such a handshake succeed or fail, "cold" lets an instance exist
before it is opened.

**AgentFactory.**  Three attempts under one id (create, resume, configured),
their owners, the memoized teardown `disp` and the two registries.  A setup
cannot be interrupted; a load that was given up may still end (`late`).  The
instance has both callers on one fiber; with two fibers (255,000 states) the
same properties hold.

### The desktop

**Provisioning.**  A directory has a content, a version and a fingerprint;
removal, copy and mark are separate file operations between which the process
may die.  The code hashes a part of a directory only (a plugin's package.json,
cordis.patch.yml, lib and src; the market's manifest and SKILL.md files), so a
fingerprint is not a version: `Prints` gives the one each release ships for each
directory, two releases may share it, and then the directory is not refreshed.
`WholeAndCurrent` is what a fingerprint can promise: a whole copy of one release
whose hashed part is the shipped one.  `Rollbacks` lets an older version be
installed again; `NothingReturns` says that a fingerprint once replaced is not
shipped again.

**DesktopShell.**  Processes are numbered as they are spawned: `alive`, those
`exited` whose event is still queued, those `killed`.  `child`, `stopping`,
`restartCount` are the variables of `backend.js`, `timer` the pending restart
timeout; `window`, `abnormal`, `rebuild` the window.  When the rebuild timeout
fires, `createWindow` succeeds (`RebuildWindow`) or throws (`RebuildFails`, seen
in `unopened`), after which nothing tries again.  A page that refuses to
unload and a backend that becomes ready while the application quits are left
out.

**KnowledgeBase.**  A document is an import and a file; its chunks are added one
embedding at a time, its count last.  Splitting of text is a number of parts.

**SkillMarket.**  A folder is the set of its files.  Calls are synchronous; what
cuts one is the end of the process or a file operation that throws, between two
files.  Users act only between calls: they make a folder where there is none or
delete a whole one.

## 3. Runs

| Run | Parts and bounds | Distinct states |
|---|---|---|
| `stores` | queue: 3 events, 2 flush callers. file: frames or lines, 3 events, 2 faults, 1 crash. domain: 2 keys, 2 values, 2 calls, 2 faults, 1 crash | 81914 |
| `agent` | agent: 2 messages, 2 steps a turn, 2 cancels, 1 maintenance job. recovery: 1 step, 2 plugin instances, overflow 1; with 2 routes, one always, a foreign hook and 3 attempts, and with budgets 1 and 2 and 6 attempts. turns: 2 turns of 1 step, 2 calls, 1 fault, 1 crash, and 1 turn of 2 steps, 2 calls, 2 crashes | 351311 |
| `tools` | step: 3 calls, pool 2, 2 reclassifications. code: 3 calls, pool 2, 1 reclassification. approvals: 2 calls of 2 questions. policy: 1 call, 2 switches. jobs: 2 jobs, 1 agent, 1 wait, limit 1 | 378945 |
| `desktop` | provisioning: 2 plugins and the market, 1 bundle of the user's, 3 versions (each directory but one shares a fingerprint between two of them), 2 crashes. shell: 3 restarts, 2 renderer failures. knowledge: 2 imports of 3 files (2, 0 and 2 parts), 1 crash. skills: 2 names, 2 versions, 2 stops | 107822 |
| `clients` | mcp: budget 2, 1 stable connection, 2 queued syncs. early, opened, ordered: 2 approvals, 3 generations. factory: 3 attempts, 1 fiber | 106858 |
| `preparations` | wide: 2 openers of every kind, 1 write, 1 fault. deep: 2 prepares, 2 writes, 1 fault | 481414 |
| `compaction` | window of 4 slots, 2 kept, 6 nodes, 1 fault, 1 crash | 221593 |
| `rounds` | alone: 1 reminder, every fault but a crash. pair: 2 one-shots, 1 restart. working: 1 reminder, 1 restart, 2 turns. rounds: 3 revisions, 2 messages of people, 2 tasks, bare and with "outer" and "keep" | 276713 |
| `subagents` | drained: a root, child and grandchild, 2 calls. chain: three generations, 1 call, interrupts and partial drains. telling: three generations, 2 reports, failing turns | 218252 |
| `workflow` | queued: 2 calls, 1 slot, strays, a dying thread. at once: 2 slots. narrated: 1 note | 262329 |
| `prep_contiguous` | 2 openers, 2 writes, no fault; violation | |
| `prompts_early` | 3 approvals, 3 generations, "early"; violation | |

What they show, property by property; each is a conjunction whose parts carry
their own comment in the module.

- `stores`: `QueueSafe` (order, durable flushes, nothing stranded, no empty
  write), `FilesHold` (acknowledged events readable, the file as the cursor
  counts it, the domain's copies agree), `ImplementsDurableLog`, `DomainIsStore`,
  `StoresSettle` (flushes answered, events stored without a flush, retries get
  through, loads end, a domain closes, no write while paused).
- `agent`: `AgentSafe`, `RecoveryHolds` (budgets, pairs of retry records,
  attempts accounted), `TurnsHold` (relations, closable, what the model was asked
  survives, effects recorded first), `TurnSteps` (no unprompted turn, none after a
  disposal that came first, whenIdle means idle, sticky token ceiling, silence of
  an unloaded plugin), `AgentAnswers` (wakes served, waits return, steps end),
  `CallsGetResults`.
- `tools`: `StepSafe`, `DispatchHolds`, `ApprovalsHold`, `JobsHold`,
  `AbortedStaysQuiet`, `ToolsSettle`.
- `desktop`: `ProvisionSafe`, `ShellHolds`, `LibrariesHold`, `DesktopSteps`,
  `DesktopRecovers`.
- `clients`: `SupervisorSafe`, `ReplayHolds`, `FactoryHolds`, `ClientSteps`,
  `ClientsSettle`.
- `preparations`: `PreparedHolds` (one owner, exact cursor, publication never
  refused), `PreparedMoves` (a load is fresh, repairs only without an owner),
  `CallsAnswered`.
- `compaction`: `SurfaceHolds` (pairs, history, faithful summaries, lock),
  `CompactionSteps`.
- `rounds`: `RemindersHold`, `RoundsHold`, `RoundSteps`, `RoundsMove`.
- `subagents`: `TreeHolds`, `TreeSettles`.
- `workflow`: `RunHolds`, `RunSettles`.

Bounds.  Each is the least at which the case it is for happens: a batch under
way, a queue behind it and an event between two flushes need three events; a
second step makes stickiness and late input possible; two cancels because the
interesting disposal is the one after a user's; a full pool, a call waiting for
room and one behind a barrier need three calls against a pool of two; a
limit of one makes two jobs compete; a lost prompt needs one generation that
ends, one that replays and one that resynchronizes; a repair cut short needs
two crashes; a
grandchild makes a parent wait while it is itself waited for.  `MaxRestarts` is
the code's own constant.  The other bounds cap environment actions that the code
does not limit: faults, crashes, switches, messages of people.  A bound on growth
(steps, attempts, nodes) cuts behaviours off; the liveness properties it would
touch are checked where it does not bind, where the model ends the turn instead,
or name it (`PromptsArrive`: the last generation may be lost).

Deadlock is checked in `subagents` and `workflow`, where `Rest` names the states
in which the system may stop.  The other systems stop:
messages sent, a step over, everything disposed, the shell gone.

Fairness is each module's `Fairness`, weak and per promise: queued microtasks
and due timeouts run, frames arrive, awaited promises settle (backends, models,
tools, hooks, setups that were told to end, processes that were killed).
Nothing promises that a write, a turn or a connection succeeds, that a user
acts, or that a producer whose cancel threw ever settles.  `WorkflowRun`
separates `HostFairness`: with the host's own events alone, whatever script and
providers do, a cancelled run settles and `dispose()` returns.  A tool or a
maintenance job that never settles would block the agent: the code waits for it
by design.

## 4. Proofs

| Module | Theorems | Assumed of the constants |
|---|---|---|
| `StoresProofs` | `QueueIsSafe`, `EventsInOrder`, `ResolvedFlushIsDurable`, `NoWriteWhilePaused`, `Refinement` (implements `DurableLog`), `FilesAlwaysHold`, `DomainIsSafe`, `StoreRefinement` (implements `KvStore`), `PreparedIsSafe`, `PreparedStepsHold` | `MaxEvents` is a natural number, `FileBounds`, `DomainBounds`, `PoolBounds` |
| `AgentLoopProofs` | `AgentIsSafe`, `AgentStepsHold`, `RecoveryAlwaysHolds`, `TurnsAlwaysHold`, `TurnStepsHold` | `BoundsAssumption`, `RecoveryBounds`, `CrashBounds` |
| `ToolsProofs` | `StepIsSafe`, `ExclusiveAlone`, `AbortStartsNothing`, `DispatchAlwaysHolds`, `ApprovalsAlwaysHold`, `JobsAlwaysHold`, `AbortedStaysQuietAlways` | `SchedulerAssumption`, `CodeBounds`, `ApprovalBounds`, `JobBounds` |
| `McpConnectionProofs` | `SupervisorIsSafe`, `ConflictsStayContained`, `FactoryAlwaysHolds`, `ReplayAlwaysHolds`, `ClientStepsHold` | `SupervisorAssumption`, `ReplayBounds`, `FactoryBounds` |
| `DesktopProofs` | `ProvisioningIsSafe` (with `~Rollbacks`, `NothingReturns`), `UserBundlesSafe`, `ShellAlwaysHolds`, `LibrariesAlwaysHold`, `DesktopStepsHold` | `ProvisioningAssumption`, `ShellBounds`, `KnowledgeBounds`, `SkillBounds` |
| `RoundsProofs` | `RoundsAlwaysHold`, `RoundStepsHold`, `RemindersAlwaysHold` | `GoalRoundsAssumption`, `ScheduleBounds` |
| `SubagentTreeProofs` | `TreeIsSafe`, `TeardownIsTurnless` | `SubagentTreeAssumption`: finitely many agents, no child among its own ancestors, setups whose children at work have their parents at work |
| `WorkflowRunProofs` | `RunIsSafe`, `DeathIsFinal` | `SetupsAssumption`: setups have a slot; `CallsAssumption`: the calls of a script are finitely many |

`~Rollbacks` and `NothingReturns`, and in `MCStores` `SyncFails <- FALSE` in the domain and
`Features <- {}` in the file, are what the properties need: without them they do
not hold (findings `ReadyIsCurrent`, `NoDivergence`, `AckedReadable` and
`RetryGetsThrough` in section 5).  All
other results hold for every value the assumptions allow; the assumptions say
that bounds are natural numbers and sets finite or of the right kind, and TLC
evaluates them on every run.  A bound stands in a guard, so a theorem that holds
for every bound says the same of the unbounded system.  Each proof has the
same form: an invariant that implies the property, one lemma per part of
it with one step per action, a lemma that splits `Next` into its actions, and a
theorem that combines them.  In an MC module with several parts each part keeps
its invariant whatever part runs, since the others leave its variables alone;
the theorem about the MC module's property is the conjunction.

- *WriteBehind.*  `Control` ties a write to its batch, to the barrier that
  awaits it and to the continuation queued behind it; without it a second write
  could start on top of the first.  `Deadlines` says when a timer or an expired
  deadline can exist: only with a queue, no pause and no barrier.  `Marks`
  bounds each flush's mark by the events produced, which with `InOrder` and an
  empty queue gives the durability of a resolving barrier.  In the refinement
  only `StoreOk` needs the order, to see that the stored log grows by a piece of
  the accepted one.
- *AgentLoop.*  Three questions meet in the driver.  Where is every message:
  lemmas on sequences without repetitions (`ElemsAppend`, `ElemsTail`,
  `ElemsConcat`, `ElemsDrop`) give one fact about every step (`Moves`: no
  message in two places, only unsent ones become pending), used by all other
  parts.  Who answers a wake: `Owes` (a live driver will look again, or the wake
  is latched) and `Prompted` (a live driver was woken).  Which promise stands for
  the activity: `Waits`.  `Control` ties the phase to the driver's place and
  says that a disposal which came first latches nothing.
- *RequestRecovery.*  `Numbered`: the records of a step carry their numbers in
  order.  `Fresh`: a start names a record that no other start names.  `Counted`:
  the requests sent are the records' and the foreign hooks'.  `OverflowAlone`:
  the overflow recovery answers once a step.  That the budgets add up to the most
  requests of a step compares a sum over routes, a fold, with a number of tickets
  (`BudgetsAddUp`, by a least number at which they differ); starts map one to one
  into the tickets.
- *CrashRecovery.*  A crash may leave any log that begins with the stored one, so
  the invariant is about every prefix (`Wholly`).  Of each it says that the two
  readings of a log, the one that checks its relations and the one that looks for
  what to close, find the same turn, step and calls open (`Agree`), that the
  transcript lacks exactly the results of the pending calls, in their order
  (`Paired`), and that no started call was said not to have started
  (`Recorded`).  Both readings are recursions over the log; the lemmas say what
  they make of one more event, by a least position at which the values computed
  for two logs differ.  `Follows` lists the events that may come next and keeps
  all of that (`Writing`), `WrittenInTurn` does the same for a run of events; so a step
  of the driver only has to be shown to write what may come next, and so has each
  event of a repair (`Closing`), which is why a repair cut short is a log like any
  other.  `Standing` ties the place of the driver to where the log is open,
  `Working` the phases of the calls to what is pending, `Made` the names in the
  log to the calls made, `Entered` a body that was entered to its stored call.
- *ToolCalls.*  `Work`: unless the scheduler has failed, every call started and
  not committed is being prepared, at work or settled; so with nothing in flight
  and no result due, everything started is committed, which is why the calls
  skipped by an abort continue both logs without a gap.  `Logs`, `Group` (one
  mode per group, kept by the rechecked classification), `Boundaries` (an empty
  pool between groups) and `Pool` (the cap, strict while a call is prepared).
  `Rounds` describes a round of `fillPool` as one of three outcomes.
- *CodeDispatch.*  `Lined` orders the counters of the queues, `Pooled` and
  `Single` say who may be at work (an exclusive call with nobody), `Crowd` bounds
  bodies and unwritten settlements, `Resting` says that a sleeping lane has work
  under way to wake it, `Heard` that a closed run has answered and logged all.
- *Approvals.*  `Placed`: the token of a question is in one place, asked,
  published, answered or withdrawn.  `Logged` and `Standing` pair its records
  with that place; `Granted` carries what was allowed to the call it was allowed
  for.
- *JobRegistry.*  `Announced` and `Noticed` count a settlement's notices: a job
  nobody claimed is marked reported only for a wait that will see it over.
  `Stored` and `TornDown` say that a teardown waits for all that its owner has.
- *SessionPreparations.*  `Claims` says which opener an entry of the pool is
  committed or reserved for, `Ownership` that there is no other beside it or a
  live session, `Queue` what the tasks still in the chain will do to the cursor,
  `Joined`, `Loads` and `Begun` what an opener that waits has seen, `Retires` and
  `Held` what a retirement under way may still write.  With `Queue` the cursor of
  a reserved or owned session counts what is stored when its turn comes.
- *McpConnection.*  `Gone`: every generation but the last is closed, and the last
  too when the timer is armed; from it comes the one server.  `Quiet`: what is
  over once a reconnection is decided, given up or disposed of.  `Charged`:
  generations against the budget, which flapping connections may not refill.
  `Queued`: what the chain may still do, so that nothing behind a give-up
  registers a tool.
- *AgentFactory.*  `Placed`: an attempt past its registration is in both
  registries, in the same place.  `Known` and `Sorted` tie the memoized teardown
  to the owners that wait for it, `Owed` says who will still tear down an agent
  whose owner has left, `Ended` what an ended attempt has left.
- *PromptReplay.*  `Wired` is what the frames in flight will tell, `Told` what the
  client has been told, `Fresh` which statuses belong to the present connection,
  `Arriving` that an open prompt not shown is still on its way.  It is proved of
  an instance with every feature (`All`), of which the checked ones are
  restrictions.
- *Provisioning.*  `Marking`: what a fingerprint means, also in the middle of a
  replacement.  `Walking`: what the walk has left behind carries the shipped
  one.  `Listing`: the bundles.  Only `Marking` needs `~Rollbacks` and
  `NothingReturns`: a directory that carries the fingerprint of the version now
  installed carried that of the one before, under which it was whole.
- *DesktopShell.*  `Numbered` orders processes by their spawning, `Tracked` says
  that a backend which runs is the child or has been killed, `Alone` that a
  second one is spawned only once the first has exited, `Flagged` what the stop
  flag means for the timer.
- *KnowledgeBase.*  `Behind` and `Ahead` bound the chunks written against the part
  being embedded, `Counting` the count against them, `Current` the import whose
  turn it is.
- *SkillMarket.*  `Replacing`: what a folder holds while an install replaces it.
- *GoalRounds.*  The message of the reservation is in one place: at most once in
  the inbox (`InLine`), or in the hands of the turn (`InHand`), and a reservation
  left with an idle agent is of an older revision (`Resting`), so that dropping
  it cannot leave a round of the present one behind.  `Bounded`: the round
  reserved is within the limit, which the second check does not look at.
  `Outside`: the driver's listeners stay until what they let in has entered.
  `Stops`: while a cancel stands the goal is disarmed or the abort is still to be
  seen.  `Stored`: what is not known to be stored is being stored, or is looked
  at again by the one task under way.  `Outcomes` describes the end of a turn as
  one of three.
- *Schedule.*  Every prefix of the log is well formed (`Known`, `Kept`) and every
  event follows from the prefix before it (`Sound`), so a crash, which keeps a
  prefix, needs no argument of its own.  `ActiveInAppend` says what one more
  event makes of the fold; from it `Dispatching` goes through a batch one
  dispatch at a time, for what the failing append leaves is one of its
  prefixes.  `ReminderRepeats`: an occurrence was sent once more than the
  process restarted, at most, and one that may be sent again was not sent since
  the restart.  `ReminderPlaces` ties the chain of transactions to the run and
  the tool that wait in it, `ReminderWatched` says what the last look of a run
  leaves behind.
- *SubagentTree.*  `Callers` is what an await may rely on: a call that still has
  its caller's generation has a caller somebody has an id for.  `Announcements`
  carries that up: the parent of an announced child is live, announced itself, and
  counts it.  So the live lineage of a caller is all of its ancestors, and a scope
  that closed after the caller was made is seen by every call below it
  (`Scopes`: what a closing scope waits for, and that nothing below its root is
  made outside of it).  `Owners`: what a teardown owns is going away too, and is
  what it waits for.  `Locks` and `Lines` say what the holder of a child's lock
  finds, `Unheard` that a child without an id still has the call that made it.
  `Turnless`: an agent in teardown has no latched wake, and while it has announced
  children it belongs to a drain that is closing, unless a root chose it, so their
  notices find admission closed.  `Mail` orders what an agent read and what its
  next step will: without interrupts no agent outside a teardown is aborted, so no
  report ever waits for a turn.  `Notices`: a notice speaks of an epoch that is
  over, since the release sends it behind the last turn of its child.
- *WorkflowRun.*  `Placed` follows the request of a call: its start, the answer,
  the disposal and the answer to that are each in one place (a channel, the host
  or the provider), and what worker and provider know of the call fits that place.
  So a child that exists belongs to a call that holds a slot, on whichever side of
  the thread boundary the message is that says otherwise; `InLine` and `Slots` say
  that a slot is passed on to one waiter.  `Decided` ties the claim, the grace and
  the death to each other and to who cancelled first.  `Counting` rests on the order
  of the channel: a result counts the announcements ahead of it.
- *SessionFile.*  First what the functions compute.  The events of pieces laid end
  to end are those of the parts (`RecordsConcat`, `LineRecords`), so of every
  content that may be found (`Sound`) the reader returns the events in order and
  a repair keeps all but the torn end (`FileReads`), and a write, through or
  broken off, leaves such a content (`Extended`, `BrokenWrite`).  Then the
  invariant.  `Lasting`: the acknowledged events are in the part a repair keeps of
  anything a power loss may leave.  `Writing`: what the file was before the write
  under way, to which a rollback returns.  `Living`: what the live session's
  cursor counts.
- *StorageDomain.*  `WriteUnderWay` says what records, unit and file hold while a job
  is under way; at every step the abstract store can see, it gives the value
  that is answered.

Only model-checked: `SurfaceHolds` and `CompactionSteps` (`Compaction`).  They
speak of folds over the surface (the calls without a result before a position,
what a node stands for), and their invariant would have to say what the folds do
with a range that a compaction replaces; that is not done.  Liveness under
fairness (`CallsGetResults` among it) is everywhere left to TLC, since it and
ENABLED are out of the installed provers' reach, as is induction over data.  What a function does with
one more event can be reached through a least counterexample, as in
`BudgetsAddUp`, `ActiveInAppend` and `RecordsConcat`; `Schedule`, `SessionFile` and
`CrashRecovery` rest on it.

## 5. Findings

Two disagreements between the code and its documents have a run of their own:

1. `prep_contiguous` (`SessionPreparations`, `LogStaysWhole`).  `commitPrepared`
   repairs the log and returns without moving the cursor of the ownerless state
   it found (`coordinator.ts:944-949`).  An append queued behind it passes the
   contiguity check against the stale cursor and repeats sequence numbers.
   `coordinator.ts:697` says that each event's seq must continue the stored log.
2. `prompts_early` (`PromptReplay`, `NoPromptLost`).  The host replays open
   prompts when the stream opens; a resync driven by the handshake that comes
   after them clears them, and nobody sends them again.
   `client/runtime/src/client/sessions/session.ts:434` says that the replay
   re-mints them.

The others are stated in their modules and are violated with the constants
given; the runs check what holds instead, with the feature off or in the weaker
form named in the module.

3. `TeardownOpensNoTurn` (`AgentLoop`; 2 messages, `MaxSteps` 1, `MaxCancels` 2, `MaxMaintenance` 0), `core/agent-loop/src/agent.ts:178`.
   The comment at core/agent-loop/src/agent.ts:176 says "disposal never
   latches, so teardown waits on no model turn", and
   core/agent-loop/README.md:70 that "a `disposed` cancel never latches". The
   guard at line 178 reads the abort's reason, and an AbortController keeps
   its first one. If a user cancel comes first and disposal follows before the
   activity has converged (core/agent-loop/src/index.ts:507 then awaits
   whenIdle), the reason stays the user's: a waking send at that moment
   latches, and the replay at line 220 opens a model turn that the disposal
   waits for.
4. `StopIsFinal` (`DesktopShell`; `MaxRestarts` 3, `MaxAbnormal` 0), `src/dsh-z-gui/app/main/backend.js:320`.
   The comment at src/dsh-z-gui/app/main/backend.js:334 says "停止后端子进程（幂等）"
   (stops the backend child process, idempotent). The restart timeout set at
   line 320 is neither kept nor cleared: if it is pending when stopBackend()
   runs, boot() resets stopping at line 308 and spawns a new backend, which
   runs although it was stopped and no second stop follows on the quit path.
5. `NoDivergence` (`StorageDomain`; `SyncFails`, 2 calls, 1 fault), `storage/storage-json/src/atomic.ts:35`.
   When the directory sync fails after the rename, the write is rejected and
   memory keeps the old value while the file has the new one.
   storage/storage-domain/src/domain.ts:6 says a rejected "backend write
   leaves memory untouched (no divergence between reads and the" medium).
6. `FenceHolds` (`GoalRounds`; composition `{"outer"}`, `MaxRev` 4, `MaxHuman` 1, `MaxRuns` 2), `goal/goal-round-driver/src/index.ts:401`.
   A pre-step listener registered outside the driver awaits after next(): an
   edit or a pause lands between the driver's second check and the append, and
   the old round enters; the fold of the goal's log then refuses it for good.
   src/deepseek-harness/.agents/notes/implemented/feature/2026-07-19-same-session-goal-round-driver.md:25
   says of that check "This second check prevents an async listener from
   editing or pausing the goal while still entering the old prompt."
7. `OneRoundQueued` (`GoalRounds`; bare, `MaxRev` 6, `MaxHuman` 2, `MaxRuns` 3), `goal/goal-round-driver/src/index.ts:158`.
   A reservation queued behind a parked message of a person is dropped while
   its message stays in the inbox; the next resume queues a second.
   goal/goal-round-driver/src/index.ts:137 says "reserve at most one next
   round".
8. `OneRun` (`GoalRounds`; bare, `MaxRev` 4, `MaxHuman` 1, `MaxRuns` 3), `goal/goal-round-driver/src/index.ts:231`.
   The first pass of a run is synchronous; when it blocks the goal at its
   round limit, goal/changed finds state.run not yet assigned and starts a
   second task. goal/goal-round-driver/src/index.ts:207 says "Coalesce
   triggers onto one agent-local serialized driver."
9. `StatusAgrees` (`PromptReplay`; `{"failed"}`, 3 approvals, `MaxGen` 3), `client/connection/src/client/connection.ts:173`.
   emitState() drops a repeated 'reconnecting', so a connection that handled
   replayed frames and then failed in its handshake clears nothing.
   client/runtime/src/client/sessions/manager.ts:882 says "Interactions
   resolved while disconnected send no frame, so stale statuses and buffered
   answerable frames must not survive into the next generation".
10. `NoPhantomPrompt` (`PromptReplay`; `{"cold"}`, `MaxGen` 3), `client/runtime/src/client/sessions/session.ts:426`.
   resync() returns early for an instance that was never opened, whose prompts
   of an old connection survive it.
   client/runtime/src/client/sessions/session.ts:417 says "pending waits for
   the baseline replay".
11. `OwnerJoins` (`AgentFactory`; two owners), `core/agent-loop/src/index.ts:527`.
   The owner's effect returns at once when a teardown has begun by other
   means, so the owner's unload ends while the agent still drains.
   core/agent-loop/README.md:15 says "Caller unload, handle disposal, or
   provider unload converge on one memoized quiescence boundary." and
   core/agent-loop/src/index.ts:494 "memoized so every racing owner awaits one
   quiescence".
12. `ModelIsWhole` (`Provisioning`; `MaxVersion` 3, `MaxCrashes` 2, no rollbacks), `src/dsh-z-gui/app/main/backend.js:202`.
   The model's folder is copied only where it does not exist: a start cut
   short leaves a part that no later start completes.
   src/dsh-z-gui/app/main/backend.js:139 says "安装内置插件到 web profile 并确保 bundle
   列表包含它们（幂等）" (idempotent), and src/dsh-memory-plugin/README.md:26 that the
   model is copied to the user's folder by itself ("自举复制").
13. `BundlesKept` (`Provisioning`; the same), `src/dsh-z-gui/app/main/backend.js:190`.
   package.json is rewritten in place; cut short, it does not parse, the next
   start ignores it (line 176) and writes a list without the user's bundles.
   src/dsh-z-gui/app/main/backend.js:139 calls the installation idempotent
   ("幂等").
14. `ReadyIsCurrent` (`Provisioning`; `Rollbacks`), `src/dsh-z-gui/app/main/backend.js:238`.
   rmSync() may be cut short with the old fingerprint file still there; when
   the version of that fingerprint is installed again (or a later one ships the
   same fingerprint after another, which `NothingReturns` excludes), the torn
   folder passes for current. src/dsh-z-gui/app/main/backend.js:247 says
   "已存在但结构指纹变化时刷新，保持与源码一致" (kept consistent with the source).
15. `IndexedIsWhole` (`KnowledgeBase`; `MaxCrashes` 1), `src/dsh-memory-plugin/src/index.ts:286`.
   A document's row is written with status 'indexed' before any of its chunks,
   and is never set to failed. src/docs/dsh-memory-design.md:114 gives the
   states as "indexed/failed".
16. `ModelGetsLoaded` (`KnowledgeBase`; `FairSpec`, `MaxCrashes` 1), `src/dsh-memory-plugin/src/embedding.ts:30`.
   A pipeline that failed to load is memoized for good: no retry loads it.
   src/docs/dsh-memory-design.md:166 says of rebuilding the index that it
   serves "模型升级/失败重试" (a retry after a failure),
   src/dsh-memory-plugin/src/embedding.ts:24 calls it idempotent.
17. `FreshTurn` (`RequestRecovery`; retry policy first), `core/agent-loop/src/agent.ts:389`.
   The retry repeats the request inside the same turn and step.
   llm/llm-retry/README.md:5 says "every retry opens a fresh numbered turn".
18. `NoTurnInTeardown` without its condition (`SubagentTree`; a setup with `{"select"}`, A and B at work, 1 call), `subagent/subagent/src/continuation.ts:1502`.
   drainChildren() opens a disposal without closing its agent's scope, so a
   child's notice finds no closing teardown and calls followup() on an agent
   that is being torn down: a model turn begins that the teardown does not
   wait for. subagent/subagent/src/continuation.ts:1482 says "A parent whose
   own teardown already began must not be woken."
19. `ReportsFirst` without its condition (`SubagentTree`; a setup with `{"interrupt"}`, 1 report), `subagent/subagent/src/continuation.ts:705`.
   A report sent while its parent's interrupted turn winds down is queued for
   the next turn behind a follow-up; the notice that follows is queued for the
   next step and read first.
   src/deepseek-harness/.agents/notes/implemented/bug-fix/2026-08-17-subagent-report-settlement-ordering.md:1
   says "Subagent reports precede their settlement notices".
20. `AcceptedLeave` (`SubagentTree`; `FairSpec`, a live setup with `{"fail"}`, A at work), `subagent/subagent/src/continuation.ts:1110`.
   A failed turn leaves its driver (core/agent-loop/src/agent.ts:315) with the
   accepted message behind it parked: it leaves the inbox by neither way and
   its Activation never settles. subagent/subagent/src/continuation.ts:1110
   says "Every accepted id leaves the inbox exactly once, through dequeue or
   discard."
21. `EndClosesAgents` (`WorkflowRun`; 2 slots, `{"stray"}`), `workflow/workflow-worker-thread/src/host.ts:504`.
   A result that arrives while an announced agent is open settles the run:
   workflow/end goes out first and the agent's end after it.
   workflow/workflow/src/invariant.ts:53 fails such a run: "workflow/end has N
   agent call(s) without workflow/agent-end".
22. `NothingAfterEnd` (`WorkflowRun`; 1 slot, `MaxNotes` 1, no features), `workflow/workflow-worker-thread/src/host.ts:290`.
   After the grace has settled a cancelled run its thread is not known dead,
   and a queued AgentStart is still announced, after workflow/end.
   workflow/workflow/src/invariant.ts:32 fails it: "workflow event has no
   matching workflow/start for run".
23. `AckedReadable` (`SessionFile`; `{"rollback"}`, 2 events, 2 faults), `session/session-persistence-jsonl/src/index.ts:670`.
   When the rollback of a broken append fails too, the fragment stays; the
   cursor is unchanged, the retry appends behind it and is acknowledged, and
   the log no longer reads. session/session-persistence-jsonl/src/index.ts:648
   says "leaving partial bytes would create duplicate sequence numbers", and
   session/session-persistence-jsonl/README.md:44 "a caught write or sync
   failure rolls the file back to its prior byte length".
24. `RetryGetsThrough` (`SessionFile`; `FairSpec`, `{"directory"}`, 2 events, 1 fault), `session/session-persistence-jsonl/src/index.ts:560`.
   When the directory's sync fails after the link, the append is rejected
   although the log is published: every retry is refused by
   rejectExistingLog() until the process restarts.
   session/session-persistence/README.md:36 says "A background failure is
   logged once, retains the ordered batch" and that an "explicit flush or
   backend teardown retries immediately", and :54 that materializing is
   ATOMIC.
25. `MarketCanUninstall` (`SkillMarket`; 1 name, 1 version, 1 stop), `src/plugins/dsh-skill-market/src/market.ts:120`.
   The marker is written after the copy: an install cut short between leaves
   the market's skill without it, and uninstall() refuses it as not managed.
   src/plugins/dsh-skill-market/README.md:11 says "卸载：仅允许卸载由市场安装的技能（有来源标记）"
   (what the market installed, which carries its mark, can be uninstalled).
26. `ReadyIsShipped` (`Provisioning`; `MaxVersion` 3, no rollbacks, `Prints` as in `desktop`), `src/dsh-z-gui/app/main/backend.js:211`.
   The fingerprint leaves out a plugin's assets and models (lines 95-97, on
   purpose, to save a scan) and every file of a skill but SKILL.md (211-213): a
   release that changes only such files is not copied, and the backend starts on
   an earlier release's. src/dsh-z-gui/app/main/backend.js:247 says the market is
   refreshed to stay consistent with the source ("保持与源码一致").
27. `WindowAlwaysBack` (`DesktopShell`; `Fairness`, 1 renderer failure), `src/dsh-z-gui/app/main/index.js:31`.
   reopenWindow() tries once, catches a failing createWindow() and logs it; the
   application stays up without a window, and `activate` and `second-instance`
   only focus one that exists. src/dsh-z-gui/app/main/index.js:70 says that
   after a renderer failure the window is rebuilt automatically ("自动重建窗口").

How severe they are is for the code's owners to say.  Some need a second failure
(a rollback that fails, a directory sync after a rename), some a rare
composition ("outer"), and of number 3 `core/agent-loop/src/index.ts:502-504`
says that a send after a disposal is the sender's bug.

## 6. Plan

1. Composition: `AgentLoop` with `ToolCalls` and `RequestRecovery` inside its
   steps, for a teardown that meets tools at work; `SubagentTree` over the real
   inbox.
2. Proofs: the rest of what is only model-checked (section 4).
3. The coordinator's adoption of a live prefix after a module reload and its
   own teardown; the gateway's other streams; the inbox replay as a fold checked
   against the operations of `AgentLoop`; the splitting of text in the memory
   plugin against a reference definition.
4. The SQLite backend as a second implementation of what `WriteBehind` assumes.
