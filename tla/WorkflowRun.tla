----------------------------- MODULE WorkflowRun -----------------------------
(****************************************************************************)
(* One run of a workflow script: the host's side (WorkerRun, host.ts), the  *)
(* worker thread that executes the script (session.ts, runtime.ts), and the *)
(* two message channels between them.  Each agent() call of the script takes*)
(* a concurrency slot, asks the host for a child agent, waits for its       *)
(* result, has it disposed and gives the slot back.  The run settles once:  *)
(* by the worker's Result, by the thread's death, or by the grace timer of  *)
(* a cancellation.                                                          *)
(*                                                                          *)
(* One message is handled at a time on each side, with every microtask it   *)
(* releases: the awaits inside agent() resume before the next message.      *)
(****************************************************************************)
EXTENDS Naturals, Sequences, FiniteSets

CONSTANTS
  Calls,   \* the agent() calls a script may make, by their callId
  Setups   \* the limits of a run, and what may happen to it

Disturbances == {"stray",  \* the script may end with calls outstanding
                 "crash"}  \* the thread may die by itself

ASSUME CallsAssumption == IsFiniteSet(Calls) /\ Calls # {}
ASSUME SetupsAssumption ==
  \A s \in Setups : s.slots \in Nat \ {0} /\ s.notes \in Nat /\ s.features \subseteq Disturbances

VARIABLES
  setup,       \* the setup of this run
  \* the host
  cancelled,   \* cancelReason is set
  claimed,     \* terminalClaimed
  death,       \* workerDeathObserved
  gone,        \* workerGone: the exit event was seen
  grace,       \* the cancellation's timer: "off" or "armed"
  result,      \* the settled result, or NoResult
  accepted,    \* hostStarted
  child,       \* per call, what became of its child
  acks,        \* calls whose dispose RPC is not answered yet
  ledger,      \* liveAgents
  disposal,    \* the dispose() transaction
  \* the worker
  thread,      \* "up" or "dead"
  fault,       \* the thread died by itself and its error event is pending
  stopping,    \* worker.terminate() was called
  script,      \* "gated", "running" or "done"
  told,        \* the worker processed the Cancel message
  call,        \* per call, where its agent() stands
  waiters,     \* slotWaiters
  reported,    \* calls whose child's result was forwarded
  notes,       \* phase()/log() calls made
  \* the channels
  toHost, toWorker,
  \* observed by the workflow/* listeners
  ended,       \* how often each call's agent-end was emitted
  late         \* events emitted after workflow/end

host == <<cancelled, claimed, death, gone, grace, result, accepted, child, acks, ledger, disposal>>
worker == <<thread, fault, stopping, script, told, call, waiters, reported, notes>>
vars == <<setup, host, worker, toHost, toWorker, ended, late>>

MaxConcurrent == setup.slots  \* limits.maxConcurrentAgents
MaxNotes == setup.notes       \* bound: phase()/log() calls of a script
Features == setup.features

NoResult == [reason |-> "none", started |-> 0, seen |-> 0, open |-> 0]
Msg(type, c) == [type |-> type, call |-> c]
NoCall == "no call"

ChildStates == {"none", "starting", "refused", "live", "disposing", "gone"}
CallStates == {"none", "queued", "starting", "running", "disposing", "ended"}
Reasons == {"completed", "error", "cancelled"}

Settled == result.reason # "none"

(* Calls whose agent-start was emitted. *)
Announced == ledger \cup {c \in Calls : ended[c] > 0}

Init ==
  /\ setup \in Setups
  /\ cancelled = FALSE /\ claimed = FALSE /\ death = FALSE /\ gone = FALSE
  /\ grace = "off" /\ result = NoResult /\ accepted = 0
  /\ child = [c \in Calls |-> "none"] /\ acks = {} /\ ledger = {}
  /\ disposal = "none"
  /\ thread = "up" /\ fault = FALSE /\ stopping = FALSE
  /\ script = "gated" /\ told = FALSE
  /\ call = [c \in Calls |-> "none"] /\ waiters = <<>>
  /\ reported = {} /\ notes = 0
  /\ toHost = <<Msg("Ready", NoCall)>> /\ toWorker = <<>>
  /\ ended = [c \in Calls |-> 0] /\ late = {}

-----------------------------------------------------------------------------
(* The worker: runtime.ts and session.ts.                                   *)

Holding == {c \in Calls : call[c] \in {"starting", "running", "disposing"}}

WorkerUnchanged == UNCHANGED <<host, thread, fault, stopping, ended, late>>

(* The end of agent(): the slot is released, and its oldest waiter, whose   *)
(* look at the cancellation follows in the same turn, asks for its child.   *)
ReleaseSlot(c) ==
  IF waiters = <<>>
  THEN /\ call' = [call EXCEPT ![c] = "ended"]
       /\ UNCHANGED <<waiters, toHost>>
  ELSE /\ call' = [call EXCEPT ![c] = "ended", ![Head(waiters)] = "starting"]
       /\ toHost' = Append(toHost, Msg("ChildStart", Head(waiters)))
       /\ waiters' = Tail(waiters)

(* The script calls agent(): refused once the cancellation is known.        *)
CallAgent(c) ==
  /\ thread = "up"
  /\ script = "running" \/ (script = "done" /\ "stray" \in Features)
  /\ ~told
  /\ call[c] = "none"
  /\ IF Cardinality(Holding) < MaxConcurrent
     THEN /\ call' = [call EXCEPT ![c] = "starting"]
          /\ toHost' = Append(toHost, Msg("ChildStart", c))
          /\ UNCHANGED waiters
     ELSE /\ call' = [call EXCEPT ![c] = "queued"]
          /\ waiters' = Append(waiters, c)
          /\ UNCHANGED toHost
  /\ UNCHANGED <<script, told, reported, notes, toWorker>>
  /\ WorkerUnchanged

(* The script calls phase() or log(). *)
Narrate ==
  /\ thread = "up"
  /\ script = "running" \/ (script = "done" /\ "stray" \in Features)
  /\ ~told
  /\ notes < MaxNotes
  /\ notes' = notes + 1
  /\ toHost' = Append(toHost, Msg("Note", NoCall))
  /\ UNCHANGED <<script, told, call, waiters, reported, toWorker>>
  /\ WorkerUnchanged

(* The script settles; after a known cancellation drive() says cancelled,   *)
(* whatever the script made of it.                                          *)
Drive(r, isCancelled) ==
  [type |-> "Result", call |-> NoCall,
   result |-> [reason |-> IF isCancelled THEN "cancelled" ELSE r,
               started |-> Cardinality({c \in Calls : call[c] # "none"})]]

ScriptEnds(r) ==
  /\ thread = "up" /\ script = "running"
  /\ "stray" \in Features \/ \A c \in Calls : call[c] \in {"none", "ended"}
  /\ script' = "done"
  /\ toHost' = Append(toHost, Drive(r, told))
  /\ UNCHANGED <<told, call, waiters, reported, notes, toWorker>>
  /\ WorkerUnchanged

(* The handler of the session's port, one message at a time.                *)
WorkerReceives ==
  /\ thread = "up" /\ toWorker # <<>>
  /\ toWorker' = Tail(toWorker)
  /\ UNCHANGED <<reported, notes>>
  /\ WorkerUnchanged
  /\ LET m == Head(toWorker)
         c == m.call IN
     \/ /\ m.type = "Go"
        /\ script' = IF script = "gated" THEN "running" ELSE script
        /\ UNCHANGED <<told, call, waiters, toHost>>
     \/ /\ m.type = "Cancel"
        /\ told' = TRUE
        /\ call' = [x \in Calls |-> IF call[x] = "queued" THEN "ended" ELSE call[x]]
        /\ waiters' = <<>>
        /\ IF script = "gated"
           THEN /\ script' = "done"
                /\ toHost' = Append(toHost, Drive("cancelled", TRUE))
           ELSE UNCHANGED <<script, toHost>>
     \/ /\ m.type = "ChildStarted"
        /\ IF told
           THEN /\ call' = [call EXCEPT ![c] = "disposing"]
                /\ toHost' = Append(toHost, Msg("ChildDispose", c))
           ELSE /\ call' = [call EXCEPT ![c] = "running"]
                /\ toHost' = Append(toHost, Msg("AgentStart", c))
        /\ UNCHANGED <<script, told, waiters>>
     \/ /\ m.type = "ChildStartError"
        /\ ReleaseSlot(c)
        /\ UNCHANGED <<script, told>>
     \/ /\ m.type = "ChildSettled"
        /\ IF call[c] = "running"
           THEN /\ call' = [call EXCEPT ![c] = "disposing"]
                /\ toHost' = toHost \o <<Msg("AgentEnd", c), Msg("ChildDispose", c)>>
           ELSE UNCHANGED <<call, toHost>>
        /\ UNCHANGED <<script, told, waiters>>
     \/ /\ m.type = "ChildDisposed"
        /\ ReleaseSlot(c)
        /\ UNCHANGED <<script, told>>

(* The thread dies by itself: an uncaught error, which is reported by an    *)
(* error event before the exit, or a bare exit.                             *)
Crash ==
  /\ thread = "up" /\ "crash" \in Features
  /\ thread' = "dead"
  /\ fault' \in BOOLEAN
  /\ UNCHANGED <<host, stopping, script, told, call, waiters, reported, notes,
                 toHost, toWorker, ended, late>>

(* worker.terminate() takes effect. *)
Terminated ==
  /\ thread = "up" /\ stopping
  /\ thread' = "dead"
  /\ UNCHANGED <<host, fault, stopping, script, told, call, waiters, reported, notes,
                 toHost, toWorker, ended, late>>

-----------------------------------------------------------------------------
(* The host: host.ts.                                                       *)

Post(ms) == toWorker' = IF gone \/ death THEN toWorker ELSE toWorker \o ms

(* The run settles, and workflow/end goes out.  seen and open record what   *)
(* the listeners know of the agents by then.                                *)
Settle(reason, started, stranded) ==
  /\ result' = [reason |-> reason, started |-> started,
                seen |-> Cardinality(Announced), open |-> Cardinality(ledger \ stranded)]
  /\ grace' = "off"

(* endAgent(): an end is emitted only while its start is still in the       *)
(* ledger.                                                                  *)
Unpaired(cs) == cs \cap ledger
EndAgents(cs) ==
  /\ ended' = [c \in Calls |-> IF c \in Unpaired(cs) THEN ended[c] + 1 ELSE ended[c]]
  /\ ledger' = ledger \ cs

Late(kinds) == late' = IF Settled THEN late \cup kinds ELSE late

(* reapChildren(): every published child's disposal is started or joined.   *)
Reaped == [c \in Calls |-> IF child[c] = "live" THEN "disposing" ELSE child[c]]

(* childAdmissionFailure() is undefined. *)
Admitting == ~cancelled /\ ~death /\ ~claimed

(* Calls whose provider start or whose child is not over.                   *)
Unsettled == {c \in Calls : child[c] \notin {"none", "gone"}}

(* cancel(), of a handle or of the caller's signal. *)
AcceptsCancel == ~Settled /\ ~claimed /\ ~cancelled
CancelEffects ==
  /\ cancelled' = TRUE
  /\ Post(<<Msg("Cancel", NoCall)>>)
  /\ grace' = "armed"

Cancel ==
  /\ AcceptsCancel
  /\ CancelEffects
  /\ UNCHANGED <<claimed, death, gone, result, accepted, child, acks, ledger, disposal,
                 worker, toHost, ended, late>>

(* The grace is over: the run is settled without the worker. *)
GraceExpires ==
  /\ grace = "armed"
  /\ claimed' = TRUE
  /\ EndAgents(ledger)
  /\ Settle("cancelled", accepted, ledger)
  /\ stopping' = TRUE
  /\ UNCHANGED <<cancelled, death, gone, accepted, child, acks, disposal,
                 thread, fault, script, told, call, waiters, reported, notes,
                 toHost, toWorker, late>>

(* dispose(): cancel, start the children's disposal, and wait.              *)
Dispose ==
  /\ disposal = "none"
  /\ disposal' = "waiting"
  /\ IF AcceptsCancel THEN CancelEffects ELSE UNCHANGED <<cancelled, grace, toWorker>>
  /\ child' = Reaped
  /\ UNCHANGED <<claimed, death, gone, result, accepted, acks, ledger,
                 worker, toHost, ended, late>>

WaitIsOverBug(slept) == Settled /\ Unsettled = {}  \* without the sleep

(* The wait ends with the result and quiet children, or with the sleep.     *)
WaitIsOver(slept) == slept \/ (Settled /\ Unsettled = {})
DisposeTerminates(slept) ==
  /\ disposal = "waiting"
  /\ WaitIsOver(slept)
  /\ disposal' = "terminating"
  /\ stopping' = TRUE
  /\ UNCHANGED <<cancelled, claimed, death, gone, grace, result, accepted, child, acks, ledger,
                 thread, fault, script, told, call, waiters, reported, notes,
                 toHost, toWorker, ended, late>>

(* terminate() resolves with the exit; a last reap follows. *)
DisposeReturns ==
  /\ disposal = "terminating" /\ gone
  /\ disposal' = "done"
  /\ child' = Reaped
  /\ UNCHANGED <<cancelled, claimed, death, gone, grace, result, accepted, acks, ledger,
                 worker, toHost, toWorker, ended, late>>

-----------------------------------------------------------------------------
(* onMessage(): what arrives after the first sign of death is dropped.      *)

Barred == death

OnReady ==
  /\ Post(<<Msg("Go", NoCall)>>)
  /\ UNCHANGED <<host, ended, late>>

OnNote ==
  /\ IF cancelled THEN UNCHANGED late ELSE Late({"note"})
  /\ UNCHANGED <<host, toWorker, ended>>

OnAgentStart(c) ==
  /\ ledger' = ledger \cup {c}
  /\ Late({"agent-start"})
  /\ UNCHANGED <<cancelled, claimed, death, gone, grace, result, accepted, child, acks,
                 disposal, toWorker, ended>>

OnAgentEnd(c) ==
  /\ EndAgents({c})
  /\ IF Unpaired({c}) = {} THEN UNCHANGED late ELSE Late({"agent-end"})
  /\ UNCHANGED <<cancelled, claimed, death, gone, grace, result, accepted, child, acks,
                 disposal, toWorker>>

OnChildStart(c) ==
  /\ IF Admitting
     THEN /\ accepted' = accepted + 1
          /\ child' = [child EXCEPT ![c] = "starting"]
          /\ UNCHANGED toWorker
     ELSE /\ Post(<<Msg("ChildStartError", c)>>)
          /\ UNCHANGED <<accepted, child>>
  /\ UNCHANGED <<cancelled, claimed, death, gone, grace, result, acks, ledger, disposal,
                 ended, late>>

OnChildDisposeBug(c) ==  \* acknowledged before the disposal ends
  /\ Post(<<Msg("ChildDisposed", c)>>)
  /\ child' = IF child[c] = "gone" THEN child ELSE [child EXCEPT ![c] = "disposing"]
  /\ UNCHANGED <<cancelled, claimed, death, gone, grace, result, accepted, acks, ledger,
                 disposal, ended, late>>

(* A child that is gone already is acknowledged at once, another when its   *)
(* disposal ends.                                                           *)
OnChildDispose(c) ==
  /\ IF child[c] = "gone"
     THEN Post(<<Msg("ChildDisposed", c)>>) /\ UNCHANGED <<child, acks>>
     ELSE /\ child' = [child EXCEPT ![c] = "disposing"]
          /\ acks' = acks \cup {c}
          /\ UNCHANGED toWorker
  /\ UNCHANGED <<cancelled, claimed, death, gone, grace, result, accepted, ledger, disposal,
                 ended, late>>

(* The first terminal source wins; a cancellation accepted before it        *)
(* overrides what the script made of the run.                               *)
Outcome(r) == IF cancelled THEN "cancelled" ELSE r
OnResult(r) ==
  /\ IF claimed
     THEN UNCHANGED <<claimed, child, result, grace>>
     ELSE /\ claimed' = TRUE
          /\ child' = Reaped
          /\ Settle(Outcome(r.reason), r.started, {})
  /\ UNCHANGED <<cancelled, death, gone, accepted, acks, ledger, disposal, toWorker,
                 ended, late>>

HostReceives ==
  /\ toHost # <<>> /\ ~gone
  /\ toHost' = Tail(toHost)
  /\ UNCHANGED worker
  /\ LET m == Head(toHost)
         c == m.call IN
     \/ Barred /\ UNCHANGED <<host, toWorker, ended, late>>
     \/ ~Barred /\ m.type = "Ready" /\ OnReady
     \/ ~Barred /\ m.type = "Note" /\ OnNote
     \/ ~Barred /\ m.type = "AgentStart" /\ OnAgentStart(c)
     \/ ~Barred /\ m.type = "AgentEnd" /\ OnAgentEnd(c)
     \/ ~Barred /\ m.type = "ChildStart" /\ OnChildStart(c)
     \/ ~Barred /\ m.type = "ChildDispose" /\ OnChildDispose(c)
     \/ ~Barred /\ m.type = "Result" /\ OnResult(m.result)

(* onWorkerDeath(): the first sign of death claims the outcome if nothing   *)
(* else has, reaps the children and closes the stranded agents.             *)
FirstDeath ==
  /\ death' = TRUE
  /\ claimed' = TRUE
  /\ child' = Reaped
  /\ EndAgents(ledger)
  /\ IF ledger = {} THEN UNCHANGED late ELSE Late({"agent-end"})
  /\ IF claimed
     THEN UNCHANGED <<result, grace>>
     ELSE Settle(Outcome("error"), accepted, ledger)

ErrorEvent ==
  /\ thread = "dead" /\ fault
  /\ fault' = FALSE
  /\ IF death THEN UNCHANGED <<death, claimed, child, ledger, ended, result, grace, late>>
     ELSE FirstDeath
  /\ UNCHANGED <<cancelled, gone, accepted, acks, disposal, thread, stopping, script, told,
                 call, waiters, reported, notes, toHost, toWorker>>

(* The exit event: messages not delivered by then are lost.  A later exit   *)
(* only sweeps.                                                             *)
ExitEvent ==
  /\ thread = "dead" /\ ~fault /\ ~gone
  /\ gone' = TRUE
  /\ toHost' = <<>>
  /\ IF death
     THEN /\ child' = Reaped
          /\ EndAgents(ledger)
          /\ IF ledger = {} THEN UNCHANGED late ELSE Late({"agent-end"})
          /\ UNCHANGED <<death, claimed, result, grace>>
     ELSE FirstDeath
  /\ UNCHANGED <<cancelled, accepted, acks, disposal, worker, toWorker>>

-----------------------------------------------------------------------------
(* The subagent provider, as startChild() and disposeChild() meet it.       *)

ProviderUnchanged ==
  UNCHANGED <<cancelled, claimed, death, gone, grace, result, accepted, ledger, disposal,
              thread, fault, stopping, script, told, call, waiters, notes, toHost, ended, late>>

(* A start is refused if the run closed its admission meanwhile: its child  *)
(* is disposed and never published.                                         *)
StartFulfils(c) ==
  /\ child[c] = "starting"
  /\ IF Admitting
     THEN /\ child' = [child EXCEPT ![c] = "live"]
          /\ Post(<<Msg("ChildStarted", c)>>)
     ELSE /\ child' = [child EXCEPT ![c] = "refused"]
          /\ Post(<<Msg("ChildStartError", c)>>)
  /\ UNCHANGED <<acks, reported>>
  /\ ProviderUnchanged

StartRejects(c) ==
  /\ child[c] = "starting"
  /\ child' = [child EXCEPT ![c] = "gone"]
  /\ Post(<<Msg("ChildStartError", c)>>)
  /\ UNCHANGED <<acks, reported>>
  /\ ProviderUnchanged

(* A published child's run settles, well or not. *)
ChildSettles(c) ==
  /\ child[c] \in {"live", "disposing"} /\ c \notin reported
  /\ reported' = reported \cup {c}
  /\ Post(<<Msg("ChildSettled", c)>>)
  /\ UNCHANGED <<child, acks>>
  /\ ProviderUnchanged

ChildDisposed(c) ==
  /\ child[c] = "refused" \/ (child[c] = "disposing" /\ c \in reported)
  /\ child' = [child EXCEPT ![c] = "gone"]
  /\ IF c \in acks THEN Post(<<Msg("ChildDisposed", c)>>) ELSE UNCHANGED toWorker
  /\ acks' = acks \ {c}
  /\ UNCHANGED reported
  /\ ProviderUnchanged

(* Everything is over. *)
Rest ==
  /\ disposal = "done" /\ Unsettled = {}
  /\ UNCHANGED vars

Fixed == UNCHANGED setup

WorkerStep ==
  \/ \E c \in Calls : CallAgent(c)
  \/ Narrate
  \/ \E r \in {"completed", "error"} : ScriptEnds(r)
  \/ WorkerReceives
HostStep == HostReceives \/ ErrorEvent \/ ExitEvent \/ GraceExpires
ProviderStep(c) == StartFulfils(c) \/ StartRejects(c) \/ ChildSettles(c) \/ ChildDisposed(c)
DisposeStep == DisposeReturns \/ \E slept \in BOOLEAN : DisposeTerminates(slept)

Steps ==
  \/ WorkerStep \/ Crash \/ Terminated
  \/ HostStep \/ Cancel \/ Dispose \/ DisposeStep
  \/ \E c \in Calls : ProviderStep(c)
  \/ Rest

Next == Fixed /\ Steps

Spec == Init /\ [][Next]_vars

-----------------------------------------------------------------------------
(* Fairness.  The host's own events: queued messages, timers, the thread's  *)
(* exit.  Nothing is asked of the script or of the providers.               *)
HostFairness ==
  /\ WF_vars(Fixed /\ HostStep) /\ WF_vars(Fixed /\ Terminated)
  /\ WF_vars(Fixed /\ DisposeReturns) /\ WF_vars(Fixed /\ DisposeTerminates(TRUE))

(* The worker's port is served and every provider transaction ends.         *)
Fairness ==
  /\ HostFairness
  /\ WF_vars(Fixed /\ WorkerReceives)
  /\ \A c \in Calls : WF_vars(Fixed /\ (StartFulfils(c) \/ StartRejects(c)))
                      /\ WF_vars(Fixed /\ ChildSettles(c)) /\ WF_vars(Fixed /\ ChildDisposed(c))

FairSpec == Spec /\ Fairness

-----------------------------------------------------------------------------
(* Every variable stays in its domain. *)
TypeOK ==
  /\ {cancelled, claimed, death, gone, fault, stopping, told} \subseteq BOOLEAN
  /\ grace \in {"off", "armed"} /\ disposal \in {"none", "waiting", "terminating", "done"}
  /\ result \in [reason : Reasons \cup {"none"}, started : 0..Cardinality(Calls),
                 seen : 0..Cardinality(Calls), open : 0..Cardinality(Calls)]
  /\ accepted \in 0..Cardinality(Calls)
  /\ child \in [Calls -> ChildStates] /\ call \in [Calls -> CallStates]
  /\ acks \subseteq Calls /\ ledger \subseteq Calls /\ reported \subseteq Calls
  /\ thread \in {"up", "dead"} /\ script \in {"gated", "running", "done"}
  /\ \A i \in DOMAIN waiters : waiters[i] \in Calls
  /\ notes \in 0..MaxNotes
  /\ ended \in [Calls -> 0..Cardinality(Calls)]
  /\ late \subseteq {"note", "agent-start", "agent-end"}

(* The agents of a run are announced and closed in pairs on every path: no  *)
(* end is emitted twice, by the worker's report and by the host's own, and  *)
(* after the exit none is left open (endAgent, endStrandedAgents).          *)
AgentsPaired ==
  /\ \A c \in Calls : ended[c] <= 1
  /\ \A c \in ledger : ended[c] = 0
  /\ gone => ledger = {}

(* The children the run really has, from the request to the provider to the *)
(* end of the disposal, are never more than the script's slots: the worker  *)
(* gives a slot back on the host's acknowledgement only.  A cancelled or    *)
(* settled run asks for no more children, so that its slots do not matter.  *)
ConcurrencyRespected ==
  Admitting => Cardinality(Unsettled) <= MaxConcurrent

(* Once dispose() has returned no child runs unattended: each is over or    *)
(* being disposed, even one whose start was still under way when the wait   *)
(* was given up (startChild's second look, the last reap).                  *)
NothingUnattended ==
  disposal = "done" => \A c \in Calls : child[c] # "live"

(* The count a result reports covers every agent that was announced by then,*)
(* also where the host had to settle the run without the worker.            *)
CountCovers == Settled => result.seen <= result.started

(* A cancellation that was accepted is never answered with completed or     *)
(* error: the script may settle while the cancel crosses the boundary, the  *)
(* thread may die, the host still says cancelled; and without one it never  *)
(* says cancelled.                                                          *)
CancelDecides == Settled => (cancelled <=> result.reason = "cancelled")

(* What has been settled stays, and after the first sign of death nothing   *)
(* the thread had sent starts a child or announces an agent.                *)
DeathIsBarrier ==
  [][death => /\ result' = result
              /\ Announced' = Announced
              /\ accepted' = accepted]_vars

(* workflow/end finds every announced agent closed (the invariant companion *)
(* of the workflow package fails the run otherwise).                        *)
EndClosesAgents == Settled => result.open = 0

(* workflow/end is the last event of a run (the companion finds no run for  *)
(* a later one).                                                            *)
NothingAfterEnd == late = {}

(* A cancelled run settles, and so does one whose thread died, whatever the *)
(* script and the providers do.                                             *)
ResultSettles == (cancelled \/ thread = "dead") ~> Settled

(* dispose() returns, and the thread is gone by then. *)
DisposeEnds == (disposal # "none") ~> (disposal = "done" /\ thread = "dead")

(* Every agent() call of a living worker ends: its start is answered, its   *)
(* child's result arrives, its disposal is acknowledged, whoever disposed   *)
(* the child.                                                               *)
CallsEnd ==
  \A c \in Calls : (call[c] # "none") ~> (call[c] = "ended" \/ thread = "dead")

(* A settled run gets rid of all its children by itself, those a script     *)
(* left running and those still starting included.                          *)
LeftoversEnd == Settled ~> (Unsettled = {})

(* What any order of messages, deaths, cancellations and disposals keeps:   *)
(* agents in pairs, children within the slots across the thread boundary, a *)
(* count that covers the announced, a cancellation that decides, and no     *)
(* child unattended behind dispose().                                       *)
RunHolds ==
  /\ TypeOK /\ AgentsPaired /\ ConcurrencyRespected
  /\ NothingUnattended /\ CountCovers /\ CancelDecides
=============================================================================
