------------------------------ MODULE JobRegistry ------------------------------
(***************************************************************************)
(* The in-memory registry of background jobs (LocalJobRegistry).  A job    *)
(* settles once, by its producer or by a teardown whose cancel threw.      *)
(* Callers kill, read and wait; agents and the service itself are disposed *)
(* while producers are still stopping.  A settled job is announced to the  *)
(* completion reporters, which stay quiet about one already reported.      *)
(***************************************************************************)
EXTENDS Naturals, FiniteSets

CONSTANTS Jobs,     \* jobs, each started at most once
          Agents,   \* owners
          NoOwner,  \* the owner of an unowned job
          Waits,    \* wait() calls, each made at most once
          Limit     \* maxConcurrentJobsPerOwner

(* Assumed by the modules that instantiate this one. *)
RegistryAssumption == Limit \in Nat \ {0} /\ NoOwner \notin Agents

VARIABLES
  status,     \* job.status, or "absent" before start()
  owner,      \* job.owner
  store,      \* jobs in the store
  reported,   \* jobs whose terminal record is marked reported
  produced,   \* jobs whose producer promise has settled
  phase,      \* where a wait() stands
  target,     \* the job it waits for
  counted,    \* waits counted in job.waiters
  scope,      \* each agent, and the service under NoOwner: live, disposing or gone
  closing,    \* the jobs whose settlement its teardown awaits
  closed,     \* listenersClosed
  announced,  \* observed by the properties: times onJobDone listeners heard of a job,
  claimed,    \* jobs reported by a kill, a read or a teardown,
  sawEnd      \* and waits that returned a terminal snapshot

jobVars   == <<status, owner, store, reported, produced>>
waitVars  == <<phase, target, counted>>
scopeVars == <<scope, closing, closed>>
vars == <<jobVars, waitVars, scopeVars, announced, claimed, sawEnd>>

Service   == NoOwner
Owners    == Agents \union {NoOwner}
Outcomes  == {"completed", "killed", "failed"}
Over(job) == status[job] \in Outcomes
Live(job) == status[job] \in {"running", "stopping"}

Init ==
  /\ status = [job \in Jobs |-> "absent"] /\ owner = [job \in Jobs |-> NoOwner]
  /\ store = {} /\ reported = {} /\ produced = {}
  /\ phase = [wait \in Waits |-> "unused"] /\ target \in [Waits -> Jobs] /\ counted = {}
  /\ scope = [o \in Owners |-> "live"] /\ closing = [o \in Owners |-> {}] /\ closed = FALSE
  /\ announced = [job \in Jobs |-> 0] /\ claimed = {} /\ sawEnd = {}

--------------------------------------------------------------------------------
(* A plausible bug: a mutated form of the definition it is named after. *)

AbortUncountsBug(wait) == counted                           \* uncounted by the finally only

--------------------------------------------------------------------------------
(* Helpers *)

(* settle() records only the first terminal outcome. *)
Unsettled(job) == ~Over(job)

(* Waits counted after one is aborted: it leaves at once. *)
AbortUncounts(wait) == counted \ {wait}

(* Jobs holding a place in an owner's bucket. *)
Active(o) == {job \in store : owner[job] = o /\ Live(job)}

(* Jobs a teardown settles itself, because their cancel threw. *)
ForceFailed(throwers) == throwers

(* What a disposal awaits before it drops its records. *)
Awaits(o) == closing[o]

(* settle() of a set of jobs, on top of what the caller has already written. *)
Settle(jobs, outcome, status0, reported0) ==
  /\ status' = [job \in Jobs |-> IF job \in jobs THEN outcome ELSE status0[job]]
  /\ reported' = reported0 \union {job \in jobs : \E wait \in counted : target[wait] = job}
  /\ phase' = [wait \in Waits |->
                 IF phase[wait] = "waiting" /\ target[wait] \in jobs THEN "resolved"
                 ELSE phase[wait]]
  /\ announced' = [job \in Jobs |->
                     IF job \in jobs /\ ~closed THEN announced[job] + 1 ELSE announced[job]]

--------------------------------------------------------------------------------
(* Producers *)

(* start(), by an owner whose scope still accepts the cleanup effect. *)
Start(job, o) ==
  /\ status[job] = "absent"
  /\ scope[o] = "live" /\ scope[Service] = "live"
  /\ Cardinality(Active(o)) < Limit
  /\ status' = [status EXCEPT ![job] = "running"]
  /\ owner' = [owner EXCEPT ![job] = o]
  /\ store' = store \union {job}
  /\ UNCHANGED <<reported, produced, waitVars, scopeVars, announced, claimed, sawEnd>>

(* The producer's done promise settles, at the latest after a cancel. *)
ProducerSettles(job, outcome) ==
  /\ status[job] # "absent" /\ job \notin produced
  /\ produced' = produced \union {job}
  /\ IF Unsettled(job)
     THEN Settle({job}, outcome, status, reported)
     ELSE UNCHANGED <<status, reported, phase, announced>>
  /\ UNCHANGED <<owner, store, target, counted, scopeVars, claimed, sawEnd>>

--------------------------------------------------------------------------------
(* Callers *)

(* kill(): the producer's cancel returned, or the job was over already. *)
Kill(job) ==
  /\ job \in store
  /\ status' = [status EXCEPT ![job] = IF Over(job) THEN @ ELSE "stopping"]
  /\ reported' = reported \union {job}
  /\ claimed' = claimed \union {job}
  /\ UNCHANGED <<owner, store, produced, waitVars, scopeVars, announced, sawEnd>>

(* read() of a terminal job; a read of a live one changes nothing here. *)
Read(job) ==
  /\ job \in store /\ Over(job)
  /\ reported' = reported \union {job}
  /\ claimed' = claimed \union {job}
  /\ UNCHANGED <<status, owner, store, produced, waitVars, scopeVars, announced, sawEnd>>

(* wait(): return a terminal snapshot at once, or start waiting. *)
Wait(wait) ==
  LET job == target[wait]
  IN /\ phase[wait] = "unused"
     /\ job \in store
     /\ IF Over(job)
        THEN /\ phase' = [phase EXCEPT ![wait] = "returned"]
             /\ reported' = reported \union {job}
             /\ sawEnd' = sawEnd \union {wait}
             /\ UNCHANGED counted
        ELSE /\ phase' = [phase EXCEPT ![wait] = "waiting"]
             /\ counted' = counted \union {wait}
             /\ UNCHANGED <<reported, sawEnd>>
     /\ UNCHANGED <<status, owner, store, produced, target, scopeVars, announced, claimed>>

(* The deadline of a wait fires: it is resolved, but resumes only later. *)
WaitTimeout(wait) ==
  /\ phase[wait] = "waiting"
  /\ phase' = [phase EXCEPT ![wait] = "resolved"]
  /\ UNCHANGED <<jobVars, target, counted, scopeVars, announced, claimed, sawEnd>>

(* The caller's signal aborts a wait: it is rejected. *)
WaitAbort(wait) ==
  /\ phase[wait] = "waiting"
  /\ phase' = [phase EXCEPT ![wait] = "rejected"]
  /\ counted' = AbortUncounts(wait)
  /\ UNCHANGED <<jobVars, target, scopeVars, announced, claimed, sawEnd>>

(* A wait resumes: throw, or return the job as it is by now. *)
WaitResumes(wait) ==
  /\ phase[wait] \in {"resolved", "rejected"}
  /\ counted' = counted \ {wait}
  /\ IF phase[wait] = "rejected"
     THEN phase' = [phase EXCEPT ![wait] = "thrown"] /\ UNCHANGED <<reported, sawEnd>>
     ELSE /\ phase' = [phase EXCEPT ![wait] = "returned"]
          /\ reported' = IF Over(target[wait]) THEN reported \union {target[wait]}
                         ELSE reported
          /\ sawEnd' = IF Over(target[wait]) THEN sawEnd \union {wait} ELSE sawEnd
  /\ UNCHANGED <<status, owner, store, produced, target, scopeVars, announced, claimed>>

--------------------------------------------------------------------------------
(* Teardown *)

Covers(o, job) == job \in store /\ (o = Service \/ owner[job] = o)

(* disposeOwned(o), or disposeAll for the service, up to its await: every live *)
(* job is marked reported and cancelled; throwers are those whose cancel threw. *)
Dispose(o, throwers) ==
  LET covered   == {job \in Jobs : Covers(o, job)}
      cancelled == {job \in covered : ~Over(job)}
  IN /\ scope[o] = "live" /\ scope[Service] # "gone"
     /\ throwers \subseteq cancelled
     /\ closed' = (closed \/ o = Service)
     /\ Settle(ForceFailed(throwers), "failed",
               [job \in Jobs |-> IF job \in cancelled \ throwers THEN "stopping" ELSE status[job]],
               reported \union cancelled)
     /\ claimed' = claimed \union cancelled
     /\ scope' = [scope EXCEPT ![o] = "disposing"]
     /\ closing' = [closing EXCEPT ![o] = covered]
     /\ UNCHANGED <<owner, store, produced, target, counted, sawEnd>>

(* Every awaited job is terminal: the records are dropped. *)
Disposed(o) ==
  /\ scope[o] = "disposing"
  /\ \A job \in Awaits(o) : Over(job)
  /\ scope' = [scope EXCEPT ![o] = "gone"]
  /\ store' = IF o = Service THEN {} ELSE store \ closing[o]
  /\ UNCHANGED <<status, owner, reported, produced, waitVars, closing, closed, announced, claimed,
                 sawEnd>>

--------------------------------------------------------------------------------
ProducerStops(job) ==
  status[job] = "stopping" /\ \E outcome \in Outcomes : ProducerSettles(job, outcome)

Next ==
  \/ \E job \in Jobs : Kill(job) \/ Read(job)
  \/ \E job \in Jobs, o \in Owners : Start(job, o)
  \/ \E job \in Jobs, outcome \in Outcomes : ProducerSettles(job, outcome)
  \/ \E wait \in Waits : Wait(wait) \/ WaitTimeout(wait) \/ WaitAbort(wait) \/ WaitResumes(wait)
  \/ \E o \in Owners, throwers \in SUBSET Jobs : Dispose(o, throwers)
  \/ \E o \in Owners : Disposed(o)

Spec == Init /\ [][Next]_vars

(* A producer whose cancel returned stops; awaits resume; waits have deadlines. *)
Fairness ==
  /\ \A job \in Jobs : WF_vars(ProducerStops(job))
  /\ \A wait \in Waits : WF_vars(WaitResumes(wait)) /\ WF_vars(WaitTimeout(wait))
  /\ \A o \in Owners : WF_vars(Disposed(o))

FairSpec == Spec /\ Fairness

--------------------------------------------------------------------------------
(* Properties *)

TypeOK ==
  /\ status \in [Jobs -> {"absent", "running", "stopping"} \union Outcomes]
  /\ owner \in [Jobs -> Owners]
  /\ store \subseteq Jobs /\ reported \subseteq Jobs /\ produced \subseteq Jobs
  /\ claimed \subseteq Jobs
  /\ phase \in [Waits -> {"unused", "waiting", "resolved", "rejected", "returned", "thrown"}]
  /\ target \in [Waits -> Jobs] /\ counted \subseteq Waits /\ sawEnd \subseteq Waits
  /\ \A wait \in counted : phase[wait] \in {"waiting", "resolved"}
  /\ scope \in [Owners -> {"live", "disposing", "gone"}]
  /\ closing \in [Owners -> SUBSET Jobs] /\ closed \in BOOLEAN
  /\ announced \in [Jobs -> Nat]

(* Settlement is first-wins: no later producer outcome, kill or teardown *)
(* overwrites a terminal status.                                         *)
FirstOutcomeWins ==
  [][\A job \in Jobs : Over(job) => status'[job] = status[job]]_vars

(* Completion is announced once, unless the service had closed its listeners. *)
AnnouncedOnce ==
  \A job \in Jobs :
    announced[job] <= 1 /\ (Over(job) /\ announced[job] = 0 => closed)

(* No notice is swallowed: a settled job is marked reported only if a kill, a  *)
(* read or a teardown claimed it, or a wait has returned or will return its   *)
(* terminal snapshot.  A wait that times out or aborts meanwhile claims none. *)
NoticeNotSwallowed ==
  \A job \in reported :
    \/ job \in claimed
    \/ \E wait \in Waits : target[wait] = job /\ (phase[wait] = "resolved" \/ wait \in sawEnd)

(* An owner never has more unfinished jobs than its limit: one that was asked *)
(* to stop keeps its place until its producer has released it.               *)
LimitRespected ==
  \A o \in Owners : Cardinality({job \in store : owner[job] = o /\ Live(job)}) <= Limit

(* A disposed agent, and a disposed service, leave no unfinished job behind. *)
DisposedLeavesNothing ==
  \A o \in Owners : scope[o] = "gone" =>
    \A job \in Jobs : (o = Service \/ owner[job] = o) => ~Live(job) /\ job \notin store

(* A teardown ends although the producer of a cancel that threw never does. *)
TeardownEnds == \A o \in Owners : scope[o] = "disposing" ~> scope[o] = "gone"

(* What any order of settlements, waits, kills and teardowns keeps. *)
JobsSafe ==
  /\ TypeOK /\ AnnouncedOnce /\ NoticeNotSwallowed /\ LimitRespected /\ DisposedLeavesNothing
================================================================================
