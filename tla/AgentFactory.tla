------------------------------ MODULE AgentFactory ------------------------------
(***************************************************************************)
(* The agent factory: creating and resuming agents under one session id,   *)
(* and taking them down.  An attempt loads its session, runs a setup the   *)
(* factory cannot interrupt, and publishes the agent in two registries; it *)
(* is owned by its caller's fiber, by the factory and by the holder of the *)
(* handle, and each of them may end it at any point of its life.           *)
(***************************************************************************)
EXTENDS Naturals, FiniteSets

CONSTANTS Attempts,  \* the create, resume and configured starts
          Owners,    \* the fibers of their callers
          OwnerOf,   \* attempt -> its owner, or Loop for a configured one
          Kind,      \* attempt -> create, resume, configured
          Loop,      \* the factory's own fiber
          None       \* no attempt

(* Assumed by the modules that instantiate this one. *)
AgentFactoryAssumption ==
  /\ None \notin Attempts /\ Loop \notin Owners
  /\ Kind \in [Attempts -> {"create", "resume", "configured"}]
  /\ OwnerOf \in [Attempts -> Owners \cup {Loop}]
  /\ \A a \in Attempts : OwnerOf[a] = Loop <=> Kind[a] = "configured"

VARIABLES
  pc,        \* new, draining, released, loading, loaded, listing, setup,
             \* unwinding, published, rejected
  prep,      \* the session preparation: none, held, released
  late,      \* attempts that gave up on a load that still runs
  aborted,   \* attempts whose creation signal is aborted
  tracked,   \* attempts whose teardown the factory knows (liveAgents)
  followed,  \* attempts whose teardown their owner knows
  disp,      \* the memoized teardown: no, drain, scope, done
  busy,      \* agents with an activity under way
  agents,    \* the agent registry's entry for the id
  sessions,  \* the session store's entry for the id
  stored,    \* a log of the session exists
  owner,     \* owner -> active, unloading, gone
  joins,     \* owner -> the teardowns its unload awaits
  factory,   \* active, unloading, gone
  waits      \* the attempts the factory's unload awaits

registry == <<agents, sessions, stored>>
fibers == <<owner, joins, factory, waits>>
tears == <<tracked, followed, disp>>
vars == <<pc, prep, late, aborted, tears, busy, registry, fibers>>

Init ==
  /\ pc = [a \in Attempts |-> "new"] /\ prep = [a \in Attempts |-> "none"]
  /\ late = {} /\ aborted = {} /\ tracked = {} /\ followed = {}
  /\ disp = [a \in Attempts |-> "no"] /\ busy = {}
  /\ agents = None /\ sessions = None /\ stored \in BOOLEAN
  /\ owner = [o \in Owners |-> "active"] /\ joins = [o \in Owners |-> {}]
  /\ factory = "active" /\ waits = {}

--------------------------------------------------------------------------------
(* Plausible bugs: each is a mutated form of the definition it is named after *)

WrappersBug == {}                                \* continuations are not awaited
WokenBug(gone) == {}                             \* nobody hears of the release

--------------------------------------------------------------------------------
Goes(a, to) == pc' = [pc EXCEPT ![a] = to]
Holds(a, what) == prep' = [prep EXCEPT ![a] = what]

(* The fiber that owns the attempt takes on no new work. *)
OwnerActive(a) == OwnerOf[a] \in Owners => owner[OwnerOf[a]] = "active"

(* What is checked again after the load. *)
Owned(a) == OwnerActive(a) /\ factory = "active"

(* A public continuation of the attempt is under way. *)
Running == {a \in Attempts : pc[a] \notin {"new", "published", "rejected"}}

(* Teardowns of a set begin, once each: the signal is aborted, the machine *)
(* cancelled, and its activity drained.                                    *)
Begin(set) ==
  /\ disp' = [a \in Attempts |-> IF a \in set /\ disp[a] = "no" THEN "drain" ELSE disp[a]]
  /\ aborted' = aborted \cup set

(* prepare(): the teardown is known to both owners before there is anything *)
(* to tear down.                                                            *)
Prepare(a) == tracked' = tracked \cup {a} /\ followed' = followed \cup {a}

(* The signal the setup was raced against is not aborted. *)
Publishable(a) == a \notin aborted

(* publish(): the session, then the agent enter their registries and are     *)
(* announced; a listener may throw or end the creation, and a taken id is    *)
(* refused.                                                                  *)
Publish(a, failed) ==
  IF sessions # None
    THEN /\ Begin({a}) /\ Goes(a, failed) /\ UNCHANGED <<prep, registry>>
    ELSE /\ sessions' = a /\ agents' = a
         /\ \/ /\ Goes(a, "published") /\ Holds(a, "released")
               /\ stored' \in {stored, TRUE} /\ UNCHANGED <<disp, aborted>>
            \/ Begin({a}) /\ Goes(a, failed) /\ UNCHANGED <<prep, stored>>

--------------------------------------------------------------------------------
(* Creating and resuming *)

(* A caller starts an attempt. *)
Call(a) ==
  /\ pc[a] = "new" /\ Owned(a)
  /\ CASE Kind[a] = "create" ->
            IF sessions # None
              THEN Goes(a, "rejected") /\ UNCHANGED <<prep, tracked, followed>>
              ELSE Goes(a, "setup") /\ Holds(a, "held") /\ Prepare(a)
       [] Kind[a] = "resume" -> Goes(a, "loading") /\ UNCHANGED <<prep, tracked, followed>>
       [] Kind[a] = "configured" ->
            /\ Goes(a, IF agents = None /\ sessions = None THEN "released" ELSE "draining")
            /\ UNCHANGED <<prep, tracked, followed>>
  /\ UNCHANGED <<late, aborted, disp, busy, registry, fibers>>

(* A configured start that waited for the id goes on, or is dropped. *)
Resumes(a) ==
  /\ \/ pc[a] = "released"
     \/ pc[a] = "draining" /\ factory # "active"
  /\ Goes(a, IF factory = "active" THEN "loading" ELSE "rejected")
  /\ UNCHANGED <<prep, late, aborted, tears, busy, registry, fibers>>

(* The load is raced against the caller's signal, its owner and the factory. *)
LoadAbort(a) == a \in aborted \/ ~Owned(a)

(* The backend delivers: one preparation of a stored session at a time, and *)
(* none of a live one.                                                      *)
LoadOk(a) ==
  /\ pc[a] = "loading" /\ ~LoadAbort(a) /\ stored /\ sessions = None
  /\ \A b \in Attempts : Kind[b] # "create" => prep[b] # "held"
  /\ Goes(a, "loaded") /\ Holds(a, "held")
  /\ UNCHANGED <<late, aborted, tears, busy, registry, fibers>>

(* It fails, or there is nothing to load. *)
LoadFails(a) ==
  /\ pc[a] = "loading" /\ ~LoadAbort(a)
  /\ Goes(a, IF Kind[a] = "configured" THEN "listing" ELSE "rejected")
  /\ UNCHANGED <<prep, late, aborted, tears, busy, registry, fibers>>

(* The caller is not kept waiting by a load nobody needs any more. *)
LoadAborted(a) ==
  /\ pc[a] = "loading" /\ LoadAbort(a)
  /\ Goes(a, "rejected")
  /\ late' = late \cup {a}
  /\ UNCHANGED <<prep, aborted, tears, busy, registry, fibers>>

(* What happens to a preparation that comes after all. *)
Abandoned(a) == [prep EXCEPT ![a] = "released"]

LateLoad(a) ==
  /\ a \in late /\ late' = late \ {a}
  /\ prep' \in {prep, Abandoned(a)}
  /\ UNCHANGED <<pc, aborted, tears, busy, registry, fibers>>

(* After the load: both owners and the caller's signal are looked at again. *)
Loaded(a) ==
  /\ pc[a] = "loaded"
  /\ IF Owned(a) /\ a \notin aborted
       THEN Goes(a, "setup") /\ Prepare(a) /\ UNCHANGED prep
       ELSE Goes(a, "rejected") /\ Holds(a, "released") /\ UNCHANGED <<tracked, followed>>
  /\ UNCHANGED <<late, aborted, disp, busy, registry, fibers>>

(* A configured start that found no log creates the session, synchronously. *)
Listed(a) ==
  /\ pc[a] = "listing"
  /\ IF stored \/ sessions # None \/ factory # "active"
       THEN Goes(a, "rejected") /\ UNCHANGED <<prep, aborted, tears, registry>>
       ELSE Prepare(a) /\ Publish(a, "rejected")
  /\ UNCHANGED <<late, busy, fibers>>

(* The setup ends, fails, or is no longer waited for. *)
SetupOk(a) ==
  /\ pc[a] = "setup" /\ Publishable(a)
  /\ Publish(a, "unwinding")
  /\ UNCHANGED <<late, tracked, followed, busy, fibers>>

SetupFails(a) ==
  /\ pc[a] = "setup" /\ Begin({a}) /\ Goes(a, "unwinding")
  /\ UNCHANGED <<prep, late, tracked, followed, busy, registry, fibers>>

SetupAborted(a) == a \in aborted /\ SetupFails(a)

(* The rollback the rejection waits for is complete. *)
Unwound(a) == disp[a] = "done"

Rejects(a) ==
  /\ pc[a] = "unwinding" /\ Unwound(a)
  /\ Goes(a, "rejected") /\ Holds(a, "released")
  /\ UNCHANGED <<late, aborted, tears, busy, registry, fibers>>

(* The caller's signal counts until the attempt is published. *)
CallerAborts(a) ==
  /\ a \in Running \ aborted /\ Kind[a] # "configured"
  /\ aborted' = aborted \cup {a}
  /\ UNCHANGED <<pc, prep, late, tears, busy, registry, fibers>>

--------------------------------------------------------------------------------
(* Teardown *)

Works(a) ==
  /\ pc[a] = "published" /\ disp[a] = "no" /\ a \notin busy
  /\ busy' = busy \cup {a}
  /\ UNCHANGED <<pc, prep, late, aborted, tears, registry, fibers>>

WorkEnds(a) ==
  /\ a \in busy /\ busy' = busy \ {a}
  /\ UNCHANGED <<pc, prep, late, aborted, tears, registry, fibers>>

(* The holder of the handle disposes it. *)
HandleDisposes(a) ==
  /\ pc[a] = "published" /\ disp[a] = "no" /\ Kind[a] # "configured"
  /\ Begin({a})
  /\ UNCHANGED <<pc, prep, late, tracked, followed, busy, registry, fibers>>

(* The machine is idle: its scope unwinds. *)
Drains(a) ==
  /\ disp[a] = "drain" /\ a \notin busy
  /\ disp' = [disp EXCEPT ![a] = "scope"]
  /\ UNCHANGED <<pc, prep, late, aborted, tracked, followed, busy, registry, fibers>>

(* An entry leaves by the detach of exactly its own attempt. *)
Detached(a, entry) == IF entry = a THEN None ELSE entry

(* The configured starts that hear the id is free. *)
Woken(gone) == {a \in Attempts : pc[a] = "draining" /\ gone}

Unwinds(a) ==
  /\ disp[a] = "scope" /\ disp' = [disp EXCEPT ![a] = "done"]
  /\ agents' = Detached(a, agents) /\ sessions' = Detached(a, sessions)
  /\ tracked' = tracked \ {a} /\ followed' = followed \ {a}
  /\ pc' = [b \in Attempts |->
              IF b \in Woken(sessions = a /\ sessions' = None) THEN "released" ELSE pc[b]]
  /\ UNCHANGED <<prep, late, aborted, busy, stored, fibers>>

(* The owner's effect starts the teardown, unless it has begun already. *)
Joinable(a) == disp[a] = "no"

OwnerUnloads(o) ==
  /\ owner[o] = "active" /\ owner' = [owner EXCEPT ![o] = "unloading"]
  /\ LET own == {a \in followed : OwnerOf[a] = o /\ Joinable(a)}
     IN Begin(own) /\ joins' = [joins EXCEPT ![o] = own]
  /\ UNCHANGED <<pc, prep, late, tracked, followed, busy, registry, factory, waits>>

OwnerUnloaded(o) ==
  /\ owner[o] = "unloading" /\ \A a \in joins[o] : disp[a] = "done"
  /\ owner' = [owner EXCEPT ![o] = "gone"]
  /\ UNCHANGED <<pc, prep, late, aborted, tears, busy, registry, joins, factory, waits>>

(* The continuations the factory's unload waits for. *)
Wrappers == Running

FactoryUnloads ==
  /\ factory = "active" /\ factory' = "unloading"
  /\ Begin(tracked) /\ waits' = tracked \cup Wrappers
  /\ UNCHANGED <<pc, prep, late, tracked, followed, busy, registry, owner, joins>>

FactoryUnloaded ==
  /\ factory = "unloading"
  /\ \A a \in waits : disp[a] \in {"no", "done"} /\ a \notin Wrappers
  /\ factory' = "gone"
  /\ UNCHANGED <<pc, prep, late, aborted, tears, busy, registry, owner, joins, waits>>

--------------------------------------------------------------------------------
Continues(a) ==
  \/ Resumes(a) \/ LoadAborted(a) \/ Loaded(a) \/ Listed(a) \/ SetupAborted(a) \/ Rejects(a)
  \/ WorkEnds(a) \/ Drains(a) \/ Unwinds(a)

Next ==
  \/ \E a \in Attempts :
       \/ Call(a) \/ LoadOk(a) \/ LoadFails(a) \/ LateLoad(a) \/ SetupOk(a) \/ SetupFails(a)
       \/ CallerAborts(a) \/ Works(a) \/ HandleDisposes(a) \/ Continues(a)
  \/ \E o \in Owners : OwnerUnloads(o) \/ OwnerUnloaded(o)
  \/ FactoryUnloads \/ FactoryUnloaded

Spec == Init /\ [][Next]_vars

(* What was awaited goes on, activities and scopes end; backends and setups *)
(* may never answer.                                                        *)
Fairness ==
  /\ \A a \in Attempts : WF_vars(Continues(a))
  /\ \A o \in Owners : WF_vars(OwnerUnloaded(o))
  /\ WF_vars(FactoryUnloaded)

FairSpec == Spec /\ Fairness

--------------------------------------------------------------------------------
(* Properties *)

TypeOK ==
  /\ pc \in [Attempts -> {"new", "draining", "released", "loading", "loaded", "listing",
                          "setup", "unwinding", "published", "rejected"}]
  /\ prep \in [Attempts -> {"none", "held", "released"}]
  /\ UNION {late, aborted, tracked, followed, busy, waits} \subseteq Attempts
  /\ disp \in [Attempts -> {"no", "drain", "scope", "done"}]
  /\ {agents, sessions} \subseteq Attempts \cup {None} /\ stored \in BOOLEAN
  /\ owner \in [Owners -> {"active", "unloading", "gone"}]
  /\ joins \in [Owners -> SUBSET Attempts] /\ factory \in {"active", "unloading", "gone"}
  /\ \A a \in busy : agents = a

(* An agent and its session are registered together, and no agent that still *)
(* lives, or still unwinds, has lost its place to another of the same id.    *)
PlaceIsHeld ==
  /\ agents = sessions
  /\ \A a \in Attempts : pc[a] = "published" /\ disp[a] # "done" => agents = a

(* No agent outlives the fiber that asked for it unless its teardown runs, and *)
(* a teardown the owner started itself is over when the owner is.              *)
NoOrphan ==
  \A a \in Attempts : OwnerOf[a] \in Owners /\ owner[OwnerOf[a]] = "gone" =>
    /\ a \in tracked => disp[a] # "no"
    /\ a \in joins[OwnerOf[a]] => disp[a] = "done" /\ agents # a

(* When the factory's unload is over no continuation can publish, and nothing *)
(* it made is registered, works, or holds a session.                          *)
NothingAfterFactory ==
  factory = "gone" =>
    /\ Running = {} /\ agents = None /\ sessions = None /\ busy = {} /\ tracked = {}
    /\ \A a \in Attempts : prep[a] # "held"

(* A rejected create or resume has left nothing behind: its agent is torn down *)
(* and its id and its preparation can be taken again.                          *)
RejectedLeavesNothing ==
  \A a \in Attempts : pc[a] = "rejected" /\ Kind[a] # "configured" =>
    prep[a] # "held" /\ disp[a] \in {"no", "done"} /\ sessions # a

(* Nobody is published on a signal that was aborted before. *)
AbortedIsNotPublished ==
  [][\A a \in Attempts : (a \in aborted /\ pc'[a] = "published") => pc[a] = "published"]_vars

(* However it ends, the unload of an owner awaits the one teardown its agents *)
(* have.                                                                      *)
OwnerJoins ==
  \A a \in Attempts :
    OwnerOf[a] \in Owners /\ owner[OwnerOf[a]] = "gone" => disp[a] \in {"no", "done"}

(* Unloads end although backends and setups may never answer. *)
UnloadsEnd ==
  /\ factory = "unloading" ~> factory = "gone"
  /\ \A o \in Owners : owner[o] = "unloading" ~> owner[o] = "gone"

(* A configured start that waits for an id in teardown gets to go on. *)
DrainEnds ==
  \A a \in Attempts :
    (pc[a] = "draining" /\ \E b \in Attempts : sessions = b /\ disp[b] # "no") ~> pc[a] # "draining"

(* What any order of starts, aborts and unloads keeps. *)
FactorySafe ==
  /\ TypeOK /\ PlaceIsHeld /\ NoOrphan /\ NothingAfterFactory /\ RejectedLeavesNothing
================================================================================
