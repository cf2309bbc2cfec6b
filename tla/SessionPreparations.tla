-------------------------- MODULE SessionPreparations --------------------------
(***************************************************************************)
(* One stored session seen by the persistence coordinator and its pool of  *)
(* prepared sessions: openers that prepare, load or inspect it share cold  *)
(* reads and reserve them one at a time; appends, repairs and revision     *)
(* checks run on the session's serial chain; a published session writes    *)
(* its tail and is retired; another process may write to the log.          *)
(*                                                                         *)
(* The log is the number of changes made to it: its length, to which       *)
(* cursors count, and its revision.  A cold read and a chain task that is  *)
(* done touches nothing between two awaits that another task could see.    *)
(***************************************************************************)
EXTENDS Naturals, Sequences, FiniteSets

CONSTANTS Openers,   \* calls of prepare, load and inspect
          Setups     \* what the openers of a run may ask for, and its bounds on
                     \* writes (public appends and batches of live sessions) and
                     \* faults (foreign writes, failing calls, evictions)

None == "none"
NoSource == [read |-> 0, open |-> FALSE]

PreparationsBounds ==
  /\ None \notin Openers
  /\ \A s \in Setups : /\ s.kinds \subseteq {"prepare", "load", "inspect"}
                       /\ s.writes \in Nat /\ s.faults \in Nat

VARIABLES
  setup,    \* the setup of this run
  stored,   \* changes made to the durable log
  open,     \* its last turn is open or its tail is torn: a cold load repairs it
  broken,   \* an accepted append did not continue the log: it cannot be read again
  entry,    \* the pool's entry: its identity (0 for none), its phase and what it read
  chain,    \* the session's serial chain, the first task running or about to
  running,  \* the first task has passed its checks and awaits the backend
  state,    \* the coordinator's state: tracked or not, cursor, owner
  live,     \* the opener whose session is in ctx.sessions
  tail,     \* the live (or retiring) session has events that are not stored
  retiring, \* the opener whose disposed session is being retired
  kind,     \* what each opener asks for
  call,     \* where each opener stands, the entry it joined and what that one read
  foreign,  \* observed: another process has written since the cursor was set
  writes, faults \* so far, for the bounds

log == <<stored, open, broken>>
tasks == <<chain, running>>
session == <<live, tail, retiring>>
bounds == <<writes, faults>>
vars == <<setup, log, entry, tasks, state, session, kind, call, foreign, bounds>>

Task(k, who) == [kind |-> k, who |-> who]
Entry(g, phase, src) == [gen |-> g, phase |-> phase, src |-> src]
NoEntry == Entry(0, "none", NoSource)
Untracked == [tracked |-> FALSE, cursor |-> 0, owner |-> None]
Call(pc, g, src, asked) == [pc |-> pc, gen |-> g, src |-> src, asked |-> asked]
Finished == {"answered", "failed"}
Generations == 1..(Cardinality(Openers) + 1)

Kinds == setup.kinds   \* the kinds of calls that are made

Init ==
  /\ setup \in Setups
  /\ stored = 1 /\ open \in BOOLEAN /\ broken = FALSE
  /\ entry = NoEntry
  /\ chain = <<>> /\ running = FALSE
  /\ state = Untracked
  /\ live = None /\ tail = FALSE /\ retiring = None
  /\ kind \in [Openers -> Kinds]
  /\ call = [o \in Openers |-> Call("start", 0, NoSource, 0)]
  /\ foreign = FALSE
  /\ writes = 0 /\ faults = 0

--------------------------------------------------------------------------------
(* Plausible bugs: each is a mutated form of the definition it is named after *)

WokenBug(calls, g) == calls                   \* an entry is removed without waking
StillCurrentBug(src) == TRUE                  \* the revision is not compared
CanReserveBug == entry.phase \in {"ready", "reserved"}

--------------------------------------------------------------------------------
(* Helpers *)

Goes(o, pc) == [call EXCEPT ![o].pc = pc]
Leaves(o, pc) ==   \* o is answered or starts again
  [call EXCEPT ![o] = Call(pc, 0, NoSource, IF pc = "start" THEN @.asked ELSE 0)]

(* settleReservation: the openers that wait for entry g look again. *)
Woken(calls, g) ==
  [o \in Openers |-> IF calls[o].pc = "queued" /\ calls[o].gen = g
                     THEN [calls[o] EXCEPT !.pc = "recheck"] ELSE calls[o]]

(* remove and makeReady, for an entry that may no longer be the pool's. *)
Remove(g) == entry' = IF entry.gen = g THEN NoEntry ELSE entry
MakeReady(g, src) == entry' = IF entry.gen = g THEN Entry(g, "ready", src) ELSE entry

(* isPreparedSourceCurrent *)
StillCurrent(src) == src.read = stored

(* assertWritable *)
Writable == entry.phase \notin {"committing", "reserved"}

CanReserve == entry.phase = "ready"

(* No session, live or with events still to be stored, owns the log. *)
Unowned == state.owner = None

(* What retirement leaves of the coordinator's state. *)
Forgotten == IF state.owner = retiring THEN Untracked ELSE state

Enqueued(task) == chain' = Append(chain, task)
Head1 == Head(chain)
Immediate == {"load", "retire"}   \* tasks whose start nothing else can tell from their end
Runs(k) == chain # <<>> /\ Head1.kind = k /\ (running \/ k \in Immediate)
TaskEnds == chain' = Tail(chain) /\ running' = FALSE
Fails == faults < setup.faults /\ faults' = faults + 1

--------------------------------------------------------------------------------
(* Openers: the loops of prepare, load and inspect *)

(* waitForRetirement, when there is something to wait for. *)
AwaitRetirement(o) ==
  /\ call[o].pc = "start" /\ retiring # None
  /\ call' = [call EXCEPT ![o].pc = "retirement"]
  /\ UNCHANGED <<log, entry, tasks, state, session, kind, foreign, bounds>>

(* A live session answers for itself; prepare refuses it. *)
MeetLive(o) ==
  /\ call[o].pc = "start" /\ retiring = None /\ live # None
  /\ call' = Leaves(o, IF kind[o] = "prepare" THEN "failed" ELSE "answered")
  /\ UNCHANGED <<log, entry, tasks, state, session, kind, foreign, bounds>>

(* An identity that no entry, opener or read has. *)
NewEntry(g) ==
  /\ g \in Generations \ {call[o].gen : o \in Openers}
  /\ \A i \in DOMAIN chain : chain[i] # Task("load", g)
  /\ \A h \in 1..(g - 1) :
       \/ h \in {call[o].gen : o \in Openers}
       \/ \E i \in DOMAIN chain : chain[i] = Task("load", h)

(* entryFor: share the pool's entry or start a cold read. *)
Join(o) ==
  /\ call[o].pc = "start" /\ retiring = None /\ live = None
  /\ LET asked == IF call[o].asked = 0 /\ kind[o] = "load" THEN stored ELSE call[o].asked
     IN \/ /\ entry.gen # 0
           /\ call' = [call EXCEPT ![o] =
                Call(IF entry.phase = "loading" THEN "waiting" ELSE "recheck", entry.gen, entry.src, asked)]
           /\ UNCHANGED <<entry, chain>>
        \/ /\ entry.gen = 0
           /\ \E g \in Generations :
                /\ NewEntry(g)
                /\ entry' = Entry(g, "loading", NoSource)
                /\ Enqueued(Task("load", g))
                /\ call' = [call EXCEPT ![o] = Call("waiting", g, NoSource, asked)]
  /\ UNCHANGED <<log, running, state, session, kind, foreign, bounds>>

(* reserve, once the source is read or a reservation has settled. *)
Reserve(o) ==
  /\ call[o].pc = "recheck" /\ kind[o] # "inspect"
  /\ \/ /\ entry.gen # call[o].gen
        /\ call' = Leaves(o, "start") /\ UNCHANGED <<entry, chain>>
     \/ /\ entry.gen = call[o].gen /\ ~CanReserve
        /\ call' = Goes(o, "queued") /\ UNCHANGED <<entry, chain>>
     \/ /\ entry.gen = call[o].gen /\ CanReserve
        /\ entry' = [entry EXCEPT !.phase = "committing"]
        /\ Enqueued(Task("commit", o))
        /\ call' = Goes(o, "committing")
  /\ UNCHANGED <<log, running, state, session, kind, foreign, bounds>>

(* inspect goes on to the revision check. *)
Check(o) ==
  /\ call[o].pc = "recheck" /\ kind[o] = "inspect"
  /\ IF live # None
     THEN call' = Leaves(o, "answered") /\ UNCHANGED chain
     ELSE call' = Goes(o, "checking") /\ Enqueued(Task("check", o))
  /\ UNCHANGED <<log, entry, running, state, session, kind, foreign, bounds>>

(* The caller's signal fires; work it shares, and a task that has begun, go on. *)
Abort(o) ==
  /\ kind[o] # "load"
  /\ call[o].pc \in {"start", "retirement", "waiting", "recheck", "queued", "committing",
                    "checking"}
  /\ ~(running /\ Head1.who = o)
  /\ IF call[o].pc = "committing"
     THEN /\ Remove(call[o].gen)
          /\ call' = Woken(Leaves(o, "failed"), call[o].gen)
     ELSE UNCHANGED entry /\ call' = Leaves(o, "failed")
  /\ UNCHANGED <<log, tasks, state, session, kind, foreign, bounds>>

--------------------------------------------------------------------------------
(* The chain *)

(* A task starts; one whose caller has gone, or that may not write, is over. *)
Begin ==
  /\ chain # <<>> /\ ~running
  /\ \/ /\ Head1.kind \in {"append", "write"} /\ ~Writable
        /\ chain' = Tail(chain) /\ UNCHANGED running
     \/ /\ Head1.kind \in {"commit", "check"} /\ call[Head1.who].pc \in Finished
        /\ chain' = Tail(chain) /\ UNCHANGED running
     \/ /\ Head1.kind \notin Immediate
        /\ Head1.kind \in {"append", "write"} => Writable
        /\ Head1.kind \in {"commit", "check"} => call[Head1.who].pc \notin Finished
        /\ running' = TRUE /\ UNCHANGED chain
  /\ UNCHANGED <<log, entry, state, session, kind, call, foreign, bounds>>

(* prepareCore: what it read is shared by all who wait for it. *)
LoadEnds ==
  /\ Runs("load") /\ ~broken
  /\ LET g == Head1.who
         src == [read |-> stored, open |-> open]
     IN /\ MakeReady(g, src)
        /\ call' = [o \in Openers |-> IF call[o].pc = "waiting" /\ call[o].gen = g
                                      THEN Call("recheck", g, src, call[o].asked) ELSE call[o]]
  /\ TaskEnds
  /\ UNCHANGED <<log, state, session, kind, foreign, bounds>>

LoadFails ==
  /\ Runs("load")
  /\ IF broken THEN UNCHANGED faults ELSE Fails
  /\ LET g == Head1.who
     IN /\ Remove(g)
        /\ call' = [o \in Openers |-> IF call[o].pc = "waiting" /\ call[o].gen = g
                                      THEN Call("failed", 0, NoSource, 0) ELSE call[o]]
  /\ TaskEnds
  /\ UNCHANGED <<log, state, session, kind, foreign, writes>>

(* commitPrepared, up to the revision check it awaits. *)
CommitRefused(fails) ==
  /\ Runs("commit")
  /\ LET o == Head1.who
         g == call[o].gen
     IN /\ \/ fails /\ Fails
           \/ ~fails /\ ~Unowned /\ UNCHANGED faults
        /\ Remove(g) /\ call' = Woken(Leaves(o, "failed"), g)
  /\ TaskEnds
  /\ UNCHANGED <<log, state, session, kind, foreign, writes>>

(* The source is stale, or the log is repaired: the opener starts again. *)
CommitRestarts ==
  /\ Runs("commit") /\ Unowned
  /\ LET o == Head1.who
         g == call[o].gen
     IN /\ IF StillCurrent(call[o].src)
           THEN call[o].src.open /\ stored' = stored + 1 /\ open' = FALSE
           ELSE UNCHANGED <<stored, open>>
        /\ Remove(g) /\ call' = Woken(Leaves(o, "start"), g)
  /\ TaskEnds
  /\ UNCHANGED <<broken, state, session, kind, foreign, bounds>>

(* The cursor is set.  load needs no more; prepare owns the reservation, unless *)
(* its signal has fired meanwhile: then the source is there for the next one.    *)
CommitEnds(aborted) ==
  /\ Runs("commit") /\ Unowned
  /\ LET o == Head1.who
         g == call[o].gen
         src == call[o].src
     IN /\ StillCurrent(src) /\ ~src.open
        /\ state' = [tracked |-> TRUE, cursor |-> src.read, owner |-> None]
        /\ \/ /\ aborted /\ kind[o] = "prepare"
              /\ MakeReady(g, src) /\ call' = Woken(Leaves(o, "failed"), g)
           \/ /\ ~aborted /\ entry.gen # g
              /\ UNCHANGED entry /\ call' = Leaves(o, "start")
           \/ /\ ~aborted /\ entry.gen = g /\ kind[o] = "prepare"
              /\ entry' = Entry(g, "reserved", src) /\ call' = Goes(o, "holding")
           \/ /\ ~aborted /\ entry.gen = g /\ kind[o] = "load"
              /\ Remove(g) /\ call' = Woken(Leaves(o, "answered"), g)
  /\ foreign' = FALSE
  /\ TaskEnds
  /\ UNCHANGED <<log, session, kind, bounds>>

(* inspect: a current source answers, a reserved one may be borrowed. *)
CheckEnds ==
  /\ Runs("check")
  /\ LET o == Head1.who
         g == call[o].gen
         stale == ~StillCurrent(call[o].src) /\ live = None
     IN \/ /\ ~stale \/ (entry.gen = g /\ entry.phase # "ready")
           /\ call' = Leaves(o, "answered") /\ UNCHANGED entry
        \/ /\ stale /\ (entry.gen = g => entry.phase = "ready")
           /\ call' = Leaves(o, "start") /\ Remove(g)
  /\ TaskEnds
  /\ UNCHANGED <<log, state, session, kind, foreign, bounds>>

--------------------------------------------------------------------------------
(* Appends *)

(* append: a caller of the service stores the next event. *)
PublicAppend ==
  /\ writes < setup.writes /\ writes' = writes + 1
  /\ state.owner = None
  /\ Enqueued(Task("append", None))
  /\ UNCHANGED <<log, entry, running, state, session, kind, call, foreign, faults>>

(* adopt: an untracked log is repaired, then its cursor is set. *)
Adopt ==
  /\ Runs("append") /\ ~state.tracked /\ ~broken
  /\ LET src == entry.src
         taken == entry.phase = "ready"
     IN /\ IF taken THEN entry' = NoEntry ELSE UNCHANGED entry
        /\ \/ /\ taken /\ ~StillCurrent(src)
              /\ UNCHANGED <<stored, open, state, foreign>>
           \/ /\ (taken => StillCurrent(src)) /\ open
              /\ stored' = stored + 1 /\ open' = FALSE /\ UNCHANGED <<state, foreign>>
           \/ /\ (taken => StillCurrent(src)) /\ ~open
              /\ state' = [tracked |-> TRUE, cursor |-> stored, owner |-> None]
              /\ foreign' = FALSE /\ UNCHANGED <<stored, open>>
  /\ UNCHANGED <<broken, tasks, session, kind, call, bounds>>

(* appendBatch and the cursor; the event carries the cursor as its number. *)
Stores(opens) ==
  /\ broken' = (broken \/ state.cursor # stored)
  /\ stored' = stored + 1 /\ open' = opens
  /\ state' = [state EXCEPT !.cursor = @ + 1]
  /\ entry' = NoEntry
  /\ call' = Woken(call, entry.gen)

AppendEnds(opens) ==
  /\ Runs("append") /\ state.tracked
  /\ Stores(opens)
  /\ TaskEnds
  /\ UNCHANGED <<session, kind, foreign, bounds>>

(* The backend refuses, or the caller's event is not the next one. *)
AppendFails ==
  /\ Runs("append")
  /\ IF broken /\ ~state.tracked THEN UNCHANGED faults ELSE Fails
  /\ TaskEnds
  /\ UNCHANGED <<log, entry, state, session, kind, call, foreign, writes>>

WriteEnds(opens) ==
  /\ Runs("write") /\ state.tracked
  /\ Stores(opens) /\ tail' = FALSE
  /\ TaskEnds
  /\ UNCHANGED <<live, retiring, kind, foreign, bounds>>

WriteFails ==
  /\ Runs("write") /\ Fails
  /\ TaskEnds
  /\ UNCHANGED <<log, entry, state, session, kind, call, foreign, writes>>

--------------------------------------------------------------------------------
(* Publication, the live session and its retirement *)

(* session/created: attachPrepared.  A session may have grown before it. *)
Publish(o, grown) ==
  /\ call[o].pc = "holding"
  /\ entry.gen = call[o].gen /\ entry.phase = "reserved"
  /\ state.owner = None /\ state.cursor = entry.src.read
  /\ entry' = NoEntry /\ call' = Woken(Leaves(o, "answered"), call[o].gen)
  /\ state' = [state EXCEPT !.owner = o]
  /\ live' = o /\ tail' = grown
  /\ IF grown THEN writes < setup.writes /\ writes' = writes + 1 /\ Enqueued(Task("write", o))
              ELSE UNCHANGED <<writes, chain>>
  /\ UNCHANGED <<log, running, retiring, kind, foreign, faults>>

(* The preparation is disposed unpublished; a session that changed is not kept. *)
Release(o, reusable) ==
  /\ call[o].pc = "holding"
  /\ IF reusable THEN MakeReady(call[o].gen, call[o].src) ELSE Remove(call[o].gen)
  /\ call' = Woken(Leaves(o, "answered"), call[o].gen)
  /\ UNCHANGED <<log, tasks, state, session, kind, foreign, bounds>>

(* The live session emits an event; its batch window may outlast the session. *)
LiveEvent(window) ==
  /\ live # None /\ ~tail
  /\ writes < setup.writes /\ writes' = writes + 1
  /\ tail' = TRUE
  /\ IF window THEN Enqueued(Task("write", live)) ELSE UNCHANGED chain
  /\ UNCHANGED <<log, entry, running, state, live, retiring, kind, call, foreign, faults>>

(* session/disposed: the tail is flushed, whatever became of earlier writes. *)
DisposeSession ==
  /\ live # None
  /\ live' = None /\ retiring' = live
  /\ IF tail THEN Enqueued(Task("write", live)) ELSE UNCHANGED chain
  /\ UNCHANGED <<log, entry, running, state, tail, kind, call, foreign, bounds>>

Unwritten == \E i \in DOMAIN chain : chain[i].kind = "write"

(* The flush is over: the state is released on the chain, or the flush failed *)
(* and with it the retirement and all who wait for it.                        *)
RetireFlushed ==
  /\ retiring # None /\ ~Unwritten
  /\ ~\E i \in DOMAIN chain : chain[i].kind = "retire"
  /\ IF tail
     THEN /\ retiring' = None /\ UNCHANGED chain
          /\ call' = [o \in Openers |-> IF call[o].pc = "retirement"
                                        THEN Call("failed", 0, NoSource, 0) ELSE call[o]]
     ELSE Enqueued(Task("retire", retiring)) /\ UNCHANGED <<retiring, call>>
  /\ UNCHANGED <<log, entry, running, state, live, tail, kind, foreign, bounds>>

RetireEnds ==
  /\ Runs("retire")
  /\ state' = Forgotten
  /\ retiring' = None
  /\ call' = [o \in Openers |-> IF call[o].pc = "retirement"
                                THEN [call[o] EXCEPT !.pc = "start"] ELSE call[o]]
  /\ TaskEnds
  /\ UNCHANGED <<log, entry, live, tail, kind, foreign, bounds>>

--------------------------------------------------------------------------------
(* The environment *)

(* Another process appends to the log. *)
ForeignWrite ==
  /\ Fails
  /\ stored' = stored + 1 /\ open' \in BOOLEAN
  /\ foreign' = TRUE
  /\ UNCHANGED <<broken, entry, tasks, state, session, kind, call, writes>>

(* Preparations of other sessions push a ready entry out of the pool. *)
Evict ==
  /\ entry.phase = "ready" /\ Fails
  /\ entry' = NoEntry
  /\ UNCHANGED <<log, tasks, state, session, kind, call, foreign, writes>>

--------------------------------------------------------------------------------
Opener(o) == AwaitRetirement(o) \/ MeetLive(o) \/ Join(o) \/ Reserve(o) \/ Check(o)

Chain ==
  \/ Begin \/ LoadEnds \/ LoadFails \/ CommitRestarts \/ CheckEnds \/ Adopt \/ AppendFails \/ WriteFails \/ RetireEnds
  \/ \E fails \in BOOLEAN : CommitRefused(fails)
  \/ \E aborted \in BOOLEAN : CommitEnds(aborted)
  \/ \E opens \in BOOLEAN : AppendEnds(opens) \/ WriteEnds(opens)

Holder(o) ==
  \/ \E grown \in BOOLEAN : Publish(o, grown)
  \/ \E reusable \in BOOLEAN : Release(o, reusable)

Fixed == UNCHANGED setup

Steps ==
  \/ \E o \in Openers : Opener(o) \/ Holder(o) \/ Abort(o)
  \/ Chain \/ PublicAppend \/ DisposeSession \/ RetireFlushed
  \/ \E window \in BOOLEAN : LiveEvent(window)
  \/ ForeignWrite \/ Evict

Next == Fixed /\ Steps

Spec == Init /\ [][Next]_vars

(* The backend answers, and callers publish or dispose what they prepared. *)
Fairness ==
  /\ WF_vars(Fixed /\ Chain) /\ WF_vars(Fixed /\ RetireFlushed)
  /\ \A o \in Openers : WF_vars(Fixed /\ Opener(o)) /\ WF_vars(Fixed /\ Holder(o))

FairSpec == Spec /\ Fairness

--------------------------------------------------------------------------------
(* Properties *)

TypeOK ==
  /\ stored \in Nat \ {0} /\ open \in BOOLEAN /\ broken \in BOOLEAN
  /\ entry.gen \in Generations \union {0}
  /\ entry.phase \in {"none", "loading", "ready", "committing", "reserved"}
  /\ entry.src.read \in 0..stored /\ entry.src.open \in BOOLEAN
  /\ (entry.gen = 0 <=> entry.phase = "none")
  /\ (entry.src.read = 0 <=> entry.phase \in {"none", "loading"})
  /\ (entry.phase \in {"committing", "reserved"} =>
       \E o \in Openers : call[o].pc \in {"committing", "holding"} /\ call[o].gen = entry.gen)
  /\ \A i \in DOMAIN chain :
       chain[i].kind \in {"load", "commit", "check", "append", "write", "retire"}
  /\ running \in BOOLEAN /\ (running => chain # <<>>)
  /\ state \in [tracked : BOOLEAN, cursor : Nat, owner : Openers \union {None}]
  /\ live \in Openers \union {None} /\ retiring \in Openers \union {None} /\ tail \in BOOLEAN
  /\ \A o \in Openers :
       /\ kind[o] \in Kinds /\ call[o].gen \in Generations \union {0}
       /\ call[o].src.read \in 0..stored /\ call[o].asked \in 0..stored
       /\ call[o].pc \in Finished \union {"start", "retirement", "waiting", "recheck",
                                          "queued", "committing", "checking", "holding"}

(* At most one opener commits or holds the stored session, and none while the *)
(* session is live: two owners would write the same log.                      *)
OneOwner ==
  /\ Cardinality({o \in Openers : call[o].pc \in {"committing", "holding"}}) <= 1
  /\ \A o \in Openers : call[o].pc = "holding" =>
       /\ entry.gen = call[o].gen /\ entry.phase = "reserved"
       /\ live = None /\ state.owner = None

(* Whatever ran between the read of the log and the moment its session can be *)
(* published, the cursor of a reserved or owned session counts exactly what   *)
(* is stored: its next event neither overwrites nor skips one.                *)
OwnedCursorExact ==
  (entry.phase = "reserved" \/ state.owner # None) /\ ~foreign => state.cursor = stored

(* Publishing what prepare returned is never refused by attachPrepared. *)
PublishNeverRefused ==
  \A o \in Openers : call[o].pc = "holding" =>
    state.tracked /\ state.cursor = entry.src.read

(* A load answers with a view that was the log at some moment of the call. *)
LoadIsFresh ==
  [][\A o \in Openers :
       kind[o] = "load" /\ call[o].pc = "committing" /\ call'[o].pc = "answered" =>
         call[o].src.read \in call[o].asked..stored /\ ~call[o].src.open]_vars

(* A cold repair closes no turn of a session whose events are still to come. *)
RepairOnlyOwnerless ==
  [][Runs("commit") /\ ~running' /\ open /\ ~open' => live = None /\ ~tail]_vars

(* Every accepted append continues the stored log. *)
LogStaysWhole == ~broken

(* Every call is answered, whatever it waits for is aborted, fails or restarts. *)
CallsEnd ==
  \A o \in Openers : call[o].pc = "start" ~> call[o].pc \in Finished

(* What any order of openers, chain tasks, appends and faults keeps: one     *)
(* owner of the session, with an exact cursor, whom publication accepts.     *)
PreparedSafe == TypeOK /\ OneOwner /\ OwnedCursorExact /\ PublishNeverRefused

(* What no step does: answer a load with a log that never was during the     *)
(* call, or close a turn whose events are still to come.                     *)
PreparedSteps == LoadIsFresh /\ RepairOnlyOwnerless
================================================================================
