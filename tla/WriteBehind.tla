------------------------------ MODULE WriteBehind ------------------------------
(***************************************************************************)
(* The write controller of one live session (SessionWriteBehind) together  *)
(* with the flush entry point of the persistence coordinator that drives   *)
(* it: events pushed by the session are queued, written in batches after a *)
(* fixed window or at an explicit flush, and kept in order when a write    *)
(* fails.  JavaScript jobs interleave at every await: each action below is *)
(* one job, and the microtasks between a settled promise and the code that *)
(* awaits it are actions of their own.                                     *)
(***************************************************************************)
EXTENDS Naturals, Sequences

CONSTANTS Callers,     \* the parties that may await a session flush
          MaxEvents    \* bound on the events the session produces

ASSUME ConstantsAssumption == MaxEvents \in Nat

VARIABLES
  enqueued,         \* events produced so far; event i is the i-th of them
  durable,          \* the log the backend has stored
  pending,          \* this.pending
  timer,            \* live batching timeouts (this.timer names the last one)
  active,           \* phase of the write this.active stands for
  batch,            \* the batch captured by that write
  background,       \* whether it was started by startBackground
  continuation,     \* a continueAutomatic microtask is queued
  barrier,          \* where drainBarrier stands, "none" without a barrier
  deadlineExpired,  \* this.deadlineExpired
  automaticPaused,  \* this.automaticPaused
  init,             \* the session initialization promise, live.init
  caller            \* per caller: its flush call and the events before it

controls == <<timer, active, batch, background, deadlineExpired>>
vars == <<enqueued, durable, pending, timer, active, batch, background,
          continuation, barrier, deadlineExpired, automaticPaused, init, caller>>

ActivePhases  == {"none", "writing", "stored", "rejected"}
BarrierPhases == {"none", "overlap", "overlapDone", "drain", "drained", "failed"}
CallStates    == {"idle", "init", "waiting", "resolved", "rejected"}
InFlight      == {"init", "waiting"}

Init ==
  /\ enqueued = 0
  /\ durable = <<>>
  /\ pending = <<>>
  /\ timer = 0
  /\ active = "none"
  /\ batch = <<>>
  /\ background = FALSE
  /\ continuation = FALSE
  /\ barrier = "none"
  /\ deadlineExpired = FALSE
  /\ automaticPaused = FALSE
  /\ init = "pending"
  /\ caller = [c \in Callers |-> [state |-> "idle", mark |-> 0]]

--------------------------------------------------------------------------------
(* Plausible bugs: each is a mutated form of the definition it is named after *)

QueueDrainedBug == barrier # "overlapDone" \/ pending = <<>>  \* one own write is taken as quiescence
RestoredBug == pending \o batch                               \* the failed batch goes to the back

--------------------------------------------------------------------------------
(* Helpers *)

(* cancelTimer *)
Cancelled(t) == IF t > 0 THEN t - 1 ELSE 0

(* An enqueue opens a batching window. *)
OpensWindow == barrier = "none" /\ (automaticPaused \/ pending = <<>>)

(* The quiescence test of drainBarrier's loop. *)
QueueDrained == pending = <<>>

(* The queue after a failed write: the batch in front, in order. *)
Restored == batch \o pending

(* continueAutomatic starts the next batch at once. *)
LateBatch == barrier = "none" /\ pending # <<>> /\ deadlineExpired

(* Where drainBarrier stands once the write it awaits has settled. *)
BarrierAfterWrite ==
  CASE barrier = "overlap" -> "overlapDone"
    [] barrier = "drain"   -> IF active = "stored" THEN "drained" ELSE "failed"
    [] OTHER               -> barrier

(* startWrite: take the whole queue as one batch and drop the deadline. *)
StartWrite(isBackground) ==
  /\ batch' = pending
  /\ pending' = <<>>
  /\ timer' = Cancelled(timer)
  /\ deadlineExpired' = FALSE
  /\ active' = "writing"
  /\ background' = isBackground

(* Every caller joined to the barrier observes its outcome. *)
Settle(outcome) ==
  caller' = [c \in Callers |->
               IF caller[c].state = "waiting"
               THEN [caller[c] EXCEPT !.state = outcome]
               ELSE caller[c]]

(* A timeout callback is a task: it runs only between microtasks. *)
MicrotasksDone ==
  /\ active \in {"none", "writing"}
  /\ ~continuation
  /\ barrier \in {"none", "overlap", "drain"}
  /\ init = "pending" \/ \A c \in Callers : caller[c].state # "init"

--------------------------------------------------------------------------------
(* Operations of the controller *)

Enqueue ==
  /\ enqueued < MaxEvents
  /\ enqueued' = enqueued + 1
  /\ pending' = Append(pending, enqueued + 1)
  /\ LET resumes == barrier = "none" /\ automaticPaused
     IN /\ automaticPaused' = (automaticPaused /\ ~resumes)
        /\ deadlineExpired' = (deadlineExpired /\ ~resumes)
  /\ timer' = IF OpensWindow THEN timer + 1 ELSE timer
  /\ UNCHANGED <<durable, active, batch, background, continuation, barrier, init, caller>>

(* The batching deadline: start a write, or note that the active one is late. *)
OnDeadline ==
  /\ timer > 0
  /\ MicrotasksDone
  /\ \/ /\ active # "none"
        /\ timer' = timer - 1
        /\ deadlineExpired' = TRUE
        /\ UNCHANGED <<pending, active, batch, background>>
     \/ /\ active = "none"
        /\ StartWrite(TRUE)
  /\ UNCHANGED <<enqueued, durable, continuation, barrier, automaticPaused, init, caller>>

(* The microtask after a successful background write. *)
ContinueAutomatic ==
  /\ continuation
  /\ continuation' = FALSE
  /\ IF LateBatch
     THEN StartWrite(TRUE)
     ELSE UNCHANGED <<pending, controls>>
  /\ UNCHANGED <<enqueued, durable, barrier, automaticPaused, init, caller>>

(* The backend stored the batch; the write waits for initialization first. *)
StoreOk ==
  /\ active = "writing"
  /\ init = "ready"
  /\ durable' = durable \o batch
  /\ batch' = <<>>
  /\ active' = "stored"
  /\ UNCHANGED <<enqueued, pending, timer, background, continuation, barrier,
                 deadlineExpired, automaticPaused, init, caller>>

(* The write rejected: the batch goes back in front and automatic retry pauses. *)
StoreFail ==
  /\ active = "writing"
  /\ init # "pending"
  /\ pending' = Restored
  /\ batch' = <<>>
  /\ timer' = Cancelled(timer)
  /\ deadlineExpired' = FALSE
  /\ automaticPaused' = TRUE
  /\ active' = "rejected"
  /\ UNCHANGED <<enqueued, durable, background, continuation, barrier, init, caller>>

(* finally: the slot is free; whoever awaits the write is scheduled. *)
WriteSettled ==
  /\ active \in {"stored", "rejected"}
  /\ active' = "none"
  /\ continuation' = (continuation \/ (background /\ active = "stored"))
  /\ barrier' = BarrierAfterWrite
  /\ UNCHANGED <<enqueued, durable, pending, timer, batch, background,
                 deadlineExpired, automaticPaused, init, caller>>

(* drainBarrier resumed: write what is pending, or close the barrier. *)
DrainStep ==
  /\ barrier \in {"overlapDone", "drained"}
  /\ automaticPaused' = (automaticPaused /\ barrier # "overlapDone")
  /\ IF ~QueueDrained
     THEN /\ StartWrite(FALSE)
          /\ barrier' = "drain"
          /\ UNCHANGED caller
     ELSE /\ barrier' = "none"
          /\ Settle("resolved")
          /\ UNCHANGED <<pending, controls>>
  /\ UNCHANGED <<enqueued, durable, continuation, init>>

(* drainBarrier resumed by its own failed write: reject the joined callers. *)
DrainFail ==
  /\ barrier = "failed"
  /\ barrier' = "none"
  /\ Settle("rejected")
  /\ UNCHANGED <<enqueued, durable, pending, controls, continuation,
                 automaticPaused, init>>

--------------------------------------------------------------------------------
(* The coordinator's flush: stop the window, await init, then the barrier *)

(* flush(session), up to its await of live.init. *)
FlushRequest(c) ==
  /\ caller[c].state \notin InFlight
  /\ caller' = [caller EXCEPT ![c] = [state |-> "init", mark |-> enqueued]]
  /\ timer' = Cancelled(timer)
  /\ deadlineExpired' = FALSE
  /\ UNCHANGED <<enqueued, durable, pending, active, batch, background,
                 continuation, barrier, automaticPaused, init>>

(* Initialization failed: the flush rejects after stopping a raced window. *)
FlushInitFailed(c) ==
  /\ caller[c].state = "init"
  /\ init = "failed"
  /\ caller' = [caller EXCEPT ![c].state = "rejected"]
  /\ timer' = Cancelled(timer)
  /\ deadlineExpired' = FALSE
  /\ UNCHANGED <<enqueued, durable, pending, active, batch, background,
                 continuation, barrier, automaticPaused, init>>

(* Join the barrier already running. *)
FlushJoin(c) ==
  /\ caller[c].state = "init"
  /\ init = "ready"
  /\ barrier # "none"
  /\ caller' = [caller EXCEPT ![c].state = "waiting"]
  /\ UNCHANGED <<enqueued, durable, pending, controls, continuation, barrier,
                 automaticPaused, init>>

(* Open a barrier and run drainBarrier up to its first await. *)
FlushOpen(c) ==
  /\ caller[c].state = "init"
  /\ init = "ready"
  /\ barrier = "none"
  /\ automaticPaused' = FALSE
  /\ \/ /\ active # "none"
        /\ barrier' = "overlap"
        /\ caller' = [caller EXCEPT ![c].state = "waiting"]
        /\ timer' = Cancelled(timer)
        /\ deadlineExpired' = FALSE
        /\ UNCHANGED <<pending, active, batch, background>>
     \/ /\ active = "none" /\ pending # <<>>
        /\ barrier' = "drain"
        /\ caller' = [caller EXCEPT ![c].state = "waiting"]
        /\ StartWrite(FALSE)
     \/ /\ active = "none" /\ pending = <<>>
        /\ barrier' = "none"
        /\ caller' = [caller EXCEPT ![c].state = "resolved"]
        /\ timer' = Cancelled(timer)
        /\ deadlineExpired' = FALSE
        /\ UNCHANGED <<pending, active, batch, background>>
  /\ UNCHANGED <<enqueued, durable, continuation, init>>

(* Session initialization (onCreated, or the prepared suffix) settles once. *)
InitSettles ==
  /\ init = "pending"
  /\ init' \in {"ready", "failed"}
  /\ UNCHANGED <<enqueued, durable, pending, controls, continuation, barrier,
                 automaticPaused, caller>>

Next ==
  \/ Enqueue \/ OnDeadline \/ ContinueAutomatic
  \/ StoreOk \/ StoreFail \/ WriteSettled \/ DrainStep \/ DrainFail
  \/ \E c \in Callers : FlushRequest(c) \/ FlushInitFailed(c) \/ FlushJoin(c) \/ FlushOpen(c)
  \/ InitSettles

Spec == Init /\ [][Next]_vars

(* The event loop runs every queued microtask and every due timeout, and the *)
(* backend and initialization settle; nothing promises that a write succeeds, *)
(* that an event is produced or that anyone calls flush.                      *)
Fairness ==
  /\ WF_vars(OnDeadline)
  /\ WF_vars(ContinueAutomatic)
  /\ WF_vars(StoreOk \/ StoreFail)
  /\ WF_vars(WriteSettled)
  /\ WF_vars(DrainStep)
  /\ WF_vars(DrainFail)
  /\ WF_vars(InitSettles)
  /\ \A c \in Callers : WF_vars(FlushInitFailed(c) \/ FlushJoin(c) \/ FlushOpen(c))

FairSpec == Spec /\ Fairness

--------------------------------------------------------------------------------
(* Properties *)

(* Every variable has its type.  A batching window is one timeout at a time, *)
(* which the `timer` range states: armTimer never overwrites a live timeout. *)
TypeOK ==
  /\ enqueued \in 0 .. MaxEvents
  /\ durable \in Seq(1 .. MaxEvents)
  /\ pending \in Seq(1 .. MaxEvents)
  /\ batch \in Seq(1 .. MaxEvents)
  /\ timer \in 0 .. 1
  /\ active \in ActivePhases
  /\ barrier \in BarrierPhases
  /\ init \in {"pending", "ready", "failed"}
  /\ background \in BOOLEAN /\ continuation \in BOOLEAN
  /\ deadlineExpired \in BOOLEAN /\ automaticPaused \in BOOLEAN
  /\ caller \in [Callers -> [state : CallStates, mark : 0 .. MaxEvents]]

(* The stored log, the batch being written and the queue, laid end to end, *)
(* are exactly the events produced, in order: whatever mix of failures,    *)
(* retries and overlapping flushes, no event is lost, doubled or reordered. *)
Accepted == durable \o batch \o pending
InOrder == Accepted = [i \in 1 .. enqueued |-> i]

(* A caller whose flush resolved finds every event produced before its call *)
(* in the stored log, also when it joined a barrier opened by another.      *)
FlushMeansDurable ==
  \A c \in Callers : caller[c].state = "resolved" => caller[c].mark <= Len(durable)

(* A queued event always has something that will move it: a live window, an *)
(* over-budget write to be continued, a barrier, a flush about to open one; *)
(* or the path is stopped and says so (retry paused, initialization failed). *)
NothingStranded ==
  pending # <<>> =>
    \/ timer > 0
    \/ deadlineExpired /\ (active # "none" \/ continuation)
    \/ barrier # "none"
    \/ \E c \in Callers : caller[c].state = "init"
    \/ automaticPaused
    \/ init = "failed"

(* No write is ever started with an empty batch: a deadline that is still *)
(* live always finds the queue it was opened for.                         *)
NoEmptyWrite == active = "writing" => batch # <<>>

(* After a failure, retry is paused: no background write starts until a new *)
(* event or an explicit flush has lifted the pause.                         *)
PausedMeansNoBackgroundWrite ==
  [][automaticPaused /\ active = "none" => ~(active' = "writing" /\ background')]_vars

(* What the write path promises, stated on its own. *)
Log == INSTANCE DurableLog WITH
         accepted <- Accepted,
         stored   <- durable,
         ticket   <- [c \in Callers |->
                        [state |-> IF caller[c].state \in InFlight THEN "open" ELSE caller[c].state,
                         mark  |-> caller[c].mark]]
ImplementsDurableLog == Log!Spec

(* Every flush is answered, whatever the backend does: it resolves, or it *)
(* rejects with the failed initialization or the failed retry.            *)
FlushSettles ==
  \A c \in Callers : caller[c].state \in InFlight ~> caller[c].state \notin InFlight

(* With no flush at all, an event is stored within a window and a write, *)
(* unless a write failure pauses the automatic path or the session never  *)
(* initialized.                                                           *)
EventuallyStored ==
  \A i \in 1 .. MaxEvents :
    enqueued >= i ~> Len(durable) >= i \/ automaticPaused \/ init = "failed"

(* What any interleaving of producers, timers, writes that fail and flushes  *)
(* keeps: the events in order, flushes that mean durable, nothing stranded.  *)
QueueSafe ==
  /\ TypeOK /\ InOrder /\ FlushMeansDurable /\ NothingStranded /\ NoEmptyWrite
================================================================================
