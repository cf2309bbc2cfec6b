------------------------------- MODULE StoresProofs ----------------------------
(***************************************************************************)
(* Proofs about the parts of MCStores, for every value of their constants. *)
(*                                                                         *)
(* The write-behind queue, for any set of flush callers and any number of  *)
(* events: the queue discipline never loses, doubles or reorders an event, *)
(* a resolved flush means durability, and no queued event is stranded.     *)
(*                                                                         *)
(* The storage domain, for any keys and values and any number of calls,    *)
(* failing files and crashes, as long as no directory fsync fails once its *)
(* rename is done: with SyncFails a rejected write has reached the file    *)
(* (NoDivergence).  The invariant says what the three copies hold while a  *)
(* job is under way; the refinement rests on it at every step that the     *)
(* abstract store can see.                                                 *)
(*                                                                         *)
(* The file of a session, compressed or not, for any number of events,     *)
(* failing calls and crashes, as long as no rollback fails and no directory*)
(* fsync (Features): the reader is shown to return, for every content that *)
(* a power loss may leave, the events of its pieces in order, and what a   *)
(* repair keeps; the invariant says where a write stands between what was  *)
(* there and what the live session counts.                                 *)
(*                                                                         *)
(* The coordinator and its pool of prepared sessions, for any openers and  *)
(* setups: whatever order openers, tasks of the chain, appends,            *)
(* retirements and foreign writes take, the stored session has one owner,  *)
(* its cursor is exact and publication accepts it.                         *)
(* An append that has begun may take the entry away from an opener that    *)
(* commits.  What keeps the next entry from a second committing opener is  *)
(* the order of the chain: its load stands behind that commit (Queue).     *)
(***************************************************************************)
EXTENDS MCStores, TLAPS, SequenceTheorems, FiniteSetTheorems

(* The control state of the controller.  The first part ties a write to its *)
(* batch and to the barrier that awaits it, so that no write is started on   *)
(* top of another; the second says when a deadline can be live at all.       *)
Control ==
  /\ active = "writing" <=> batch # <<>>
  /\ barrier \in {"overlap", "drain"} => active # "none"
  /\ barrier \in {"overlapDone", "drained", "failed"} => active = "none"
  /\ continuation /\ active # "none" => barrier # "none"
  /\ active # "none" /\ barrier = "none" => background
  /\ barrier = "failed" \/ (barrier = "drain" /\ active = "rejected") => automaticPaused

Deadlines ==
  /\ timer > 0 => pending # <<>> /\ ~automaticPaused /\ barrier = "none"
  /\ deadlineExpired => /\ pending # <<>> /\ ~automaticPaused /\ barrier = "none"
                        /\ active \in {"writing", "stored"} \/ (active = "none" /\ continuation)

Marks == \A c \in Callers : caller[c].mark <= enqueued

IInv == /\ TypeOK /\ Control /\ Deadlines
        /\ InOrder /\ Marks /\ FlushMeansDurable /\ NothingStranded

--------------------------------------------------------------------------------
(* Facts about sequences *)

(* Appending to the last of three concatenated sequences appends to all. *)
LEMMA AppendLast ==
  ASSUME NEW S, NEW d \in Seq(S), NEW b \in Seq(S), NEW p \in Seq(S), NEW e \in S
  PROVE  d \o b \o Append(p, e) = Append(d \o b \o p, e)
<1>1. /\ d \o b \in Seq(S)
      /\ d \o b \o p \in Seq(S)
      /\ <<e>> \in Seq(S)
  BY ConcatProperties
<1>2. Append(p, e) = p \o <<e>> /\ Append(d \o b \o p, e) = (d \o b \o p) \o <<e>>
  BY <1>1, AppendIsConcat
<1> QED
  BY <1>1, <1>2, ConcatAssociative

(* The first n+1 event numbers are the first n with n+1 appended. *)
LEMMA EventNumbers ==
  ASSUME NEW n \in Nat
  PROVE  Append([i \in 1 .. n |-> i], n + 1) = [i \in 1 .. n + 1 |-> i]
<1>1. [i \in 1 .. n |-> i] \in Seq(Nat)
  OBVIOUS
<1> QED
  BY <1>1, AppendProperties

(* One live timeout at most, so cancelTimer leaves none. *)
LEMMA CancelClears ==
  ASSUME TypeOK
  PROVE  Cancelled(timer) = 0
BY DEF TypeOK, Cancelled

(* The empty queue is a queue of events. *)
LEMMA EmptyTyped == <<>> \in Seq(1 .. MaxEvents)
BY EmptySeq

(* Producing an event and putting a failed batch back keep the types. *)
LEMMA QueueTyped ==
  ASSUME TypeOK
  PROVE  /\ batch \o pending \in Seq(1 .. MaxEvents)
         /\ enqueued < MaxEvents =>
              /\ enqueued + 1 \in 0 .. MaxEvents
              /\ Append(pending, enqueued + 1) \in Seq(1 .. MaxEvents)
<1>1. batch \in Seq(1 .. MaxEvents) /\ pending \in Seq(1 .. MaxEvents)
  BY DEF TypeOK
<1>2. batch \o pending \in Seq(1 .. MaxEvents)
  BY <1>1, ConcatProperties
<1>3. enqueued < MaxEvents => enqueued + 1 \in 1 .. MaxEvents
  BY ConstantsAssumption DEF TypeOK
<1>4. enqueued < MaxEvents => Append(pending, enqueued + 1) \in Seq(1 .. MaxEvents)
  BY <1>1, <1>3, AppendProperties
<1> QED
  BY <1>2, <1>3, <1>4

(* A produced event is appended to Accepted. *)
LEMMA AcceptedGrows ==
  ASSUME TypeOK, enqueued < MaxEvents
  PROVE  durable \o batch \o Append(pending, enqueued + 1)
           = Append(durable \o batch \o pending, enqueued + 1)
<1> DEFINE S == 1 .. MaxEvents
           e == enqueued + 1
<1>1. durable \in Seq(S) /\ batch \in Seq(S) /\ pending \in Seq(S) /\ e \in S
  BY ConstantsAssumption DEF TypeOK
<1> HIDE DEF S, e
<1>2. durable \o batch \o Append(pending, e) = Append(durable \o batch \o pending, e)
  BY <1>1, AppendLast
<1> QED
  BY <1>2 DEF e

(* Taking the queue as a batch, or putting the batch back in front, moves *)
(* events between the parts of Accepted without changing it.              *)
LEMMA BatchMoves ==
  ASSUME TypeOK
  PROVE  /\ batch = <<>> => durable \o pending \o <<>> = Accepted
         /\ durable \o <<>> \o (batch \o pending) = Accepted
<1>1. /\ durable \in Seq(1 .. MaxEvents)
      /\ batch \in Seq(1 .. MaxEvents)
      /\ pending \in Seq(1 .. MaxEvents)
  BY DEF TypeOK
<1>2. durable \o <<>> = durable
  BY <1>1, ConcatEmptySeq
<1>3. (durable \o pending) \o <<>> = durable \o pending
  BY <1>1, ConcatProperties, ConcatEmptySeq
<1>4. durable \o (batch \o pending) = (durable \o batch) \o pending
  BY <1>1, ConcatAssociative
<1> QED
  BY <1>2, <1>3, <1>4 DEF Accepted

(* Nothing queued and nothing being written: everything produced is stored. *)
LEMMA Quiescent ==
  ASSUME TypeOK, InOrder, pending = <<>>, batch = <<>>
  PROVE  Len(durable) = enqueued
<1>1. durable \in Seq(1 .. MaxEvents) /\ enqueued \in Nat
  BY ConstantsAssumption DEF TypeOK
<1>2. Accepted = durable
  BY <1>1, ConcatEmptySeq DEF Accepted
<1> QED
  BY <1>1, <1>2 DEF InOrder

--------------------------------------------------------------------------------
(* Each part of the inductive invariant is preserved by every step *)

(* The types. *)
LEMMA TypeStep ==
  ASSUME IInv, [Next]_vars
  PROVE  TypeOK'
<1> USE DEF IInv, controls, TypeOK, Deadlines, ActivePhases, BarrierPhases, CallStates
<1>1. CASE Enqueue
  BY <1>1, QueueTyped DEF Enqueue, OpensWindow
<1>2. CASE OnDeadline
  <2>1. /\ background' \in BOOLEAN /\ continuation' \in BOOLEAN
        /\ deadlineExpired' \in BOOLEAN /\ automaticPaused' \in BOOLEAN
    BY <1>2 DEF OnDeadline, StartWrite, MicrotasksDone
  <2>2. timer' \in 0 .. 1
    BY <1>2, CancelClears DEF OnDeadline, StartWrite, MicrotasksDone
  <2>3. /\ pending' \in Seq(1 .. MaxEvents)
        /\ batch' \in Seq(1 .. MaxEvents)
    BY <1>2, EmptyTyped DEF OnDeadline, StartWrite, MicrotasksDone
  <2>4. caller' \in [Callers -> [state : CallStates, mark : 0 .. MaxEvents]]
    BY <1>2 DEF OnDeadline, StartWrite, MicrotasksDone
  <2> QED
    BY <1>2, <2>1, <2>2, <2>3, <2>4 DEF OnDeadline, StartWrite, MicrotasksDone
<1>3. CASE ContinueAutomatic
  <2>1. /\ background' \in BOOLEAN /\ continuation' \in BOOLEAN
        /\ deadlineExpired' \in BOOLEAN /\ automaticPaused' \in BOOLEAN
    BY <1>3 DEF ContinueAutomatic, StartWrite, LateBatch
  <2>2. timer' \in 0 .. 1
    BY <1>3, CancelClears DEF ContinueAutomatic, StartWrite, LateBatch
  <2>3. /\ pending' \in Seq(1 .. MaxEvents)
        /\ batch' \in Seq(1 .. MaxEvents)
    BY <1>3, EmptyTyped DEF ContinueAutomatic, StartWrite, LateBatch
  <2>4. caller' \in [Callers -> [state : CallStates, mark : 0 .. MaxEvents]]
    BY <1>3 DEF ContinueAutomatic, StartWrite, LateBatch
  <2> QED
    BY <1>3, <2>1, <2>2, <2>3, <2>4 DEF ContinueAutomatic, StartWrite, LateBatch
<1>4. CASE StoreOk
  BY <1>4 DEF StoreOk
<1>5. CASE StoreFail
  <2>1. /\ background' \in BOOLEAN /\ continuation' \in BOOLEAN
        /\ deadlineExpired' \in BOOLEAN /\ automaticPaused' \in BOOLEAN
    BY <1>5 DEF StoreFail, Restored
  <2>2. timer' \in 0 .. 1
    BY <1>5, CancelClears DEF StoreFail, Restored
  <2>3. /\ pending' \in Seq(1 .. MaxEvents)
        /\ batch' \in Seq(1 .. MaxEvents)
    BY <1>5, QueueTyped, EmptyTyped DEF StoreFail, Restored
  <2>4. caller' \in [Callers -> [state : CallStates, mark : 0 .. MaxEvents]]
    BY <1>5 DEF StoreFail, Restored
  <2> QED
    BY <1>5, <2>1, <2>2, <2>3, <2>4 DEF StoreFail, Restored
<1>6. CASE WriteSettled
  BY <1>6 DEF WriteSettled, BarrierAfterWrite
<1>7. CASE DrainStep
  <2>1. /\ background' \in BOOLEAN /\ continuation' \in BOOLEAN
        /\ deadlineExpired' \in BOOLEAN /\ automaticPaused' \in BOOLEAN
    BY <1>7 DEF DrainStep, StartWrite, QueueDrained, Settle
  <2>2. timer' \in 0 .. 1
    BY <1>7, CancelClears DEF DrainStep, StartWrite, QueueDrained, Settle
  <2>3. /\ pending' \in Seq(1 .. MaxEvents)
        /\ batch' \in Seq(1 .. MaxEvents)
    BY <1>7, EmptyTyped DEF DrainStep, StartWrite, QueueDrained, Settle
  <2>4. caller' \in [Callers -> [state : CallStates, mark : 0 .. MaxEvents]]
    BY <1>7 DEF DrainStep, StartWrite, QueueDrained, Settle
  <2> QED
    BY <1>7, <2>1, <2>2, <2>3, <2>4 DEF DrainStep, StartWrite, QueueDrained, Settle
<1>8. CASE DrainFail
  BY <1>8 DEF DrainFail, Settle
<1>9. ASSUME NEW c \in Callers, FlushRequest(c) PROVE TypeOK'
  <2>1. /\ background' \in BOOLEAN /\ continuation' \in BOOLEAN
        /\ deadlineExpired' \in BOOLEAN /\ automaticPaused' \in BOOLEAN
    BY <1>9 DEF FlushRequest
  <2>2. timer' \in 0 .. 1
    BY <1>9, CancelClears DEF FlushRequest
  <2>3. /\ pending' \in Seq(1 .. MaxEvents)
        /\ batch' \in Seq(1 .. MaxEvents)
    BY <1>9 DEF FlushRequest
  <2>4. caller' \in [Callers -> [state : CallStates, mark : 0 .. MaxEvents]]
    BY <1>9 DEF FlushRequest
  <2> QED
    BY <1>9, <2>1, <2>2, <2>3, <2>4 DEF FlushRequest
<1>10. ASSUME NEW c \in Callers, FlushInitFailed(c) PROVE TypeOK'
  <2>1. /\ background' \in BOOLEAN /\ continuation' \in BOOLEAN
        /\ deadlineExpired' \in BOOLEAN /\ automaticPaused' \in BOOLEAN
    BY <1>10 DEF FlushInitFailed
  <2>2. timer' \in 0 .. 1
    BY <1>10, CancelClears DEF FlushInitFailed
  <2>3. /\ pending' \in Seq(1 .. MaxEvents)
        /\ batch' \in Seq(1 .. MaxEvents)
    BY <1>10 DEF FlushInitFailed
  <2>4. caller' \in [Callers -> [state : CallStates, mark : 0 .. MaxEvents]]
    BY <1>10 DEF FlushInitFailed
  <2> QED
    BY <1>10, <2>1, <2>2, <2>3, <2>4 DEF FlushInitFailed
<1>11. ASSUME NEW c \in Callers, FlushJoin(c) PROVE TypeOK'
  BY <1>11 DEF FlushJoin
<1>12. ASSUME NEW c \in Callers, FlushOpen(c) PROVE TypeOK'
  <2>1. /\ background' \in BOOLEAN /\ continuation' \in BOOLEAN
        /\ deadlineExpired' \in BOOLEAN /\ automaticPaused' \in BOOLEAN
    BY <1>12 DEF FlushOpen, StartWrite
  <2>2. timer' \in 0 .. 1
    BY <1>12, CancelClears DEF FlushOpen, StartWrite
  <2>3. /\ pending' \in Seq(1 .. MaxEvents)
        /\ batch' \in Seq(1 .. MaxEvents)
    BY <1>12, EmptyTyped DEF FlushOpen, StartWrite
  <2>4. caller' \in [Callers -> [state : CallStates, mark : 0 .. MaxEvents]]
    BY <1>12 DEF FlushOpen, StartWrite
  <2> QED
    BY <1>12, <2>1, <2>2, <2>3, <2>4 DEF FlushOpen, StartWrite
<1>13. CASE InitSettles
  BY <1>13 DEF InitSettles
<1>14. CASE UNCHANGED vars
  BY <1>14 DEF vars
<1> QED
  BY <1>1, <1>2, <1>3, <1>4, <1>5, <1>6, <1>7, <1>8, <1>9, <1>10, <1>11, <1>12, <1>13, <1>14 DEF Next

(* The control state. *)
LEMMA ControlStep ==
  ASSUME IInv, [Next]_vars
  PROVE  Control'
<1> USE DEF IInv, controls, TypeOK, Control, Deadlines, ActivePhases, BarrierPhases
<1>1. CASE Enqueue
  BY <1>1 DEF Enqueue, OpensWindow
<1>2. CASE OnDeadline
  BY <1>2 DEF OnDeadline, StartWrite, MicrotasksDone, Cancelled
<1>3. CASE ContinueAutomatic
  BY <1>3 DEF ContinueAutomatic, StartWrite, LateBatch, Cancelled
<1>4. CASE StoreOk
  BY <1>4 DEF StoreOk
<1>5. CASE StoreFail
  BY <1>5 DEF StoreFail, Restored, Cancelled
<1>6. CASE WriteSettled
  BY <1>6 DEF WriteSettled, BarrierAfterWrite
<1>7. CASE DrainStep
  BY <1>7 DEF DrainStep, StartWrite, QueueDrained, Settle, Cancelled
<1>8. CASE DrainFail
  BY <1>8 DEF DrainFail, Settle
<1>9. ASSUME NEW c \in Callers, FlushRequest(c) PROVE Control'
  BY <1>9 DEF FlushRequest, Cancelled
<1>10. ASSUME NEW c \in Callers, FlushInitFailed(c) PROVE Control'
  BY <1>10 DEF FlushInitFailed, Cancelled
<1>11. ASSUME NEW c \in Callers, FlushJoin(c) PROVE Control'
  BY <1>11 DEF FlushJoin
<1>12. ASSUME NEW c \in Callers, FlushOpen(c) PROVE Control'
  BY <1>12 DEF FlushOpen, StartWrite, Cancelled
<1>13. CASE InitSettles
  BY <1>13 DEF InitSettles
<1>14. CASE UNCHANGED vars
  BY <1>14 DEF vars
<1> QED
  BY <1>1, <1>2, <1>3, <1>4, <1>5, <1>6, <1>7, <1>8, <1>9, <1>10, <1>11, <1>12, <1>13, <1>14 DEF Next

(* When a deadline is live. *)
LEMMA DeadlinesStep ==
  ASSUME IInv, [Next]_vars
  PROVE  Deadlines'
<1> USE DEF IInv, controls, TypeOK, Control, Deadlines, ActivePhases, BarrierPhases
<1>1. CASE Enqueue
  BY <1>1 DEF Enqueue, OpensWindow
<1>2. CASE OnDeadline
  BY <1>2 DEF OnDeadline, StartWrite, MicrotasksDone, Cancelled
<1>3. CASE ContinueAutomatic
  BY <1>3 DEF ContinueAutomatic, StartWrite, LateBatch, Cancelled
<1>4. CASE StoreOk
  BY <1>4 DEF StoreOk
<1>5. CASE StoreFail
  BY <1>5 DEF StoreFail, Restored, Cancelled
<1>6. CASE WriteSettled
  BY <1>6 DEF WriteSettled, BarrierAfterWrite
<1>7. CASE DrainStep
  BY <1>7 DEF DrainStep, StartWrite, QueueDrained, Settle, Cancelled
<1>8. CASE DrainFail
  BY <1>8 DEF DrainFail, Settle
<1>9. ASSUME NEW c \in Callers, FlushRequest(c) PROVE Deadlines'
  BY <1>9 DEF FlushRequest, Cancelled
<1>10. ASSUME NEW c \in Callers, FlushInitFailed(c) PROVE Deadlines'
  BY <1>10 DEF FlushInitFailed, Cancelled
<1>11. ASSUME NEW c \in Callers, FlushJoin(c) PROVE Deadlines'
  BY <1>11 DEF FlushJoin
<1>12. ASSUME NEW c \in Callers, FlushOpen(c) PROVE Deadlines'
  BY <1>12 DEF FlushOpen, StartWrite, Cancelled
<1>13. CASE InitSettles
  BY <1>13 DEF InitSettles
<1>14. CASE UNCHANGED vars
  BY <1>14 DEF vars
<1> QED
  BY <1>1, <1>2, <1>3, <1>4, <1>5, <1>6, <1>7, <1>8, <1>9, <1>10, <1>11, <1>12, <1>13, <1>14 DEF Next

(* The order of the events. *)
LEMMA InOrderStep ==
  ASSUME IInv, [Next]_vars
  PROVE  InOrder'
<1> USE DEF IInv, controls, TypeOK, Control, InOrder, Accepted
<1>1. CASE Enqueue
  <2>1. enqueued \in Nat /\ enqueued + 1 \in 1 .. MaxEvents
    BY <1>1, ConstantsAssumption DEF Enqueue
  <2>2. Accepted' = [i \in 1 .. enqueued + 1 |-> i]
    BY <1>1, <2>1, AcceptedGrows, EventNumbers DEF Enqueue
  <2> QED
    BY <1>1, <2>2 DEF Enqueue
<1>2. CASE OnDeadline
  BY <1>2, BatchMoves DEF OnDeadline, StartWrite, MicrotasksDone
<1>3. CASE ContinueAutomatic
  BY <1>3, BatchMoves DEF ContinueAutomatic, StartWrite, LateBatch
<1>4. CASE StoreOk
  BY <1>4 DEF StoreOk
<1>5. CASE StoreFail
  BY <1>5, BatchMoves DEF StoreFail, Restored
<1>6. CASE WriteSettled
  BY <1>6 DEF WriteSettled, BarrierAfterWrite
<1>7. CASE DrainStep
  BY <1>7, BatchMoves DEF DrainStep, StartWrite, QueueDrained, Settle
<1>8. CASE DrainFail
  BY <1>8 DEF DrainFail, Settle
<1>9. ASSUME NEW c \in Callers, FlushRequest(c) PROVE InOrder'
  BY <1>9 DEF FlushRequest, Cancelled
<1>10. ASSUME NEW c \in Callers, FlushInitFailed(c) PROVE InOrder'
  BY <1>10 DEF FlushInitFailed, Cancelled
<1>11. ASSUME NEW c \in Callers, FlushJoin(c) PROVE InOrder'
  BY <1>11 DEF FlushJoin
<1>12. ASSUME NEW c \in Callers, FlushOpen(c) PROVE InOrder'
  BY <1>12, BatchMoves DEF FlushOpen, StartWrite
<1>13. CASE InitSettles
  BY <1>13 DEF InitSettles
<1>14. CASE UNCHANGED vars
  BY <1>14 DEF vars
<1> QED
  BY <1>1, <1>2, <1>3, <1>4, <1>5, <1>6, <1>7, <1>8, <1>9, <1>10, <1>11, <1>12, <1>13, <1>14 DEF Next

(* What a flush call has seen. *)
LEMMA DurableStep ==
  ASSUME IInv, [Next]_vars
  PROVE  (Marks /\ FlushMeansDurable)'
<1> USE DEF IInv, controls, TypeOK, Control, Marks, FlushMeansDurable, CallStates
<1>1. CASE Enqueue
  BY <1>1 DEF Enqueue, OpensWindow
<1>2. CASE OnDeadline
  BY <1>2 DEF OnDeadline, StartWrite, MicrotasksDone, Cancelled
<1>3. CASE ContinueAutomatic
  BY <1>3 DEF ContinueAutomatic, StartWrite, LateBatch, Cancelled
<1>4. CASE StoreOk
  BY <1>4 DEF StoreOk
<1>5. CASE StoreFail
  BY <1>5 DEF StoreFail, Restored, Cancelled
<1>6. CASE WriteSettled
  BY <1>6 DEF WriteSettled, BarrierAfterWrite
<1>7. CASE DrainStep
  BY <1>7, Quiescent DEF DrainStep, StartWrite, QueueDrained, Settle
<1>8. CASE DrainFail
  BY <1>8 DEF DrainFail, Settle
<1>9. ASSUME NEW c \in Callers, FlushRequest(c) PROVE (Marks /\ FlushMeansDurable)'
  BY <1>9 DEF FlushRequest, Cancelled
<1>10. ASSUME NEW c \in Callers, FlushInitFailed(c) PROVE (Marks /\ FlushMeansDurable)'
  BY <1>10 DEF FlushInitFailed, Cancelled
<1>11. ASSUME NEW c \in Callers, FlushJoin(c) PROVE (Marks /\ FlushMeansDurable)'
  BY <1>11 DEF FlushJoin
<1>12. ASSUME NEW c \in Callers, FlushOpen(c) PROVE (Marks /\ FlushMeansDurable)'
  BY <1>12, Quiescent DEF FlushOpen, StartWrite
<1>13. CASE InitSettles
  BY <1>13 DEF InitSettles
<1>14. CASE UNCHANGED vars
  BY <1>14 DEF vars
<1> QED
  BY <1>1, <1>2, <1>3, <1>4, <1>5, <1>6, <1>7, <1>8, <1>9, <1>10, <1>11, <1>12, <1>13, <1>14 DEF Next

(* What will move a queued event. *)
LEMMA StrandedStep ==
  ASSUME IInv, [Next]_vars
  PROVE  NothingStranded'
<1> USE DEF IInv, controls, TypeOK, Control, Deadlines, NothingStranded, InFlight, ActivePhases, BarrierPhases
<1>1. CASE Enqueue
  BY <1>1 DEF Enqueue, OpensWindow
<1>2. CASE OnDeadline
  BY <1>2 DEF OnDeadline, StartWrite, MicrotasksDone, Cancelled
<1>3. CASE ContinueAutomatic
  BY <1>3 DEF ContinueAutomatic, StartWrite, LateBatch, Cancelled
<1>4. CASE StoreOk
  BY <1>4 DEF StoreOk
<1>5. CASE StoreFail
  BY <1>5 DEF StoreFail, Restored, Cancelled
<1>6. CASE WriteSettled
  BY <1>6 DEF WriteSettled, BarrierAfterWrite
<1>7. CASE DrainStep
  BY <1>7 DEF DrainStep, StartWrite, QueueDrained, Settle, Cancelled
<1>8. CASE DrainFail
  BY <1>8 DEF DrainFail, Settle
<1>9. ASSUME NEW c \in Callers, FlushRequest(c) PROVE NothingStranded'
  BY <1>9 DEF FlushRequest, Cancelled
<1>10. ASSUME NEW c \in Callers, FlushInitFailed(c) PROVE NothingStranded'
  BY <1>10 DEF FlushInitFailed, Cancelled
<1>11. ASSUME NEW c \in Callers, FlushJoin(c) PROVE NothingStranded'
  BY <1>11 DEF FlushJoin
<1>12. ASSUME NEW c \in Callers, FlushOpen(c) PROVE NothingStranded'
  BY <1>12 DEF FlushOpen, StartWrite, Cancelled
<1>13. CASE InitSettles
  BY <1>13 DEF InitSettles
<1>14. CASE UNCHANGED vars
  BY <1>14 DEF vars
<1> QED
  BY <1>1, <1>2, <1>3, <1>4, <1>5, <1>6, <1>7, <1>8, <1>9, <1>10, <1>11, <1>12, <1>13, <1>14 DEF Next

--------------------------------------------------------------------------------
(* The inductive invariant and what follows from it *)

LEMMA InitIInv == Init => IInv
<1> SUFFICES ASSUME Init PROVE IInv
  OBVIOUS
<1>1. TypeOK
  <2>1. /\ background \in BOOLEAN /\ continuation \in BOOLEAN
        /\ deadlineExpired \in BOOLEAN /\ automaticPaused \in BOOLEAN
    BY DEF Init
  <2>2. /\ enqueued \in 0 .. MaxEvents /\ timer \in 0 .. 1
        /\ caller \in [Callers -> [state : CallStates, mark : 0 .. MaxEvents]]
    BY ConstantsAssumption DEF Init, CallStates
  <2> QED
    BY <2>1, <2>2, EmptyTyped DEF Init, TypeOK, ActivePhases, BarrierPhases
<1>2. InOrder
  BY ConcatEmptySeq, EmptySeq DEF Init, Accepted, InOrder
<1>3. Control /\ Deadlines /\ Marks /\ FlushMeansDurable /\ NothingStranded
  BY DEF Init, Control, Deadlines, Marks, FlushMeansDurable, NothingStranded
<1> QED
  BY <1>1, <1>2, <1>3 DEF IInv

LEMMA StepIInv == IInv /\ [Next]_vars => IInv'
BY TypeStep, ControlStep, DeadlinesStep, InOrderStep, DurableStep, StrandedStep DEF IInv

LEMMA InvariantIInv == Spec => []IInv
BY InitIInv, StepIInv, PTL DEF Spec

(* Every variable keeps its type; in particular a second batching timeout is *)
(* never armed while one is live (enqueue, armTimer).                        *)
THEOREM TypeCorrect == Spec => []TypeOK
<1>1. IInv => TypeOK
  BY DEF IInv
<1> QED
  BY <1>1, InvariantIInv, PTL

(* The stored log, the batch in flight and the queue are always the events *)
(* produced, in order: no loss, no duplicate, no reordering by startWrite, *)
(* its failure path, or the barrier.                                       *)
THEOREM EventsInOrder == Spec => []InOrder
<1>1. IInv => InOrder
  BY DEF IInv
<1> QED
  BY <1>1, InvariantIInv, PTL

(* A resolved flush means that everything produced before the call is stored *)
(* (drainBarrier's loop and the joining of a running barrier).               *)
THEOREM ResolvedFlushIsDurable == Spec => []FlushMeansDurable
<1>1. IInv => FlushMeansDurable
  BY DEF IInv
<1> QED
  BY <1>1, InvariantIInv, PTL

(* No queued event is left with nothing that will move it. *)
THEOREM QueuedEventsMove == Spec => []NothingStranded
<1>1. IInv => NothingStranded
  BY DEF IInv
<1> QED
  BY <1>1, InvariantIInv, PTL

(* An empty batch is never written. *)
THEOREM NoEmptyBatch == Spec => []NoEmptyWrite
<1>1. IInv => NoEmptyWrite
  BY DEF IInv, Control, NoEmptyWrite
<1> QED
  BY <1>1, InvariantIInv, PTL

(* The events stored, under way and queued are those produced, in order, a   *)
(* resolved flush finds its events stored, and nothing is stranded or        *)
(* written empty: what every session's log promises at every moment.         *)
THEOREM QueueIsSafe == Spec => []QueueSafe
<1>1. IInv => QueueSafe
  BY DEF IInv, Control, NoEmptyWrite, QueueSafe
<1> QED
  BY <1>1, InvariantIInv, PTL


(* A paused path starts no background write (catch of startWrite). *)
THEOREM NoWriteWhilePaused == Spec => PausedMeansNoBackgroundWrite
<1>1. ASSUME IInv, [Next]_vars, automaticPaused, active = "none"
      PROVE  ~(active' = "writing" /\ background')
  <2> USE <1>1 DEF controls, IInv, Deadlines, StartWrite
  <2>1. ~(timer > 0) /\ ~deadlineExpired
    OBVIOUS
  <2>2. ~OnDeadline /\ ~LateBatch
    BY <2>1 DEF OnDeadline, LateBatch
  <2>3. CASE ContinueAutomatic
    BY <2>2, <2>3 DEF ContinueAutomatic
  <2>4. CASE DrainStep
    BY <2>4 DEF DrainStep
  <2>5. ASSUME NEW c \in Callers, FlushOpen(c) PROVE ~(active' = "writing" /\ background')
    BY <2>5 DEF FlushOpen
  <2>6. CASE Enqueue \/ StoreOk \/ StoreFail \/ WriteSettled \/ DrainFail \/ InitSettles
    BY <2>6 DEF Enqueue, StoreOk, StoreFail, WriteSettled, DrainFail, InitSettles
  <2>7. ASSUME NEW c \in Callers, FlushRequest(c) \/ FlushInitFailed(c) \/ FlushJoin(c)
        PROVE  ~(active' = "writing" /\ background')
    BY <2>7 DEF FlushRequest, FlushInitFailed, FlushJoin
  <2>8. CASE UNCHANGED vars
    BY <2>8 DEF vars
  <2> QED
    BY <2>2, <2>3, <2>4, <2>5, <2>6, <2>7, <2>8 DEF Next
<1>2. IInv /\ [Next]_vars => [automaticPaused /\ active = "none" => ~(active' = "writing" /\ background')]_vars
  BY <1>1
<1> QED
  BY <1>2, InvariantIInv, PTL DEF Spec, PausedMeansNoBackgroundWrite

--------------------------------------------------------------------------------
(* The write path implements the abstract log *)

TicketOf == [c \in Callers |->
               [state |-> IF caller[c].state \in InFlight THEN "open" ELSE caller[c].state,
                mark  |-> caller[c].mark]]

LEMMA AcceptedLength == IInv => Len(Accepted) = enqueued
BY ConstantsAssumption DEF IInv, TypeOK, InOrder

(* The batch is the part of the accepted log that follows the stored one. *)
LEMMA BatchIsNext ==
  ASSUME TypeOK
  PROVE  /\ batch = SubSeq(Accepted, Len(durable) + 1, Len(durable) + Len(batch))
         /\ Len(durable) + Len(batch) \in Len(durable) .. Len(Accepted)
<1> DEFINE S == 1 .. MaxEvents
           rest == SubSeq(Accepted, Len(durable) + 1, Len(durable) + Len(batch))
<1>1. durable \in Seq(S) /\ batch \in Seq(S) /\ pending \in Seq(S)
  BY DEF TypeOK
<1> HIDE DEF S
<1>2. /\ durable \o batch \in Seq(S)
      /\ Len(durable \o batch) = Len(durable) + Len(batch)
      /\ \A i \in 1 .. Len(batch) : (durable \o batch)[Len(durable) + i] = batch[i]
      /\ Len(durable) \in Nat /\ Len(batch) \in Nat /\ Len(pending) \in Nat
  BY <1>1, ConcatProperties, LenProperties
<1>3. /\ Accepted \in Seq(S)
      /\ Len(Accepted) = Len(durable) + Len(batch) + Len(pending)
      /\ \A i \in 1 .. Len(batch) : Accepted[Len(durable) + i] = batch[i]
  BY <1>1, <1>2, ConcatProperties DEF Accepted
<1>4. \A i \in Len(durable) + 1 .. Len(durable) + Len(batch) : Accepted[i] \in S
  BY <1>2, <1>3, ElementOfSeq
<1>5. /\ rest \in Seq(S)
      /\ Len(rest) = Len(batch)
      /\ \A i \in 1 .. Len(batch) : rest[i] = Accepted[Len(durable) + i]
  BY <1>2, <1>4, SubSeqProperties
<1>6. batch = rest
  BY <1>1, <1>3, <1>5, SeqEqual
<1> QED
  BY <1>2, <1>3, <1>6

(* Starting a write keeps the accepted log and the stored one. *)
LEMMA StartKeeps ==
  ASSUME TypeOK, batch = <<>>, NEW b, StartWrite(b), durable' = durable
  PROVE  Accepted' = Accepted
BY BatchMoves DEF StartWrite, Accepted

(* Answering some of the flushes in flight is an abstract Answer. *)
LEMMA AnswerCallers ==
  ASSUME TypeOK, NEW S \in SUBSET Callers, NEW outcome \in {"resolved", "rejected"},
         \A c \in S : /\ caller[c].state \in InFlight
                      /\ outcome = "resolved" => caller[c].mark <= Len(durable),
         caller' = [c \in Callers |-> IF c \in S THEN [caller[c] EXCEPT !.state = outcome]
                                                ELSE caller[c]],
         Accepted' = Accepted, durable' = durable
  PROVE  Log!Answer(outcome)
<1>1. \A c \in S : /\ TicketOf[c].state = "open"
                   /\ outcome = "resolved" => TicketOf[c].mark <= Len(durable)
  BY DEF TicketOf
<1>2. \A c \in Callers : TicketOf'[c] = IF c \in S THEN [TicketOf[c] EXCEPT !.state = outcome]
                                                ELSE TicketOf[c]
  BY DEF TicketOf, TypeOK, InFlight
<1>3. TicketOf' = [c \in Callers |-> IF c \in S THEN [TicketOf[c] EXCEPT !.state = outcome]
                                                ELSE TicketOf[c]]
  BY <1>2 DEF TicketOf
<1> QED
  BY <1>1, <1>3 DEF Log!Answer, TicketOf

(* A flush that moves from its await of init to the barrier stays open. *)
LEMMA TicketKept ==
  ASSUME TypeOK, NEW c \in Callers, caller[c].state = "init",
         caller' = [caller EXCEPT ![c].state = "waiting"]
  PROVE  TicketOf' = TicketOf
BY DEF TicketOf, TypeOK, InFlight

LEMMA LogInit == Init => Log!Init
BY ConcatEmptySeq, EmptySeq DEF Init, Log!Init, Accepted, InFlight

LEMMA LogStep ==
  ASSUME IInv, [Next]_vars
  PROVE  [Log!Next]_(Log!logvars)
<1> DEFINE Same == Accepted' = Accepted /\ durable' = durable /\ TicketOf' = TicketOf
<1> USE DEF IInv, controls
<1>0. Same => UNCHANGED Log!logvars
  BY DEF Log!logvars, TicketOf
<1>1. CASE Enqueue
  BY <1>1, AcceptedGrows, AcceptedLength DEF Enqueue, Accepted, Log!Next, Log!Accept
<1>2. CASE OnDeadline
  BY <1>0, <1>2, StartKeeps DEF OnDeadline, Control, Accepted, TicketOf
<1>3. CASE ContinueAutomatic
  BY <1>0, <1>3, StartKeeps DEF ContinueAutomatic, LateBatch, Control, Accepted, TicketOf
<1>4. CASE StoreOk
  <2>1. Accepted' = Accepted
    BY <1>4, EmptySeq, ConcatEmptySeq, ConcatProperties DEF StoreOk, Accepted, TypeOK
  <2> QED
    BY <1>4, <2>1, BatchIsNext DEF StoreOk, Log!Next, Log!Store
<1>5. CASE StoreFail
  BY <1>0, <1>5, BatchMoves DEF StoreFail, Restored, Accepted, TicketOf
<1>6. CASE WriteSettled \/ InitSettles
  BY <1>0, <1>6 DEF WriteSettled, InitSettles, TicketOf, Accepted
<1>7. CASE DrainStep
  <2>1. CASE ~QueueDrained
    BY <1>0, <1>7, <2>1, StartKeeps DEF DrainStep, TicketOf, Control
  <2>2. CASE QueueDrained
    <3> DEFINE W == {c \in Callers : caller[c].state = "waiting"}
    <3>1. Len(durable) = enqueued
      BY <1>7, <2>2, Quiescent DEF DrainStep, QueueDrained, Control
    <3>2. \A c \in W : caller[c].mark <= Len(durable)
      BY <3>1 DEF Marks
    <3>3. /\ caller' = [c \in Callers |-> IF c \in W THEN [caller[c] EXCEPT !.state = "resolved"]
                                                    ELSE caller[c]]
          /\ Accepted' = Accepted /\ durable' = durable
      BY <1>7, <2>2 DEF DrainStep, Settle, Accepted
    <3>4. Log!Answer("resolved")
      BY <3>2, <3>3, AnswerCallers DEF InFlight
    <3> QED
      BY <3>4 DEF Log!Next
  <2> QED
    BY <2>1, <2>2
<1>8. CASE DrainFail
  <2> DEFINE W == {c \in Callers : caller[c].state = "waiting"}
  <2>1. /\ caller' = [c \in Callers |-> IF c \in W THEN [caller[c] EXCEPT !.state = "rejected"]
                                                  ELSE caller[c]]
        /\ Accepted' = Accepted /\ durable' = durable
    BY <1>8 DEF DrainFail, Settle, Accepted
  <2>2. Log!Answer("rejected")
    BY <2>1, AnswerCallers DEF InFlight
  <2> QED
    BY <2>2 DEF Log!Next
<1>9. ASSUME NEW c \in Callers, FlushRequest(c) PROVE Log!Next
  BY <1>9, AcceptedLength DEF FlushRequest, InFlight, TypeOK, CallStates, Log!Request, Accepted,
     Log!Next
<1>10. ASSUME NEW c \in Callers, FlushInitFailed(c) PROVE Log!Next
  <2>1. /\ caller' = [x \in Callers |-> IF x \in {c} THEN [caller[x] EXCEPT !.state = "rejected"]
                                                    ELSE caller[x]]
        /\ Accepted' = Accepted /\ durable' = durable
    BY <1>10 DEF FlushInitFailed, TypeOK, Accepted
  <2>2. Log!Answer("rejected")
    BY <1>10, <2>1, AnswerCallers DEF FlushInitFailed, InFlight
  <2> QED
    BY <2>2 DEF Log!Next
<1>11. ASSUME NEW c \in Callers, FlushJoin(c) PROVE Same
  BY <1>11 DEF FlushJoin, TicketOf, InFlight, TypeOK, Accepted
<1>12. ASSUME NEW c \in Callers, FlushOpen(c) PROVE Same \/ Log!Next
  <2>1. CASE active # "none"
    BY <1>12, <2>1, TicketKept DEF FlushOpen, Accepted
  <2>2. CASE active = "none" /\ pending # <<>>
    BY <1>12, <2>2, StartKeeps, TicketKept DEF FlushOpen, Control
  <2>3. CASE active = "none" /\ pending = <<>>
    <3>1. caller[c].mark <= Len(durable)
      BY <2>3, Quiescent DEF Control, Marks
    <3>2. /\ caller' = [x \in Callers |-> IF x \in {c} THEN [caller[x] EXCEPT !.state = "resolved"]
                                                      ELSE caller[x]]
          /\ Accepted' = Accepted /\ durable' = durable
      BY <1>12, <2>3 DEF FlushOpen, TypeOK, Accepted
    <3>3. Log!Answer("resolved")
      BY <1>12, <3>1, <3>2, AnswerCallers DEF FlushOpen, InFlight
    <3> QED
      BY <3>3 DEF Log!Next
  <2> QED
    BY <2>1, <2>2, <2>3
<1>13. CASE UNCHANGED vars
  BY <1>0, <1>13 DEF vars, TicketOf, Accepted
<1> QED
  BY <1>0, <1>1, <1>2, <1>3, <1>4, <1>5, <1>6, <1>7, <1>8, <1>9, <1>10, <1>11, <1>12, <1>13
     DEF Next

(* The controller and the coordinator's flush implement DurableLog: every    *)
(* step accepts an event, extends the stored prefix, opens or answers flushes *)
(* as the abstract log allows, or changes nothing the abstract log can see.   *)
THEOREM Refinement == Spec => ImplementsDurableLog
BY LogInit, LogStep, InvariantIInv, PTL DEF Spec, ImplementsDurableLog, Log!Spec

--------------------------------------------------------------------------------
(* The storage domain *)

DomainRuns == domain \in {"open", "disposing"}

(* The running job's write: what it replaces is kept aside, the unit already *)
(* has it, the records do not, the file has it once it is renamed.           *)
WriteUnderWay ==
  stage # "idle" =>
    /\ Domain!Known(Domain!Current) /\ previous = records[Domain!Current.key]
    /\ unit = [records EXCEPT ![Domain!Current.key] =
                Domain!Store!Result(Domain!Current, records[Domain!Current.key])]
    /\ unitFile = IF stage = "renamed" THEN unit ELSE records

DomainInv == Domain!TypeOK /\ Domain!CopiesAgree /\ WriteUnderWay

DomainValues == (0..Top) \union {Domain!Absent}

LEMMA DomainSteps ==
  ASSUME [Domain!Next]_(Domain!vars)
  PROVE  \/ Domain!Open \/ Domain!Opened \/ Domain!OpenFails \/ Domain!Close \/ Domain!Closed
         \/ Domain!Crash \/ (\E op \in Domain!Ops : Domain!Call(op))
         \/ Domain!Unneeded \/ Domain!Write \/ Domain!Rename
         \/ Domain!PublishFails \/ Domain!Published
         \/ UNCHANGED Domain!vars
BY DEF Domain!Next, Domain!Job

(* The running job is one of the calls. *)
LEMMA HeadTyped ==
  ASSUME Domain!TypeOK, chain # <<>>
  PROVE  Domain!Current \in Domain!Ops /\ Tail(chain) \in Seq(Domain!Ops)
BY DEF Domain!TypeOK, Domain!Current

(* A write leaves a value, or none. *)
LEMMA ResultTyped ==
  ASSUME Domain!DomainAssumption, NEW op \in Domain!Ops, NEW old \in DomainValues
  PROVE  Domain!Store!Result(op, old) \in DomainValues
<1>1. Top \in Nat /\ op.value \in 0..Top /\ old \in Nat
  BY DEF Domain!DomainAssumption, Domain!Ops, DomainValues, Domain!Absent, Domain!Store!Absent
<1>2. (old + 1) % (Top + 1) \in 0..Top
  BY <1>1
<1> QED
  BY <1>1, <1>2 DEF Domain!Store!Result, DomainValues, Domain!Absent

LEMMA DomainInit == Domain!DomainAssumption /\ Domain!Init => DomainInv
<1> SUFFICES ASSUME Domain!DomainAssumption, Domain!Init PROVE DomainInv
  OBVIOUS
<1>1. Domain!TypeOK
  BY DEF Domain!DomainAssumption, Domain!Init, Domain!TypeOK, Domain!Contents
<1> QED
  BY <1>1 DEF Domain!Init, DomainInv, Domain!CopiesAgree, WriteUnderWay

LEMMA DomainTypeStep ==
  ASSUME Domain!DomainAssumption, Domain!TypeOK, WriteUnderWay, [Domain!Next]_(Domain!vars)
  PROVE  Domain!TypeOK'
<1> USE DEF Domain!DomainAssumption, Domain!TypeOK, Domain!memory, Domain!job, Domain!bounds
<1>1. ASSUME Domain!Open \/ Domain!Opened \/ Domain!Close \/ Domain!Closed PROVE Domain!TypeOK'
  BY <1>1 DEF Domain!Open, Domain!Opened, Domain!Close, Domain!Closed, Domain!Drained
<1>2. ASSUME Domain!OpenFails PROVE Domain!TypeOK'
  BY <1>2 DEF Domain!OpenFails, Domain!Fault
<1>3. ASSUME Domain!Crash PROVE Domain!TypeOK'
  BY <1>3 DEF Domain!Crash, Domain!Contents
<1>4. ASSUME NEW op \in Domain!Ops, Domain!Call(op) PROVE Domain!TypeOK'
  BY <1>4 DEF Domain!Call
<1>5. ASSUME Domain!Unneeded PROVE Domain!TypeOK'
  BY <1>5, HeadTyped DEF Domain!Unneeded, Domain!Answers
<1>6. ASSUME Domain!Write PROVE Domain!TypeOK'
  BY <1>6, HeadTyped, ResultTyped DEF Domain!Write, Domain!Ops, Domain!Contents, DomainValues
<1>7. ASSUME Domain!Rename PROVE Domain!TypeOK'
  BY <1>7 DEF Domain!Rename
<1>8. ASSUME Domain!PublishFails PROVE Domain!TypeOK'
  BY <1>8, HeadTyped DEF Domain!PublishFails, Domain!Fault, Domain!Answers, Domain!RolledBack,
      Domain!Contents, Domain!Ops
<1>9. ASSUME Domain!Published PROVE Domain!TypeOK'
  BY <1>9, HeadTyped DEF Domain!Published, Domain!Answers, Domain!Committed, Domain!Contents,
      Domain!Ops
<1>10. CASE UNCHANGED Domain!vars
  BY <1>10 DEF Domain!vars
<1> QED
  BY <1>1, <1>2, <1>3, <1>4, <1>5, <1>6, <1>7, <1>8, <1>9, <1>10, DomainSteps

(* What the failure of a publication puts back, and its success hands over. *)
LEMMA Settled ==
  ASSUME Domain!TypeOK, WriteUnderWay, stage # "idle"
  PROVE  Domain!RolledBack = records /\ Domain!Committed = unit
<1>1. Domain!Current.key \in Keys /\ records \in Domain!Contents /\ unit \in Domain!Contents
  BY HeadTyped DEF Domain!TypeOK, Domain!Ops
<1>2. \A k \in Keys : Domain!RolledBack[k] = records[k] /\ Domain!Committed[k] = unit[k]
  BY <1>1 DEF WriteUnderWay, Domain!RolledBack, Domain!Committed, Domain!Contents
<1>3. Domain!RolledBack \in [Keys -> DomainValues] /\ Domain!Committed \in [Keys -> DomainValues]
  BY <1>1 DEF Domain!TypeOK, Domain!RolledBack, Domain!Committed, Domain!Contents, DomainValues
<1> QED
  BY <1>1, <1>2, <1>3 DEF Domain!Contents

(* A crash leaves what the records had, or what the running job makes of it. *)
LEMMA CrashLeaves ==
  ASSUME Domain!TypeOK, Domain!CopiesAgree, WriteUnderWay, DomainRuns, Domain!Crash
  PROVE  \/ unitFile' = records
         \/ stage = "renamed" /\ unitFile' = unit
<1>1. CASE stage = "idle"
  BY <1>1 DEF Domain!CopiesAgree, DomainRuns, Domain!Crash
<1>2. CASE stage # "idle" /\ UNCHANGED unitFile
  BY <1>2 DEF WriteUnderWay
<1>3. CASE stage = "renamed" /\ unitFile' = [unitFile EXCEPT ![Domain!Current.key] = previous]
  BY <1>3, Settled DEF WriteUnderWay, Domain!RolledBack
<1> QED
  BY <1>1, <1>2, <1>3 DEF Domain!Crash

LEMMA CopiesStep ==
  ASSUME Domain!DomainAssumption
  PROVE  DomainInv /\ [Domain!Next]_(Domain!vars) => (Domain!CopiesAgree /\ WriteUnderWay)'
<1> SUFFICES ASSUME DomainInv, [Domain!Next]_(Domain!vars)
             PROVE  (Domain!CopiesAgree /\ WriteUnderWay)'
  OBVIOUS
<1> USE DEF DomainInv, Domain!CopiesAgree, WriteUnderWay, Domain!memory, Domain!job,
    Domain!bounds, Domain!Current, Domain!Known
<1>1. ASSUME Domain!Open \/ Domain!OpenFails PROVE (Domain!CopiesAgree /\ WriteUnderWay)'
  BY <1>1 DEF Domain!Open, Domain!OpenFails, Domain!TypeOK
<1>2. ASSUME Domain!Opened PROVE (Domain!CopiesAgree /\ WriteUnderWay)'
  BY <1>2 DEF Domain!Opened, Domain!TypeOK
<1>3. ASSUME Domain!Close \/ Domain!Closed PROVE (Domain!CopiesAgree /\ WriteUnderWay)'
  BY <1>3 DEF Domain!Close, Domain!Closed
<1>4. ASSUME Domain!Crash PROVE (Domain!CopiesAgree /\ WriteUnderWay)'
  BY <1>4 DEF Domain!Crash
<1>5. ASSUME NEW op \in Domain!Ops, Domain!Call(op) PROVE (Domain!CopiesAgree /\ WriteUnderWay)'
  BY <1>5 DEF Domain!TypeOK, Domain!Call
<1>6. ASSUME Domain!Unneeded PROVE (Domain!CopiesAgree /\ WriteUnderWay)'
  BY <1>6 DEF Domain!Unneeded, Domain!Answers
<1>7. ASSUME Domain!Write PROVE (Domain!CopiesAgree /\ WriteUnderWay)'
  BY <1>7 DEF Domain!Write, Domain!TypeOK
<1>8. ASSUME Domain!Rename PROVE (Domain!CopiesAgree /\ WriteUnderWay)'
  BY <1>8 DEF Domain!Rename
<1>9. ASSUME Domain!PublishFails PROVE (Domain!CopiesAgree /\ WriteUnderWay)'
  BY <1>9, Settled DEF Domain!PublishFails, Domain!Answers
<1>10. ASSUME Domain!Published PROVE (Domain!CopiesAgree /\ WriteUnderWay)'
  BY <1>10, Settled DEF Domain!Published, Domain!Answers
<1>11. CASE UNCHANGED Domain!vars
  BY <1>11 DEF Domain!vars
<1> QED
  BY <1>1, <1>2, <1>3, <1>4, <1>5, <1>6, <1>7, <1>8, <1>9, <1>10, <1>11, DomainSteps

LEMMA DomainStep ==
  ASSUME Domain!DomainAssumption
  PROVE  DomainInv /\ [Domain!Next]_(Domain!vars) => DomainInv'
BY DomainTypeStep, CopiesStep DEF DomainInv

--------------------------------------------------------------------------------
(* The domain as a key-value store *)

StoreSame == UNCHANGED <<Domain!Shown, chain, answer>>

(* A step that answers the running call with its effect. *)
LEMMA Applies ==
  ASSUME Domain!TypeOK, DomainRuns, domain' = domain, chain # <<>>, Domain!Known(Domain!Current),
         records' = [records EXCEPT ![Domain!Current.key] =
                      Domain!Store!Result(Domain!Current, records[Domain!Current.key])],
         Domain!Answers("done")
  PROVE  Domain!Store!Apply
<1>1. Domain!Shown = records /\ Domain!Shown' = records'
  BY DEF Domain!Shown, DomainRuns
<1>3. ~Domain!Store!Idle(Domain!Current, records[Domain!Current.key])
  BY DEF Domain!Known, Domain!Store!Idle, Domain!Absent
<1> QED
  BY <1>1, <1>3 DEF Domain!Store!Apply, Domain!Store!Applied, Domain!Store!Answer, Domain!Answers,
      Domain!Current

LEMMA StoreStep ==
  ASSUME Domain!DomainAssumption
  PROVE  DomainInv /\ [Domain!Next]_(Domain!vars) => [Domain!Store!Next]_(Domain!Store!vars)
<1> SUFFICES ASSUME DomainInv, [Domain!Next]_(Domain!vars) PROVE Domain!Store!Next \/ StoreSame
  BY DEF StoreSame, Domain!Store!vars
<1> USE DEF DomainInv, Domain!memory, Domain!job, Domain!bounds
<1>1. ASSUME Domain!Open \/ Domain!OpenFails PROVE StoreSame
  BY <1>1 DEF Domain!Open, Domain!OpenFails, StoreSame, Domain!Shown
<1>2. ASSUME Domain!Opened PROVE StoreSame
  BY <1>2 DEF Domain!Opened, StoreSame, Domain!Shown
<1>3. ASSUME Domain!Close PROVE StoreSame
  BY <1>3 DEF Domain!Close, StoreSame, Domain!Shown
<1>4. ASSUME Domain!Closed PROVE StoreSame
  BY <1>4 DEF Domain!Closed, Domain!Drained, Domain!TypeOK, StoreSame, Domain!Shown,
     Domain!CopiesAgree
<1>5. ASSUME Domain!Crash PROVE Domain!Store!Next
  <2>1. Domain!Shown' = unitFile' /\ chain' = <<>> /\ answer' = "none"
    BY <1>5 DEF Domain!Crash, Domain!Shown
  <2>2. CASE ~DomainRuns
    BY <1>5, <2>1, <2>2 DEF Domain!Crash, Domain!Shown, DomainRuns, Domain!TypeOK,
        Domain!Store!Crash, Domain!Store!Next
  <2>3. CASE DomainRuns
    <3>1. Domain!Shown = records
      BY <2>3 DEF Domain!Shown, DomainRuns
    <3>2. CASE unitFile' = records
      BY <2>1, <3>1, <3>2 DEF Domain!Store!Crash, Domain!Store!Next
    <3>3. CASE stage = "renamed" /\ unitFile' = unit
      <4>1. /\ chain # <<>> /\ Domain!Known(Domain!Current) /\ Domain!Current \in Domain!Ops
            /\ unitFile' = [records EXCEPT ![Domain!Current.key] =
                             Domain!Store!Result(Domain!Current, records[Domain!Current.key])]
        BY <3>3, HeadTyped DEF WriteUnderWay, Domain!TypeOK
      <4>2. ~Domain!Store!Idle(Domain!Current, records[Domain!Current.key])
        BY <4>1 DEF Domain!Known, Domain!Store!Idle, Domain!Absent
      <4> QED
        BY <2>1, <3>1, <4>1, <4>2 DEF Domain!Store!Crash, Domain!Store!Next, Domain!Store!Applied,
            Domain!Current
    <3> QED
      BY <1>5, <2>3, <3>2, <3>3, CrashLeaves
  <2> QED
    BY <2>2, <2>3
<1>6. ASSUME NEW op \in Domain!Ops, Domain!Call(op) PROVE Domain!Store!Next
  BY <1>6 DEF Domain!Call, Domain!Shown, Domain!Ops, Domain!Store!Call, Domain!Store!Next
<1>7. ASSUME Domain!Unneeded PROVE Domain!Store!Next
  <2>1. DomainRuns /\ Domain!Shown = records /\ Domain!Shown' = records
    BY <1>7 DEF Domain!Unneeded, Domain!Shown, DomainRuns, Domain!TypeOK
  <2>2. Domain!Store!Idle(Domain!Current, records[Domain!Current.key])
    BY <1>7 DEF Domain!Unneeded, Domain!Known, Domain!Store!Idle, Domain!Absent
  <2> QED
    BY <1>7, <2>1, <2>2 DEF Domain!Unneeded, Domain!Answers, Domain!Current, Domain!Store!Answer,
        Domain!Store!Apply, Domain!Store!Next
<1>8. ASSUME Domain!Write \/ Domain!Rename PROVE StoreSame
  BY <1>8 DEF Domain!Write, Domain!Rename, DomainRuns, Domain!TypeOK, StoreSame, Domain!Shown
<1>9. ASSUME Domain!PublishFails PROVE Domain!Store!Next
  BY <1>9 DEF Domain!PublishFails, DomainRuns, Domain!TypeOK, Domain!Answers, Domain!Shown,
     Domain!Store!Refuse, Domain!Store!Next
<1>10. ASSUME Domain!Published PROVE Domain!Store!Next
  BY <1>10, Settled, Applies DEF Domain!Published, DomainRuns, Domain!TypeOK, WriteUnderWay,
     Domain!Store!Next
<1>11. CASE UNCHANGED Domain!vars
  BY <1>11 DEF Domain!vars, StoreSame, Domain!Shown
<1> QED
  BY <1>1, <1>2, <1>3, <1>4, <1>5, <1>6, <1>7, <1>8, <1>9, <1>10, <1>11, DomainSteps

LEMMA StoreInit == Domain!Init => Domain!Store!Init
BY DEF Domain!Init, Domain!Shown, Domain!Contents, Domain!Store!Init, Domain!Absent

--------------------------------------------------------------------------------
(* The theorems about the domain *)

LEMMA DomainMoves ==
  [MCNext]_allVars => [Domain!Next]_(Domain!vars)
BY DEF MCNext, allVars, domainVars, Domain!vars, Domain!memory, Domain!job, Domain!bounds

LEMMA DomainInvariant == MCSpec => []DomainInv
<1>1. MCInit => DomainInv
  BY DomainInit, DomainBounds DEF MCInit
<1>2. DomainInv /\ [MCNext]_allVars => DomainInv'
  BY DomainStep, DomainMoves, DomainBounds
<1> QED
  BY <1>1, <1>2, PTL DEF MCSpec

(* Between two jobs the records, the unit's memory and its file agree,       *)
(* whatever was queued, refused or cut short before (the domain's chain, the *)
(* unit's rollback).                                                         *)
THEOREM DomainIsSafe == MCSpec => []Domain!DomainSafe
<1>1. DomainInv => Domain!DomainSafe
  BY DEF DomainInv, Domain!DomainSafe
<1> QED
  BY <1>1, DomainInvariant, PTL

(* An open domain is the abstract store: calls are applied one at a time, in *)
(* the order they were made, and a crash keeps what was answered             *)
(* (StorageDomain's serial chain over the JSON unit's publication).          *)
THEOREM StoreRefinement == MCSpec => DomainIsStore
<1>1. MCInit => Domain!Store!Init
  BY StoreInit DEF MCInit
<1>2. DomainInv /\ [MCNext]_allVars
        => [Domain!Store!Next]_(Domain!Store!vars)
  BY StoreStep, DomainMoves, DomainBounds
<1> QED
  BY <1>1, <1>2, DomainInvariant, PTL
  DEF MCSpec, DomainIsStore, Domain!ImplementsKvStore, Domain!Store!Spec

--------------------------------------------------------------------------------
(* The file of a session *)

Events == [seq : Nat, epoch : Nat, end : BOOLEAN]
Pieces == [events : Seq(Events), whole : BOOLEAN]

(* What is on the disk: whole pieces, of which the last may be cut, with the *)
(* events of a log in order; of lines, one event in each and none in what is *)
(* left of one.                                                              *)
Whole(content) == \A i \in 1 .. Len(content) : content[i].whole
Shaped(content) ==
  compressed \/ \A i \in 1 .. Len(content) :
                  Len(content[i].events) = IF content[i].whole THEN 1 ELSE 0
Sound(content) ==
  /\ content \in Seq(Pieces) /\ \A i \in 1 .. Len(content) - 1 : content[i].whole
  /\ File!Contiguous(File!Records(content)) /\ Shaped(content)

(* What a repair keeps of it. *)
Mended(content) == IF Whole(content) THEN content ELSE SubSeq(content, 1, Len(content) - 1)

(* More events fit behind a content. *)
Continues(content, events) ==
  events \in Seq(Events) /\ File!Contiguous(File!Records(content) \o events)

(* The types, and the events of the live log in order. *)
FileTyped ==
  /\ entry \in {"none", "linked", "durable"} /\ pc \in File!Calls
  /\ compressed \in BOOLEAN /\ materialized \in BOOLEAN
  /\ log \in Seq(Events) /\ File!Contiguous(log) /\ cursor \in 0 .. Len(log)
  /\ acked \in Seq(Events) /\ fileBatch \in Seq(Events)
  /\ faults \in 0 .. MaxFaults /\ crashes \in 0 .. MaxCrashes /\ epoch = crashes

(* Wherever the power goes: what may be found can be read, and what was *)
(* acknowledged is in the part that a repair keeps.                     *)
Lasting ==
  /\ file \in survive
  /\ \A content \in survive : Sound(content) /\ File!IsPrefix(acked, File!Records(Mended(content)))
  /\ entry = "none" => survive = {<<>>}
  /\ entry # "durable" => acked = <<>>
  /\ entry = "linked" => pc = "syncdir" /\ survive = {file}

(* The file before the write that is under way, and with it. *)
Started(content) == Sound(content) /\ Whole(content) /\ Continues(content, fileBatch)
Writing ==
  /\ pc = "write" => Started(file)
  /\ pc \in {"sync", "truncate", "resync"} => Started(before) /\ before \in survive
  /\ pc = "sync" => file = before \o File!Encoded(fileBatch)
  /\ pc \in {"resync", "cutsync"} => file = before
  /\ pc = "cut" => before = Mended(file)
  /\ pc \in {"cut", "cutsync"} => Started(before)

(* What a live session knows of the file. *)
Stored == SubSeq(log, 1, cursor)
Unstored == SubSeq(log, cursor + 1, Len(log))
Living ==
  mode = "live" =>
    /\ pc \notin {"cut", "cutsync"}
    /\ materialized <=> entry = "durable"
    /\ ~materialized => cursor = 0 /\ pc \in {"idle", "publish", "syncdir"}
    /\ ~materialized /\ pc \in {"idle", "publish"} => entry = "none"
    /\ materialized => pc \notin {"publish", "syncdir"}
    /\ pc # "idle" => /\ fileBatch # <<>> /\ cursor + Len(fileBatch) <= Len(log)
                      /\ Stored \o fileBatch = SubSeq(log, 1, cursor + Len(fileBatch))
    /\ pc = "syncdir" => entry = "linked" /\ file = File!Encoded(fileBatch)
    /\ materialized /\ pc \in {"idle", "write"} => Whole(file) /\ File!Records(file) = Stored
    /\ pc \in {"sync", "truncate", "resync"} => File!Records(before) = Stored

(* Who does what. *)
Placed ==
  /\ mode \in {"live", "cold", "repairing"}
  /\ mode = "cold" => pc = "idle"
  /\ mode = "repairing" => pc \notin {"idle", "publish", "syncdir"} /\ entry = "durable"

FileInv == FileTyped /\ Lasting /\ Writing /\ Living /\ Placed

--------------------------------------------------------------------------------
(* The events of a file, piece by piece *)

(* A set of natural numbers that is not empty has a least element. *)
LEMMA LeastOf ==
  ASSUME NEW S \in SUBSET Nat, S # {}
  PROVE  \E x \in S : \A y \in S : x <= y
<1>1. \E x \in S : \A y \in S : ~ (<<y, x>> \in OpToRel(<, Nat))
  BY NatLessThanWellFounded, WFMin
<1>2. PICK x \in S : \A y \in S : ~ (<<y, x>> \in OpToRel(<, Nat))
  BY <1>1
<1>3. \A y \in S : ~ (y < x)
  BY <1>2 DEF OpToRel
<1> QED
  BY <1>3

(* A sequence that is not empty is its front and its last element. *)
LEMMA Built ==
  ASSUME NEW S, NEW q \in Seq(S), q # <<>>
  PROVE  /\ SubSeq(q, 1, Len(q) - 1) \in Seq(S) /\ q[Len(q)] \in S
         /\ Len(SubSeq(q, 1, Len(q) - 1)) = Len(q) - 1
         /\ q = Append(SubSeq(q, 1, Len(q) - 1), q[Len(q)])
<1>1. Len(q) \in Nat \ {0} /\ q[Len(q)] \in S
  BY EmptySeq, LenProperties
<1>2. SubSeq(q, 1, Len(q) - 1) \in Seq(S) /\ Len(SubSeq(q, 1, Len(q) - 1)) = Len(q) - 1
      /\ \A i \in 1 .. Len(q) - 1 : SubSeq(q, 1, Len(q) - 1)[i] = q[i]
  <2>1. \A i \in 1 .. Len(q) : q[i] \in S
    BY ElementOfSeq
  <2>2. PICK k \in Int : k = Len(q) - 1
    BY <1>1
  <2>3. 1 \in Int /\ k \in Nat /\ (\A i \in 1 .. k : q[i] \in S) /\ 1 .. k \subseteq 1 .. Len(q)
    BY <1>1, <2>1, <2>2
  <2> QED BY <1>1, <2>2, <2>3
<1> QED
  BY <1>1, <1>2, AppendProperties, SeqEqual

LEMMA Parted ==
  ASSUME NEW S, NEW q \in Seq(S), q # <<>>
  PROVE  \E f \in Seq(S), p \in S : q = Append(f, p) /\ Len(f) = Len(q) - 1
BY Built

(* g concatenates the first n sequences of q. *)
Concatenates(g, q, n) == g = [i \in 1 .. n |-> IF i = 1 THEN q[i] ELSE g[i - 1] \o q[i]]

LEMMA ConcatenatesExist ==
  ASSUME NEW q
  PROVE  \A n \in Nat : \E g : Concatenates(g, q, n)
<1> DEFINE Off == {n \in Nat : ~ \E g : Concatenates(g, q, n)}
<1> SUFFICES ASSUME Off # {} PROVE FALSE
  OBVIOUS
<1>1. PICK n \in Off : \A m \in Off : n <= m
  <2>1. Off \in SUBSET Nat
    OBVIOUS
  <2> HIDE DEF Off
  <2> QED BY <2>1, LeastOf
<1>2. CASE n = 0
  <2> DEFINE g == [i \in 1 .. 0 |-> {}]
  <2>1. Concatenates(g, q, 0)
    BY DEF Concatenates
  <2> QED BY <1>2, <2>1
<1>3. CASE n > 0
  <2>1. n - 1 \in Nat /\ n \in Nat /\ ~(n <= n - 1)
    BY <1>3
  <2>2. PICK g : Concatenates(g, q, n - 1)
    BY <1>1, <2>1
  <2> DEFINE h == [i \in 1 .. n |-> IF i < n THEN g[i] ELSE IF n = 1 THEN q[n] ELSE g[n - 1] \o q[n]]
  <2>3. ASSUME NEW i \in 1 .. n
        PROVE  h[i] = IF i = 1 THEN q[i] ELSE h[i - 1] \o q[i]
    <3>1. CASE i = n
      <4>1. i # 1 => h[i - 1] = g[n - 1]
        BY <2>1, <3>1
      <4>2. h[i] = IF n = 1 THEN q[n] ELSE g[n - 1] \o q[n]
        BY <2>1, <3>1
      <4> HIDE DEF h
      <4> QED BY <3>1, <4>1, <4>2
    <3>2. CASE i < n
      <4>1. i \in 1 .. n - 1
        BY <2>1, <3>2
      <4>2. g[i] = IF i = 1 THEN q[i] ELSE g[i - 1] \o q[i]
        BY <2>2, <4>1, Zenon DEF Concatenates
      <4>3. h[i] = g[i] /\ (i # 1 => h[i - 1] = g[i - 1])
        BY <2>1, <3>2
      <4> HIDE DEF h
      <4> QED BY <4>2, <4>3
    <3> QED BY <2>1, <3>1, <3>2
  <2>4. Concatenates(h, q, n)
    BY <2>3, Zenon DEF Concatenates
  <2> QED BY <2>4
<1> QED BY <1>2, <1>3

LEMMA ConcatenatesAgree ==
  ASSUME NEW n \in Nat, NEW m \in Nat, NEW k \in Nat \ {0}, k <= n, k <= m, NEW q, NEW p,
         \A i \in 1 .. k : q[i] = p[i], NEW g, NEW h, Concatenates(g, q, n), Concatenates(h, p, m)
  PROVE  g[k] = h[k]
<1> DEFINE Off == {i \in 1 .. k : g[i] # h[i]}
<1> SUFFICES ASSUME Off # {} PROVE FALSE
  OBVIOUS
<1>1. PICK i \in Off : \A j \in Off : i <= j
  <2>1. Off \in SUBSET Nat
    OBVIOUS
  <2> HIDE DEF Off
  <2> QED BY <2>1, LeastOf
<1>2. i \in 1 .. k /\ i \in 1 .. n /\ i \in 1 .. m /\ q[i] = p[i] /\ ~(i <= i - 1)
  OBVIOUS
<1>3. g[i] = (IF i = 1 THEN q[i] ELSE g[i - 1] \o q[i])
        /\ h[i] = (IF i = 1 THEN p[i] ELSE h[i - 1] \o p[i])
  BY <1>2, Zenon DEF Concatenates
<1>4. i # 1 => g[i - 1] = h[i - 1]
  BY <1>1, <1>2
<1> QED BY <1>2, <1>3, <1>4

LEMMA FlattenIs ==
  ASSUME NEW q, Len(q) \in Nat \ {0}
  PROVE  \E g : Concatenates(g, q, Len(q)) /\ File!FlattenSeq(q) = g[Len(q)]
<1>1. PICK f : f = CHOOSE g : Concatenates(g, q, Len(q))
  OBVIOUS
<1>2. Concatenates(f, q, Len(q))
  <2>1. \E g : Concatenates(g, q, Len(q))
    BY ConcatenatesExist
  <2> QED BY <1>1, <2>1, Zenon
<1>3. File!FlattenSeq(q) = f[Len(q)]
  BY <1>1 DEF File!FlattenSeq, Concatenates
<1> QED BY <1>2, <1>3

LEMMA RecordsOfNothing == File!Records(<<>>) = <<>>
BY DEF File!Records, File!FlattenSeq

(* The events of one more piece follow those before it. *)
LEMMA RecordsAppend ==
  ASSUME NEW c \in Seq(Pieces), NEW p \in Pieces
  PROVE  File!Records(Append(c, p)) = IF c = <<>> THEN p.events ELSE File!Records(c) \o p.events
<1> DEFINE d == Append(c, p)
           q == [i \in 1 .. Len(c) |-> c[i].events]
           r == [i \in 1 .. Len(d) |-> d[i].events]
           n == Len(c)
<1>1. /\ n \in Nat /\ Len(d) = n + 1 /\ Len(q) = n /\ Len(r) = n + 1
      /\ r[n + 1] = p.events /\ \A i \in 1 .. n : q[i] = r[i]
      /\ c = <<>> <=> n = 0
  BY AppendProperties, EmptySeq, LenProperties
<1>2. File!Records(d) = File!FlattenSeq(r) /\ File!Records(c) = File!FlattenSeq(q)
  BY DEF File!Records
<1> HIDE DEF d, q, r, n
<1>3. PICK h : Concatenates(h, r, n + 1) /\ File!FlattenSeq(r) = h[n + 1]
  BY <1>1, FlattenIs
<1>4. PICK k \in Nat \ {0} : k = n + 1
  BY <1>1
<1>5. h[k] = IF k = 1 THEN r[k] ELSE h[k - 1] \o r[k]
  <2>1. k \in 1 .. k /\ Concatenates(h, r, k)
    BY <1>3, <1>4
  <2> QED BY <2>1, Zenon DEF Concatenates
<1>6. CASE c = <<>>
  BY <1>1, <1>2, <1>3, <1>4, <1>5, <1>6 DEF d
<1>7. CASE c # <<>>
  <2>1. n \in Nat \ {0} /\ k # 1 /\ k - 1 = n /\ n + 1 \in Nat /\ n <= n + 1
    BY <1>1, <1>4, <1>7
  <2>2. PICK g : Concatenates(g, q, n) /\ File!FlattenSeq(q) = g[n]
    BY <1>1, <2>1, FlattenIs
  <2>3. g[n] = h[n]
    <3>1. n \in Nat /\ k \in Nat /\ n <= n /\ n <= k
      BY <1>4, <2>1
    <3>2. \A i \in 1 .. n : q[i] = r[i]
      BY <1>1
    <3>3. Concatenates(g, q, n) /\ Concatenates(h, r, k)
      BY <1>3, <1>4, <2>2
    <3> QED BY <2>1, <3>1, <3>2, <3>3, ConcatenatesAgree
  <2> QED BY <1>1, <1>2, <1>3, <1>4, <1>5, <1>7, <2>1, <2>2, <2>3 DEF d
<1> QED BY <1>6, <1>7

(* A file of pieces is a log of events. *)
LEMMA RecordsTyped ==
  ASSUME NEW c \in Seq(Pieces)
  PROVE  File!Records(c) \in Seq(Events)
<1> DEFINE Off == {n \in Nat : \E q \in Seq(Pieces) : Len(q) = n /\ File!Records(q) \notin Seq(Events)}
<1>1. SUFFICES ASSUME Off # {} PROVE FALSE
  BY LenProperties
<1>2. PICK n \in Off : \A m \in Off : n <= m
  <2>1. Off \in SUBSET Nat
    OBVIOUS
  <2> HIDE DEF Off
  <2> QED BY <1>1, <2>1, LeastOf
<1>3. PICK q \in Seq(Pieces) : Len(q) = n /\ File!Records(q) \notin Seq(Events)
  OBVIOUS
<1>4. q # <<>>
  BY <1>3, RecordsOfNothing, EmptySeq
<1>5. PICK f \in Seq(Pieces), p \in Pieces : q = Append(f, p) /\ Len(f) = n - 1
  BY <1>3, <1>4, Built
<1>6. Len(f) \in Nat /\ ~(n <= Len(f)) /\ n \in Nat
  BY <1>5, LenProperties
<1>7. File!Records(f) \in Seq(Events)
  BY <1>2, <1>6
<1>8. p.events \in Seq(Events)
  BY DEF Pieces
<1>9. File!Records(q) = IF f = <<>> THEN p.events ELSE File!Records(f) \o p.events
  BY <1>5, RecordsAppend
<1> QED
  BY <1>3, <1>7, <1>8, <1>9, ConcatProperties

LEMMA RecordsOfOneMore ==
  ASSUME NEW c \in Seq(Pieces), NEW p \in Pieces
  PROVE  File!Records(Append(c, p)) = File!Records(c) \o p.events
<1>1. p.events \in Seq(Events)
  BY DEF Pieces
<1> QED
  BY <1>1, RecordsAppend, RecordsOfNothing, ConcatEmptySeq

--------------------------------------------------------------------------------
(* Pieces of sequences *)

(* The first n elements. *)
LEMMA FirstOf ==
  ASSUME NEW S, NEW s \in Seq(S), NEW n \in Nat, n <= Len(s)
  PROVE  /\ SubSeq(s, 1, n) \in Seq(S) /\ Len(SubSeq(s, 1, n)) = n
         /\ \A i \in 1 .. n : SubSeq(s, 1, n)[i] = s[i]
<1>1. Len(s) \in Nat /\ 1 .. n \subseteq 1 .. Len(s)
  BY LenProperties
<1>2. \A i \in 1 .. n : s[i] \in S
  BY <1>1, ElementOfSeq
<1>3. /\ SubSeq(s, 1, n) \in Seq(S)
      /\ Len(SubSeq(s, 1, n)) = IF 1 <= n THEN n - 1 + 1 ELSE 0
      /\ \A i \in 1 .. n - 1 + 1 : SubSeq(s, 1, n)[i] = s[1 + i - 1]
  BY <1>2, SubSeqProperties
<1>4. n - 1 + 1 = n /\ \A i \in 1 .. n : 1 + i - 1 = i
  OBVIOUS
<1> QED BY <1>3, <1>4

(* What is left when they are taken away. *)
LEMMA RestOf ==
  ASSUME NEW S, NEW s \in Seq(S), NEW n \in Nat, n <= Len(s)
  PROVE  /\ SubSeq(s, n + 1, Len(s)) \in Seq(S)
         /\ Len(SubSeq(s, n + 1, Len(s))) = Len(s) - n
         /\ SubSeq(s, 1, n) \o SubSeq(s, n + 1, Len(s)) = s
<1>1. PICK l \in Nat : l = Len(s)
  BY LenProperties
<1>2. PICK m \in Nat : m = n + 1
  OBVIOUS
<1>3. \A i \in m .. l : s[i] \in S
  BY <1>1, <1>2, ElementOfSeq
<1>4. SubSeq(s, m, l) \in Seq(S) /\ Len(SubSeq(s, m, l)) = IF m <= l THEN l - m + 1 ELSE 0
  BY <1>3, SubSeqProperties
<1>5. SubSeq(s, 1, n) \o SubSeq(s, n + 1, l) = SubSeq(s, 1, l)
  <2>1. 1 \in 1 .. Len(s) + 1 /\ n \in 1 - 1 .. Len(s) /\ l \in n .. Len(s)
    BY <1>1
  <2> QED BY <2>1, ConcatAdjacentSubSeq
<1>6. SubSeq(s, 1, l) = s
  BY <1>1, SubSeqFull
<1>7. SubSeq(s, m, l) = SubSeq(s, n + 1, Len(s)) /\ Len(SubSeq(s, m, l)) = l - n
  BY <1>1, <1>2, <1>4
<1> QED BY <1>1, <1>4, <1>5, <1>6, <1>7

LEMMA NoneOf ==
  ASSUME NEW s, NEW n \in Nat
  PROVE  SubSeq(s, n + 1, n) = <<>>
BY SubSeqEmpty

(* A prefix agrees wherever it is. *)
LEMMA PrefixMeans ==
  ASSUME NEW S, NEW s \in Seq(S), NEW t \in Seq(S)
  PROVE  File!IsPrefix(s, t) <=> Len(s) <= Len(t) /\ \A i \in 1 .. Len(s) : s[i] = t[i]
<1>1. PICK n \in Nat : n = Len(s)
  BY LenProperties
<1>2. SubSeq(s, 1, n) = s
  BY <1>1, SubSeqFull
<1>3. ASSUME n <= Len(t) PROVE s = SubSeq(t, 1, n) <=> \A i \in 1 .. n : s[i] = t[i]
  BY <1>1, <1>3, FirstOf, SeqEqual
<1> QED BY <1>1, <1>2, <1>3 DEF File!IsPrefix

LEMMA PrefixOfConcat ==
  ASSUME NEW S, NEW s \in Seq(S), NEW t \in Seq(S), NEW p \in Seq(S), File!IsPrefix(p, s)
  PROVE  File!IsPrefix(p, s \o t)
<1>1. Len(p) \in Nat /\ Len(s) \in Nat /\ Len(t) \in Nat
  BY LenProperties
<1>2. Len(p) <= Len(s) /\ \A i \in 1 .. Len(p) : p[i] = s[i]
  BY PrefixMeans
<1>3. s \o t \in Seq(S) /\ Len(s \o t) = Len(s) + Len(t)
      /\ \A i \in 1 .. Len(s) : (s \o t)[i] = s[i]
  BY <1>1, ConcatProperties
<1>4. Len(p) <= Len(s \o t) /\ \A i \in 1 .. Len(p) : p[i] = (s \o t)[i]
  BY <1>1, <1>2, <1>3
<1> QED BY <1>3, <1>4, PrefixMeans

LEMMA PrefixOfItself ==
  ASSUME NEW S, NEW s \in Seq(S)
  PROVE  File!IsPrefix(s, s) /\ File!IsPrefix(<<>>, s)
<1>1. Len(s) \in Nat /\ <<>> \in Seq(S) /\ Len(<<>>) = 0
  BY LenProperties, EmptySeq
<1>2. File!IsPrefix(s, s)
  BY <1>1, PrefixMeans
<1>3. File!IsPrefix(<<>>, s)
  <2>1. PICK e \in Seq(S) : e = <<>> /\ Len(e) = 0
    BY <1>1
  <2>2. Len(e) <= Len(s) /\ \A i \in 1 .. Len(e) : e[i] = s[i]
    BY <1>1, <2>1
  <2>3. File!IsPrefix(e, s)
    BY <2>2, PrefixMeans
  <2> QED BY <2>1, <2>3
<1> QED BY <1>2, <1>3

(* The largest element, once it is known. *)
LEMMA MaxIs ==
  ASSUME NEW S \in SUBSET Nat, NEW x \in S, \A y \in S : y <= x
  PROVE  File!Max(S) = x
<1>1. \E z \in S : \A y \in S : z >= y
  OBVIOUS
<1>2. File!Max(S) \in S /\ \A y \in S : File!Max(S) >= y
  BY <1>1, Zenon DEF File!Max
<1>3. PICK m \in Nat : m = File!Max(S)
  BY <1>2
<1>4. x \in Nat /\ m <= x /\ m >= x
  BY <1>2, <1>3
<1> QED BY <1>3, <1>4

--------------------------------------------------------------------------------
(* What is read *)

LEMMA ContiguousPrefix ==
  ASSUME NEW s \in Seq(Events), NEW p \in Seq(Events), File!IsPrefix(p, s), File!Contiguous(s)
  PROVE  File!Contiguous(p)
<1>1. Len(p) \in Nat /\ Len(s) \in Nat
  BY LenProperties
<1>2. Len(p) <= Len(s) /\ \A i \in 1 .. Len(p) : p[i] = s[i]
  BY PrefixMeans
<1> QED BY <1>1, <1>2 DEF File!Contiguous

(* A log in order is good to its end. *)
LEMMA GoodToTheEnd ==
  ASSUME NEW s \in Seq(Events), File!Contiguous(s)
  PROVE  File!Good(s) = Len(s)
<1>1. Len(s) \in Nat /\ SubSeq(s, 1, Len(s)) = s
  BY LenProperties, SubSeqFull
<1> DEFINE G == {n \in 0 .. Len(s) : File!Contiguous(SubSeq(s, 1, n))}
<1>2. G \in SUBSET Nat /\ \A y \in G : y <= Len(s)
  BY <1>1
<1>4. Len(s) \in G
  <2>1. Len(s) \in 0 .. Len(s)
    BY <1>1
  <2> QED BY <1>1, <2>1
<1>3. File!Good(s) = File!Max(G)
  BY DEF File!Good
<1> HIDE DEF G
<1> QED BY <1>2, <1>3, <1>4, MaxIs

LEMMA RecordsConcat ==
  ASSUME NEW c \in Seq(Pieces), NEW d \in Seq(Pieces)
  PROVE  File!Records(c \o d) = File!Records(c) \o File!Records(d)
<1> DEFINE Off == {n \in Nat : \E q \in Seq(Pieces) :
                     Len(q) = n /\ File!Records(c \o q) # File!Records(c) \o File!Records(q)}
<1>1. SUFFICES ASSUME Off # {} PROVE FALSE
  BY LenProperties
<1>2. PICK n \in Off : \A m \in Off : n <= m
  <2>1. Off \in SUBSET Nat
    OBVIOUS
  <2> HIDE DEF Off
  <2> QED BY <1>1, <2>1, LeastOf
<1>3. PICK q \in Seq(Pieces) : Len(q) = n /\ File!Records(c \o q) # File!Records(c) \o File!Records(q)
  OBVIOUS
<1>0. File!Records(c) \in Seq(Events)
  BY RecordsTyped
<1>4. q # <<>>
  <2>1. c \o <<>> = c /\ File!Records(c) \o <<>> = File!Records(c)
    BY <1>0, ConcatEmptySeq
  <2> QED BY <1>3, <2>1, RecordsOfNothing
<1>5. PICK f \in Seq(Pieces), p \in Pieces : q = Append(f, p) /\ Len(f) = n - 1
  <2>1. \E f \in Seq(Pieces), p \in Pieces : q = Append(f, p) /\ Len(f) = Len(q) - 1
    BY <1>4, Parted
  <2> QED BY <1>3, <2>1
<1>6. Len(f) \in Nat /\ ~(n <= Len(f)) /\ n \in Nat
  BY <1>5, LenProperties
<1>7. File!Records(c \o f) = File!Records(c) \o File!Records(f)
  BY <1>2, <1>6
<1>8. File!Records(q) = File!Records(f) \o p.events /\ File!Records(f) \in Seq(Events)
        /\ p.events \in Seq(Events)
  BY <1>5, RecordsOfOneMore, RecordsTyped DEF Pieces
<1>9. c \o q = Append(c \o f, p) /\ c \o f \in Seq(Pieces)
  <2>1. c \o f \in Seq(Pieces) /\ <<p>> \in Seq(Pieces)
    BY ConcatProperties
  <2>2. Append(f, p) = f \o <<p>> /\ Append(c \o f, p) = (c \o f) \o <<p>>
    BY <2>1, AppendIsConcat
  <2>3. (c \o f) \o <<p>> = c \o (f \o <<p>>)
    BY <2>1, ConcatAssociative, SMTT(40)
  <2> QED BY <1>5, <2>1, <2>2, <2>3
<1>10. File!Records(c \o q) = File!Records(c \o f) \o p.events
  BY <1>9, RecordsOfOneMore
<1>11. (File!Records(c) \o File!Records(f)) \o p.events = File!Records(c) \o (File!Records(f) \o p.events)
  <2>1. PICK r \in Seq(Events), u \in Seq(Events), v \in Seq(Events) :
          r = File!Records(c) /\ u = File!Records(f) /\ v = p.events
    BY <1>0, <1>8
  <2>2. (r \o u) \o v = r \o (u \o v)
    BY ConcatAssociative, SMTT(40)
  <2> QED BY <2>1, <2>2
<1> QED BY <1>3, <1>7, <1>8, <1>10, <1>11

(* Of lines with an event each, the events are the lines'. *)
LEMMA LineRecords ==
  ASSUME NEW c \in Seq(Pieces), \A i \in 1 .. Len(c) : Len(c[i].events) = 1
  PROVE  Len(File!Records(c)) = Len(c) /\ \A i \in 1 .. Len(c) : File!Records(c)[i] = c[i].events[1]
<1> DEFINE Plain(q) == \A i \in 1 .. Len(q) : Len(q[i].events) = 1
           Says(q) == Len(File!Records(q)) = Len(q)
               /\ \A i \in 1 .. Len(q) : File!Records(q)[i] = q[i].events[1]
           Off == {n \in Nat : \E q \in Seq(Pieces) : Len(q) = n /\ Plain(q) /\ ~Says(q)}
<1>1. SUFFICES ASSUME Off # {} PROVE FALSE
  BY LenProperties
<1>2. PICK n \in Off : \A m \in Off : n <= m
  <2>1. Off \in SUBSET Nat
    OBVIOUS
  <2> HIDE DEF Off
  <2> QED BY <1>1, <2>1, LeastOf
<1>3. PICK q \in Seq(Pieces) : Len(q) = n /\ Plain(q) /\ ~Says(q)
  OBVIOUS
<1>4. q # <<>>
  BY <1>3, RecordsOfNothing, EmptySeq
<1>5. PICK f \in Seq(Pieces), p \in Pieces : q = Append(f, p) /\ Len(f) = n - 1
  <2>1. \E f \in Seq(Pieces), p \in Pieces : q = Append(f, p) /\ Len(f) = Len(q) - 1
    BY <1>4, Parted
  <2> QED BY <1>3, <2>1
<1>6. Len(f) \in Nat /\ ~(n <= Len(f)) /\ n \in Nat \ {0}
  BY <1>3, <1>4, <1>5, LenProperties, EmptySeq
<1>7. (\A i \in 1 .. Len(f) : q[i] = f[i]) /\ q[n] = p
  BY <1>5, <1>6, AppendProperties
<1>8. Plain(f) /\ Len(p.events) = 1
  BY <1>3, <1>5, <1>6, <1>7
<1>9. Says(f)
  BY <1>2, <1>6, <1>8
<1>10. File!Records(q) = File!Records(f) \o p.events /\ File!Records(f) \in Seq(Events)
         /\ p.events \in Seq(Events)
  BY <1>5, RecordsOfOneMore, RecordsTyped DEF Pieces
<1>11. Len(File!Records(q)) = n /\ (\A i \in 1 .. n - 1 : File!Records(q)[i] = File!Records(f)[i])
       /\ File!Records(q)[n] = p.events[1]
  <2>1. Len(File!Records(f)) = n - 1
    BY <1>5, <1>9
  <2>2. n - (n - 1) = 1 /\ (n - 1) + 1 = n /\ n - 1 \in Nat
    BY <1>6
  <2>3. /\ Len(File!Records(q)) = (n - 1) + 1
        /\ \A i \in 1 .. n : File!Records(q)[i]
             = IF i <= n - 1 THEN File!Records(f)[i] ELSE p.events[i - (n - 1)]
    <3>1. PICK r \in Seq(Events), u \in Seq(Events) : r = File!Records(f) /\ u = p.events
      BY <1>10
    <3>2. Len(r) = n - 1 /\ Len(u) = 1
      BY <1>8, <2>1, <3>1
    <3>3. /\ Len(r \o u) = (n - 1) + 1
          /\ \A i \in 1 .. (n - 1) + 1 : (r \o u)[i] = IF i <= n - 1 THEN r[i] ELSE u[i - (n - 1)]
      <4>1. /\ Len(r \o u) = Len(r) + Len(u)
            /\ \A i \in 1 .. Len(r) + Len(u) : (r \o u)[i] = IF i <= Len(r) THEN r[i] ELSE u[i - Len(r)]
        BY ConcatProperties
      <4> QED BY <3>2, <4>1
    <3> QED BY <1>10, <2>2, <3>1, <3>3
  <2> QED BY <1>6, <2>2, <2>3
<1>12. Says(q)
  BY <1>3, <1>5, <1>6, <1>7, <1>9, <1>11
<1> QED BY <1>3, <1>12

(* A file that may be found, and what a repair keeps of it, as sequences. *)
LEMMA MendedTyped ==
  ASSUME NEW c \in Seq(Pieces)
  PROVE  /\ Mended(c) \in Seq(Pieces)
         /\ ~Whole(c) => /\ c # <<>> /\ Mended(c) = SubSeq(c, 1, Len(c) - 1)
                         /\ Len(Mended(c)) = Len(c) - 1 /\ c[Len(c)] \in Pieces
                         /\ c = Append(Mended(c), c[Len(c)])
                         /\ \A i \in 1 .. Len(c) - 1 : Mended(c)[i] = c[i]
<1>1. CASE Whole(c)
  BY <1>1 DEF Mended
<1>2. CASE ~Whole(c)
  BY <1>2, EmptySeq, Built, AppendProperties DEF Whole, Mended
<1> QED BY <1>1, <1>2

(* What a torn last piece adds to the events of the others. *)
LEMMA TornEvents ==
  ASSUME NEW c \in Seq(Pieces)
  PROVE  /\ File!Records(c) \in Seq(Events) /\ File!Records(Mended(c)) \in Seq(Events)
         /\ Len(File!Records(Mended(c))) <= Len(File!Records(c))
         /\ File!IsPrefix(File!Records(Mended(c)), File!Records(c))
         /\ ~Whole(c) => File!Records(c) = File!Records(Mended(c)) \o c[Len(c)].events
<1>1. File!Records(c) \in Seq(Events) /\ File!Records(Mended(c)) \in Seq(Events)
  BY MendedTyped, RecordsTyped
<1>2. CASE Whole(c)
  BY <1>1, <1>2, PrefixOfItself, LenProperties DEF Mended
<1>3. CASE ~Whole(c)
  <2>1. PICK p \in Pieces : p = c[Len(c)]
    BY <1>3, MendedTyped
  <2>2. File!Records(Append(Mended(c), p)) = File!Records(Mended(c)) \o p.events
          /\ p.events \in Seq(Events)
    BY <2>1, MendedTyped, RecordsOfOneMore DEF Pieces
  <2>3. File!Records(c) = File!Records(Mended(c)) \o p.events
    BY <1>3, <2>1, <2>2, MendedTyped
  <2>4. PICK r \in Seq(Events), u \in Seq(Events) : r = File!Records(Mended(c)) /\ u = p.events
    BY <1>1, <2>2
  <2>5. File!IsPrefix(r, r \o u)
    BY PrefixOfItself, PrefixOfConcat
  <2>6. Len(r) <= Len(r \o u)
    BY <2>5 DEF File!IsPrefix
  <2> QED BY <1>1, <2>1, <2>3, <2>4, <2>5, <2>6
<1> QED BY <1>2, <1>3

(* The frames of a file that may be found decode, to its events. *)
LEMMA FramesRead ==
  ASSUME NEW c, Sound(c)
  PROVE  LET r == File!ReadFrames(c) IN
         /\ r.ok /\ r.events = File!Records(c) /\ r.kept = Mended(c) /\ (r.torn <=> ~Whole(c))
         /\ r.recovered \in Seq(Events) /\ File!Records(Mended(c)) \o r.recovered = File!Records(c)
<1> DEFINE torn == c # <<>> /\ ~File!Last(c).whole
           kept == IF torn THEN File!Front(c) ELSE c
           all == File!Records(c)
           n == File!Good(all)
<1>1. c \in Seq(Pieces) /\ Len(c) \in Nat /\ all \in Seq(Events)
  BY TornEvents, LenProperties DEF Sound
<1>2. torn <=> ~Whole(c)
  BY <1>1, EmptySeq DEF File!Last, Whole, Sound
<1>3. kept = Mended(c)
  BY <1>2 DEF Mended, File!Front
<1>4. n = Len(all) /\ Len(all) \in Nat
  BY <1>1, GoodToTheEnd, LenProperties DEF Sound
<1>5. SubSeq(all, 1, n) = all /\ SubSeq(all, n + 1, Len(all)) = <<>>
  BY <1>1, <1>4, SubSeqFull, NoneOf
<1>6. \A i \in 1 .. Len(kept) : kept[i].whole
  <2>1. CASE Whole(c)
    BY <1>3, <2>1 DEF Whole, Mended
  <2>2. CASE ~Whole(c)
    BY <1>1, <1>3, <2>2, MendedTyped DEF Sound
  <2> QED BY <2>1, <2>2
<1>7. Len(File!Records(kept)) \in Nat /\ Len(File!Records(kept)) <= n
  BY <1>1, <1>3, <1>4, TornEvents, LenProperties
<1>8. ~File!HasEnd(SubSeq(all, n + 1, Len(all)))
  <2>1. Len(<<>>) = 0
    BY EmptySeq
  <2>2. ~File!HasEnd(<<>>)
    BY <2>1 DEF File!HasEnd
  <2> QED BY <1>5, <2>2
<1>9. PICK k \in Nat : k = Len(File!Records(kept))
  BY <1>7
<1>10. SubSeq(all, k + 1, n) \in Seq(Events) /\ SubSeq(all, 1, k) \o SubSeq(all, k + 1, n) = all
  BY <1>1, <1>4, <1>7, <1>9, RestOf
<1>11. SubSeq(all, 1, k) = File!Records(Mended(c))
  BY <1>1, <1>3, <1>9, SubSeqFull, TornEvents DEF File!IsPrefix
<1>12. /\ File!ReadFrames(c).ok = (/\ \A i \in 1 .. Len(kept) : kept[i].whole
                              /\ n >= Len(File!Records(kept))
                              /\ ~File!HasEnd(SubSeq(all, n + 1, Len(all))))
       /\ File!ReadFrames(c).events = SubSeq(all, 1, n) /\ File!ReadFrames(c).kept = kept
       /\ File!ReadFrames(c).torn = torn
       /\ File!ReadFrames(c).recovered = SubSeq(all, Len(File!Records(kept)) + 1, n)
  BY Zenon DEF File!ReadFrames
<1> HIDE DEF torn, kept, all, n
<1>13. File!ReadFrames(c).ok
  BY <1>4, <1>6, <1>7, <1>8, <1>12
<1>14. File!ReadFrames(c).events = File!Records(c)
  BY <1>5, <1>12 DEF all
<1>15. File!ReadFrames(c).kept = Mended(c) /\ (File!ReadFrames(c).torn <=> ~Whole(c))
  BY <1>2, <1>3, <1>12
<1>16. /\ File!ReadFrames(c).recovered \in Seq(Events)
       /\ File!Records(Mended(c)) \o File!ReadFrames(c).recovered = File!Records(c)
  BY <1>9, <1>10, <1>11, <1>12 DEF all
<1> QED BY <1>13, <1>14, <1>15, <1>16

(* The lines of a file that may be found parse, but for a torn one. *)
LEMMA LinesRead ==
  ASSUME NEW c, Sound(c), ~compressed
  PROVE  LET r == File!ReadLines(c) IN
         /\ r.ok /\ r.events = File!Records(c) /\ r.kept = Mended(c) /\ (r.torn <=> ~Whole(c))
         /\ r.recovered \in Seq(Events) /\ File!Records(Mended(c)) \o r.recovered = File!Records(c)
<1> DEFINE Parses(i) == c[i].whole /\ (i = 1 \/ c[i - 1].whole)
           Fits(i) == Parses(i) /\ c[i].events[1].seq = i
           N == {k \in 0 .. Len(c) : \A i \in 1 .. k : Fits(i)}
           n == File!Max(N)
           kept == SubSeq(c, 1, n)
<1>1. c \in Seq(Pieces) /\ Len(c) \in Nat /\ File!Records(c) \in Seq(Events)
        /\ File!Records(Mended(c)) \in Seq(Events)
  BY TornEvents, LenProperties DEF Sound
<1>2. PICK l \in Nat : l = Len(Mended(c)) /\ l = IF Whole(c) THEN Len(c) ELSE Len(c) - 1
  BY <1>1, MendedTyped, LenProperties DEF Mended
<1>3. /\ l <= Len(c) /\ \A i \in 1 .. l : c[i].whole /\ Len(c[i].events) = 1 /\ Mended(c)[i] = c[i]
      /\ \A i \in 1 .. Len(c) : i > l => i = Len(c) /\ ~c[i].whole /\ Len(c[i].events) = 0
  <2>1. CASE Whole(c)
    <3>1. Mended(c) = c /\ l = Len(c)
      BY <1>2, <2>1 DEF Mended
    <3>2. \A i \in 1 .. Len(c) : c[i].whole /\ Len(c[i].events) = 1
      BY <2>1 DEF Whole, Sound, Shaped
    <3>3. \A i \in 1 .. Len(c) : ~(i > l)
      BY <1>1, <3>1
    <3> QED BY <1>1, <3>1, <3>2, <3>3
  <2>2. CASE ~Whole(c)
    <3>1. Len(c) \in 1 .. Len(c) /\ l = Len(c) - 1
      BY <1>1, <1>2, <2>2, MendedTyped, EmptySeq
    <3>2. \A i \in 1 .. Len(c) - 1 : c[i].whole
      BY DEF Sound
    <3>3. ~c[Len(c)].whole
      BY <1>1, <2>2, <3>1, <3>2 DEF Whole
    <3>4. \A i \in 1 .. Len(c) : Len(c[i].events) = IF c[i].whole THEN 1 ELSE 0
      BY DEF Sound, Shaped
    <3>5. \A i \in 1 .. Len(c) - 1 : Mended(c)[i] = c[i]
      BY <1>1, <2>2, MendedTyped
    <3>6. \A i \in 1 .. l : i \in 1 .. Len(c) - 1 /\ i \in 1 .. Len(c)
      BY <1>1, <3>1
    <3>7. \A i \in 1 .. l : c[i].whole /\ Len(c[i].events) = 1 /\ Mended(c)[i] = c[i]
      BY <3>2, <3>4, <3>5, <3>6
    <3>8. \A i \in 1 .. Len(c) : i > l => i = Len(c)
      BY <1>1, <3>1
    <3>9. ~c[Len(c)].whole /\ Len(c[Len(c)].events) = 0
      BY <3>1, <3>3, <3>4
    <3> QED BY <1>1, <3>1, <3>7, <3>8, <3>9
  <2> QED BY <2>1, <2>2
<1>4. Len(File!Records(Mended(c))) = l /\ \A i \in 1 .. l : File!Records(Mended(c))[i] = c[i].events[1]
  <2>1. Mended(c) \in Seq(Pieces) /\ \A i \in 1 .. Len(Mended(c)) : Len(Mended(c)[i].events) = 1
    BY <1>1, <1>2, <1>3, MendedTyped
  <2>2. /\ Len(File!Records(Mended(c))) = Len(Mended(c))
        /\ \A i \in 1 .. Len(Mended(c)) : File!Records(Mended(c))[i] = Mended(c)[i].events[1]
    BY <2>1, LineRecords
  <2> QED BY <1>2, <1>3, <2>2
<1>5. File!Records(c) = File!Records(Mended(c))
  <2>1. CASE Whole(c)
    BY <2>1 DEF Mended
  <2>2. CASE ~Whole(c)
    <3>1. Len(c) \in 1 .. Len(c) /\ Len(c) > l
      BY <1>1, <1>2, <2>2, MendedTyped, EmptySeq
    <3>2. PICK u \in Seq(Events) : u = c[Len(c)].events
      BY <1>1, <2>2, MendedTyped DEF Pieces
    <3>3. Len(u) = 0
      BY <1>3, <3>1, <3>2
    <3>4. u = <<>>
      BY <3>3, EmptySeq
    <3>5. File!Records(c) = File!Records(Mended(c)) \o <<>>
      BY <1>1, <2>2, <3>2, <3>4, TornEvents
    <3> QED BY <1>1, <3>5, ConcatEmptySeq
  <2> QED BY <2>1, <2>2
<1>6. \A i \in 1 .. l : Fits(i)
  BY <1>3, <1>4, <1>5 DEF Sound, File!Contiguous
<1>7. \A i \in 1 .. Len(c) : i > l => ~Parses(i)
  BY <1>3
<1> HIDE DEF Parses
<1>8. n = l
  <2>1. N \in SUBSET Nat
    OBVIOUS
  <2>2. l \in N
    BY <1>1, <1>3, <1>6
  <2>3. ASSUME NEW y \in N PROVE y <= l
    BY <1>1, <1>7
  <2> HIDE DEF N
  <2> QED BY <2>1, <2>2, <2>3, MaxIs
<1>9. kept = Mended(c)
  BY <1>1, <1>2, <1>8, SubSeqFull, MendedTyped DEF Mended
<1>10. \A i \in n + 1 .. Len(c) : Parses(i) => ~File!HasEnd(c[i].events)
  BY <1>1, <1>7, <1>8
<1>11. (n < Len(c)) <=> ~Whole(c)
  <2>1. (l < Len(c)) <=> ~Whole(c)
    BY <1>1, <1>2
  <2> HIDE DEF n
  <2> QED BY <1>8, <2>1
<1>12. /\ File!ReadLines(c).ok = (\A i \in n + 1 .. Len(c) : Parses(i) => ~File!HasEnd(c[i].events))
       /\ File!ReadLines(c).events = File!Records(kept) /\ File!ReadLines(c).kept = kept
       /\ File!ReadLines(c).torn = (n < Len(c))
       /\ File!ReadLines(c).recovered = <<>>
  BY Zenon DEF File!ReadLines, Parses
<1> HIDE DEF N, kept, n
<1>13. File!ReadLines(c).ok
  BY <1>10, <1>12
<1>14. File!ReadLines(c).events = File!Records(c) /\ File!ReadLines(c).kept = Mended(c)
         /\ (File!ReadLines(c).torn <=> ~Whole(c))
  BY <1>5, <1>9, <1>11, <1>12
<1>15. /\ File!ReadLines(c).recovered \in Seq(Events)
       /\ File!Records(Mended(c)) \o File!ReadLines(c).recovered = File!Records(c)
  BY <1>1, <1>5, <1>12, EmptySeq, ConcatEmptySeq
<1> QED BY <1>13, <1>14, <1>15

(* So a file that may be found is read: what it holds, what a repair keeps, *)
(* and what is left to write again.                                         *)
LEMMA FileReads ==
  ASSUME NEW c, Sound(c)
  PROVE  /\ File!Read(c).ok /\ File!Read(c).events = File!Records(c) /\ File!Read(c).kept = Mended(c)
         /\ File!Read(c).torn <=> ~Whole(c)
         /\ File!Read(c).recovered \in Seq(Events)
         /\ File!Records(Mended(c)) \o File!Read(c).recovered = File!Records(c)
<1>1. CASE compressed
  BY <1>1, FramesRead DEF File!Read
<1>2. CASE ~compressed
  BY <1>2, LinesRead DEF File!Read
<1> QED BY <1>1, <1>2

--------------------------------------------------------------------------------
(* What is written *)

(* An encoding holds its events in whole pieces. *)
LEMMA EncodedIs ==
  ASSUME NEW e \in Seq(Events)
  PROVE  /\ File!Encoded(e) \in Seq(Pieces) /\ Whole(File!Encoded(e)) /\ Shaped(File!Encoded(e))
         /\ File!Records(File!Encoded(e)) = e
         /\ ~compressed => Len(File!Encoded(e)) = Len(e)
              /\ \A i \in 1 .. Len(e) : File!Encoded(e)[i] = File!Piece(<<e[i]>>, TRUE)
<1>1. CASE compressed
  <2>1. PICK p \in Pieces : p = File!Piece(e, TRUE) /\ p.whole /\ p.events = e
    <3>1. [events |-> e, whole |-> TRUE] \in Pieces
      BY DEF Pieces
    <3> QED BY <3>1 DEF File!Piece
  <2>2. /\ File!Encoded(e) = <<p>> /\ <<>> \in Seq(Pieces) /\ <<p>> = Append(<<>>, p)
        /\ Len(<<p>>) = 1 /\ <<p>>[1] = p
    <3>1. File!Encoded(e) = <<p>>
      BY <1>1, <2>1, Zenon DEF File!Encoded
    <3> QED BY <3>1
  <2>3. <<p>> \in Seq(Pieces)
    OBVIOUS
  <2>4. File!Records(<<p>>) = <<>> \o p.events
    BY <2>2, RecordsOfOneMore, RecordsOfNothing
  <2>5. <<>> \o e = e
    BY ConcatEmptySeq
  <2>6. Whole(<<p>>)
    <3>1. \A i \in 1 .. Len(<<p>>) : i = 1
      BY <2>2
    <3> QED BY <2>1, <2>2, <3>1 DEF Whole
  <2>7. Shaped(<<p>>)
    BY <1>1 DEF Shaped
  <2> QED BY <1>1, <2>1, <2>2, <2>3, <2>4, <2>5, <2>6, <2>7
<1>2. CASE ~compressed
  <2>1. PICK l \in Nat : l = Len(e)
    BY LenProperties
  <2>2. File!Encoded(e) = [i \in 1 .. l |-> File!Piece(<<e[i]>>, TRUE)]
    BY <1>2, <2>1 DEF File!Encoded
  <2>3. \A i \in 1 .. l : /\ File!Piece(<<e[i]>>, TRUE) \in Pieces /\ File!Piece(<<e[i]>>, TRUE).whole
                          /\ Len(File!Piece(<<e[i]>>, TRUE).events) = 1
                          /\ File!Piece(<<e[i]>>, TRUE).events[1] = e[i]
    BY <2>1, ElementOfSeq DEF File!Piece, Pieces
  <2>4. File!Encoded(e) \in Seq(Pieces) /\ Len(File!Encoded(e)) = l
        /\ \A i \in 1 .. l : File!Encoded(e)[i] = File!Piece(<<e[i]>>, TRUE)
    <3>1. File!Encoded(e) \in [1 .. l -> Pieces]
            /\ \A i \in 1 .. l : File!Encoded(e)[i] = File!Piece(<<e[i]>>, TRUE)
      BY <2>2, <2>3
    <3>2. File!Encoded(e) \in Seq(Pieces)
      BY <3>1, SeqDef
    <3>3. DOMAIN File!Encoded(e) = 1 .. Len(File!Encoded(e)) /\ DOMAIN File!Encoded(e) = 1 .. l
            /\ Len(File!Encoded(e)) \in Nat
      BY <3>1, <3>2, LenProperties
    <3>4. Len(File!Encoded(e)) = l
      <4>1. PICK k \in Nat : k = Len(File!Encoded(e))
        BY <3>3
      <4>2. \A x \in Nat : x \in 1 .. k <=> x \in 1 .. l
        BY <3>3, <4>1
      <4>3. k \in 1 .. k <=> k \in 1 .. l
        BY <4>2
      <4>4. l \in 1 .. k <=> l \in 1 .. l
        BY <4>2
      <4> QED BY <4>1, <4>3, <4>4
    <3> QED BY <3>1, <3>2, <3>4
  <2>5. \A i \in 1 .. l : /\ File!Encoded(e)[i].whole /\ Len(File!Encoded(e)[i].events) = 1
                          /\ File!Encoded(e)[i].events[1] = e[i]
    BY <2>3, <2>4
  <2>6. Len(File!Records(File!Encoded(e))) = l
          /\ \A i \in 1 .. l : File!Records(File!Encoded(e))[i] = e[i]
    BY <2>4, <2>5, LineRecords
  <2>7. File!Records(File!Encoded(e)) = e
    BY <2>1, <2>4, <2>6, RecordsTyped, SeqEqual
  <2> QED BY <2>1, <2>4, <2>5, <2>7 DEF Whole, Shaped
<1> QED BY <1>1, <1>2

LEMMA ConcatIs ==
  ASSUME NEW S, NEW s \in Seq(S), NEW t \in Seq(S)
  PROVE  \E u \in Seq(S) :
           /\ u = s \o t /\ Len(u) = Len(s) + Len(t)
           /\ \A i \in 1 .. Len(s) + Len(t) : u[i] = IF i <= Len(s) THEN s[i] ELSE t[i - Len(s)]
<1>1. /\ s \o t \in Seq(S) /\ Len(s \o t) = Len(s) + Len(t)
      /\ \A i \in 1 .. Len(s) + Len(t) : (s \o t)[i] = IF i <= Len(s) THEN s[i] ELSE t[i - Len(s)]
  BY ConcatProperties
<1>2. WITNESS s \o t \in Seq(S)
<1> QED BY <1>1

LEMMA FirstIs ==
  ASSUME NEW S, NEW s \in Seq(S), NEW n \in Nat, n <= Len(s)
  PROVE  \E u \in Seq(S) : u = SubSeq(s, 1, n) /\ Len(u) = n /\ \A i \in 1 .. n : u[i] = s[i]
<1>1. /\ SubSeq(s, 1, n) \in Seq(S) /\ Len(SubSeq(s, 1, n)) = n
      /\ \A i \in 1 .. n : SubSeq(s, 1, n)[i] = s[i]
  BY FirstOf
<1>2. WITNESS SubSeq(s, 1, n) \in Seq(S)
<1> QED BY <1>1

LEMMA AllButLast ==
  ASSUME NEW S, NEW q \in Seq(S), NEW x \in S
  PROVE  SubSeq(Append(q, x), 1, Len(Append(q, x)) - 1) = q
<1>1. PICK n \in Nat : n = Len(q)
  BY LenProperties
<1>2. Append(q, x) \in Seq(S) /\ Len(Append(q, x)) = n + 1 /\ \A i \in 1 .. n : Append(q, x)[i] = q[i]
  BY <1>1, AppendProperties
<1>3. Len(Append(q, x)) - 1 = n /\ n <= Len(Append(q, x))
  BY <1>2
<1>4. /\ SubSeq(Append(q, x), 1, n) \in Seq(S) /\ Len(SubSeq(Append(q, x), 1, n)) = n
      /\ \A i \in 1 .. n : SubSeq(Append(q, x), 1, n)[i] = Append(q, x)[i]
  BY <1>2, <1>3, FirstOf
<1>5. SubSeq(Append(q, x), 1, n) = q
  BY <1>1, <1>2, <1>4, SeqEqual
<1> QED BY <1>3, <1>5

(* More pieces behind whole ones are whole as far as they are. *)
LEMMA WholeConcat ==
  ASSUME NEW c \in Seq(Pieces), NEW d \in Seq(Pieces), Whole(c)
  PROVE  /\ Whole(c \o d) <=> Whole(d)
         /\ Mended(c \o d) = c \o Mended(d)
<1>1. Len(c) \in Nat /\ Len(d) \in Nat
  BY LenProperties
<1>2. PICK u \in Seq(Pieces) : /\ u = c \o d /\ Len(u) = Len(c) + Len(d)
                               /\ \A i \in 1 .. Len(c) + Len(d) : u[i]
                                    = IF i <= Len(c) THEN c[i] ELSE d[i - Len(c)]
  <2>1. /\ c \o d \in Seq(Pieces) /\ Len(c \o d) = Len(c) + Len(d)
        /\ \A i \in 1 .. Len(c) + Len(d) :
             (c \o d)[i] = IF i <= Len(c) THEN c[i] ELSE d[i - Len(c)]
    BY ConcatProperties
  <2>2. PICK v : v = c \o d
    OBVIOUS
  <2> QED BY <2>1, <2>2
<1>3. ASSUME Whole(u) PROVE Whole(d)
  BY <1>1, <1>2, <1>3 DEF Whole
<1>4. ASSUME Whole(d) PROVE Whole(u)
  BY <1>1, <1>2, <1>4 DEF Whole
<1>5. CASE Whole(d)
  BY <1>2, <1>4, <1>5 DEF Mended
<1>6. CASE ~Whole(d)
  BY <1>3, <1>6, MendedTyped, ConcatProperties, AppendIsConcat, ConcatAssociative, <1>2,
     AllButLast DEF Mended
<1> QED BY <1>5, <1>6

(* Whole pieces, and more behind them that continue the log. *)
LEMMA Grown ==
  ASSUME NEW c, Sound(c), Whole(c), NEW d \in Seq(Pieces),
         \A i \in 1 .. Len(d) - 1 : d[i].whole, Shaped(d),
         File!Contiguous(File!Records(c) \o File!Records(d))
  PROVE  /\ Sound(c \o d) /\ (Whole(c \o d) <=> Whole(d))
         /\ File!Records(c \o d) = File!Records(c) \o File!Records(d)
         /\ File!IsPrefix(File!Records(c), File!Records(Mended(c \o d)))
<1>1. c \in Seq(Pieces) /\ Len(c) \in Nat /\ Len(d) \in Nat
  BY LenProperties DEF Sound
<1>2. PICK u \in Seq(Pieces) : /\ u = c \o d /\ Len(u) = Len(c) + Len(d)
                               /\ \A i \in 1 .. Len(c) + Len(d) : u[i]
                                    = IF i <= Len(c) THEN c[i] ELSE d[i - Len(c)]
  BY <1>1, ConcatIs
<1>3. File!Records(u) = File!Records(c) \o File!Records(d)
  BY <1>1, <1>2, RecordsConcat
<1>4. (Whole(u) <=> Whole(d)) /\ Mended(u) = c \o Mended(d)
  BY <1>1, <1>2, WholeConcat
<1>5. File!IsPrefix(File!Records(c), File!Records(Mended(u)))
  <2>1. PICK k \in Seq(Pieces) : k = Mended(d)
    BY MendedTyped
  <2>2. File!Records(Mended(u)) = File!Records(c) \o File!Records(k)
    BY <1>1, <1>4, <2>1, RecordsConcat
  <2>3. PICK r \in Seq(Events), s \in Seq(Events) : r = File!Records(c) /\ s = File!Records(k)
    BY <1>1, RecordsTyped
  <2>4. File!IsPrefix(r, r \o s)
    BY PrefixOfItself, PrefixOfConcat
  <2> QED BY <2>2, <2>3, <2>4
<1>6. \A i \in 1 .. Len(u) - 1 : u[i].whole
  BY <1>1, <1>2 DEF Whole
<1>7. Shaped(u)
  <2>1. SUFFICES ASSUME ~compressed, NEW i \in 1 .. Len(c) + Len(d)
        PROVE  Len(u[i].events) = IF u[i].whole THEN 1 ELSE 0
    BY <1>2 DEF Shaped
  <2>2. CASE i <= Len(c)
    BY <1>1, <1>2, <2>1, <2>2 DEF Sound, Shaped
  <2>3. CASE ~(i <= Len(c))
    BY <1>1, <1>2, <2>1, <2>3 DEF Shaped
  <2> QED BY <2>2, <2>3
<1>8. Sound(u)
  BY <1>2, <1>3, <1>6, <1>7 DEF Sound
<1> QED BY <1>2, <1>3, <1>4, <1>5, <1>8

(* A write that is through. *)
LEMMA Extended ==
  ASSUME NEW c, Sound(c), Whole(c), NEW e, Continues(c, e)
  PROVE  /\ Sound(c \o File!Encoded(e)) /\ Whole(c \o File!Encoded(e))
         /\ File!Records(c \o File!Encoded(e)) = File!Records(c) \o e
         /\ File!IsPrefix(File!Records(c), File!Records(Mended(c \o File!Encoded(e))))
<1>1. e \in Seq(Events) /\ File!Contiguous(File!Records(c) \o e)
  BY DEF Continues
<1>2. PICK d \in Seq(Pieces) : d = File!Encoded(e) /\ Whole(d) /\ Shaped(d) /\ File!Records(d) = e
  BY <1>1, EncodedIs
<1>3. \A i \in 1 .. Len(d) - 1 : d[i].whole
  BY <1>2, LenProperties DEF Whole
<1>4. File!Contiguous(File!Records(c) \o File!Records(d))
  BY <1>1, <1>2
<1>5. /\ Sound(c \o d) /\ (Whole(c \o d) <=> Whole(d))
      /\ File!Records(c \o d) = File!Records(c) \o File!Records(d)
      /\ File!IsPrefix(File!Records(c), File!Records(Mended(c \o d)))
  BY <1>2, <1>3, <1>4, Grown
<1> QED BY <1>2, <1>5

LEMMA EncodedFirst ==
  ASSUME NEW e \in Seq(Events), NEW k \in Nat, k <= Len(e), ~compressed
  PROVE  SubSeq(File!Encoded(e), 1, k) = File!Encoded(SubSeq(e, 1, k))
<1>1. PICK q \in Seq(Events) : q = SubSeq(e, 1, k) /\ Len(q) = k /\ \A i \in 1 .. k : q[i] = e[i]
  <2>1. \E u \in Seq(Events) : u = SubSeq(e, 1, k) /\ Len(u) = k /\ \A i \in 1 .. k : u[i] = e[i]
    BY FirstIs
  <2> QED BY <2>1
<1>2. PICK f \in Seq(Pieces) : /\ f = File!Encoded(e) /\ Len(f) = Len(e)
                               /\ \A i \in 1 .. Len(e) : f[i] = File!Piece(<<e[i]>>, TRUE)
  BY EncodedIs
<1>3. PICK g \in Seq(Pieces) : /\ g = File!Encoded(q) /\ Len(g) = k
                               /\ \A i \in 1 .. k : g[i] = File!Piece(<<q[i]>>, TRUE)
  BY <1>1, EncodedIs
<1>4. k <= Len(f)
  BY <1>2
<1>5. PICK s \in Seq(Pieces) : s = SubSeq(f, 1, k) /\ Len(s) = k /\ \A i \in 1 .. k : s[i] = f[i]
  <2>1. /\ SubSeq(f, 1, k) \in Seq(Pieces) /\ Len(SubSeq(f, 1, k)) = k
        /\ \A i \in 1 .. k : SubSeq(f, 1, k)[i] = f[i]
    BY <1>4, FirstOf
  <2> QED BY <2>1
<1>6. \A i \in 1 .. k : i \in 1 .. Len(e)
  BY LenProperties
<1>7. \A i \in 1 .. k : s[i] = g[i]
  BY <1>1, <1>2, <1>3, <1>5, <1>6
<1>8. s = g
  BY <1>3, <1>5, <1>7, SeqEqual
<1> QED BY <1>1, <1>2, <1>3, <1>5, <1>8

(* What a write that broke off may leave. *)
LEMMA FragmentsAre ==
  ASSUME NEW e \in Seq(Events), NEW t \in File!Fragments(e)
  PROVE  /\ t \in Seq(Pieces) /\ (\A i \in 1 .. Len(t) - 1 : t[i].whole)
         /\ Shaped(t) /\ File!IsPrefix(File!Records(t), e)
<1>0. /\ <<>> \in Seq(Pieces) /\ Len(<<>>) = 0 /\ File!IsPrefix(<<>>, e) /\ Len(e) \in Nat
      /\ \A q \in Seq(Events) : <<>> \o q = q /\ q \o <<>> = q
  BY EmptySeq, PrefixOfItself, LenProperties, ConcatEmptySeq
<1>1. ASSUME NEW n \in Nat, n <= Len(e)
      PROVE  SubSeq(e, 1, n) \in Seq(Events) /\ Len(SubSeq(e, 1, n)) = n
                 /\ File!IsPrefix(SubSeq(e, 1, n), e)
             /\ \A i \in 1 .. n : SubSeq(e, 1, n)[i] = e[i]
  <2>1. PICK s \in Seq(Events) : s = SubSeq(e, 1, n) /\ Len(s) = n /\ \A i \in 1 .. n : s[i] = e[i]
    <3>1. /\ SubSeq(e, 1, n) \in Seq(Events) /\ Len(SubSeq(e, 1, n)) = n
          /\ \A i \in 1 .. n : SubSeq(e, 1, n)[i] = e[i]
      BY <1>1, FirstOf
    <3> QED BY <3>1
  <2>2. File!IsPrefix(s, e)
    BY <1>1, <2>1, PrefixMeans
  <2> QED BY <2>1, <2>2
<1>2. ASSUME NEW q \in Seq(Events), NEW w \in BOOLEAN
      PROVE  /\ <<File!Piece(q, w)>> \in Seq(Pieces) /\ Len(<<File!Piece(q, w)>>) = 1
                  /\ File!Records(<<File!Piece(q, w)>>) = q
             /\ <<File!Piece(q, w)>>[1].whole = w /\ <<File!Piece(q, w)>>[1].events = q
  <2>1. PICK p \in Pieces : p = File!Piece(q, w) /\ p.whole = w /\ p.events = q
    <3>1. [events |-> q, whole |-> w] \in Pieces
      BY DEF Pieces
    <3> QED BY <3>1 DEF File!Piece
  <2>2. <<p>> = Append(<<>>, p) /\ Len(<<p>>) = 1 /\ <<p>>[1] = p /\ <<p>> \in Seq(Pieces)
    OBVIOUS
  <2>3. File!Records(<<p>>) = <<>> \o p.events
    BY <1>0, <2>2, RecordsOfOneMore, RecordsOfNothing
  <2> QED BY <1>0, <2>1, <2>2, <2>3
<1>3. CASE t = <<>>
  BY <1>0, <1>3, RecordsOfNothing DEF Shaped
<1>4. CASE compressed /\ t # <<>>
  <2>1. PICK k \in 0 .. Len(e) : t = <<File!Piece(SubSeq(e, 1, k), FALSE)>>
    <3>1. File!Fragments(e) = {<<>>} \cup {<<File!Piece(SubSeq(e, 1, k), FALSE)>> : k \in 0 .. Len(e)}
      BY <1>4 DEF File!Fragments
    <3> QED BY <1>4, <3>1
  <2>2. PICK q \in Seq(Events) : q = SubSeq(e, 1, k) /\ File!IsPrefix(q, e)
    <3>1. k \in Nat /\ k <= Len(e)
      BY <1>0
    <3>2. SubSeq(e, 1, k) \in Seq(Events) /\ File!IsPrefix(SubSeq(e, 1, k), e)
      BY <1>1, <3>1
    <3> QED BY <3>2
  <2>3. t \in Seq(Pieces) /\ Len(t) = 1 /\ File!Records(t) = q
    BY <1>2, <2>1, <2>2
  <2>4. Shaped(t)
    BY <1>4 DEF Shaped
  <2> QED BY <2>2, <2>3, <2>4
<1>5. CASE ~compressed
  <2>1. PICK k \in 0 .. Len(e) - 1, u \in {<<>>, <<File!Piece(<<>>, FALSE)>>} : t = SubSeq(File!Encoded(e), 1, k) \o u
    <3>1. PICK E, B : E = File!Encoded(e) /\ B = {<<>>, <<File!Piece(<<>>, FALSE)>>}
      OBVIOUS
    <3>2. File!Fragments(e) = {SubSeq(E, 1, k) \o u : k \in 0 .. Len(e) - 1, u \in B}
      BY <1>5, <3>1 DEF File!Fragments
    <3>3. \E k \in 0 .. Len(e) - 1, u \in B : t = SubSeq(E, 1, k) \o u
      BY <3>2
    <3> QED BY <3>1, <3>3
  <2>2. k \in Nat /\ k <= Len(e)
    BY <1>0
  <2>3. PICK q \in Seq(Events) : q = SubSeq(e, 1, k) /\ File!IsPrefix(q, e) /\ Len(q) = k
          /\ \A i \in 1 .. k : q[i] = e[i]
    BY <1>1, <2>2
  <2>5. /\ File!Encoded(q) \in Seq(Pieces) /\ Len(File!Encoded(q)) = k /\ Whole(File!Encoded(q))
             /\ Shaped(File!Encoded(q))
        /\ File!Records(File!Encoded(q)) = q
        /\ \A i \in 1 .. k : File!Encoded(q)[i] = File!Piece(<<q[i]>>, TRUE)
    BY <1>5, <2>3, EncodedIs
  <2>6. SubSeq(File!Encoded(e), 1, k) = File!Encoded(q)
    BY <1>5, <2>2, <2>3, EncodedFirst
  <2>7. /\ u \in Seq(Pieces) /\ Len(u) \in {0, 1} /\ File!Records(u) = <<>>
        /\ \A i \in 1 .. Len(u) : ~u[i].whole /\ Len(u[i].events) = 0
    <3>1. CASE u = <<>>
      BY <1>0, <3>1, RecordsOfNothing
    <3>2. CASE u = <<File!Piece(<<>>, FALSE)>>
      <4>1. <<>> \in Seq(Events) /\ FALSE \in BOOLEAN
        OBVIOUS
      <4>2. u \in Seq(Pieces) /\ Len(u) = 1 /\ File!Records(u) = <<>> /\ u[1].whole = FALSE
              /\ u[1].events = <<>>
        BY <1>2, <3>2, <4>1
      <4>3. \A i \in 1 .. Len(u) : i = 1
        BY <4>2
      <4> QED BY <1>0, <4>2, <4>3
    <3> QED BY <3>1, <3>2
  <2>8. PICK c \in Seq(Pieces) : c = File!Encoded(q) /\ Len(c) = k /\ Whole(c) /\ Shaped(c)
          /\ File!Records(c) = q
    BY <2>5
  <2>9. t = c \o u
    BY <2>1, <2>6, <2>8
  <2>10. /\ t \in Seq(Pieces) /\ Len(t) = k + Len(u)
         /\ \A i \in 1 .. k + Len(u) : t[i] = IF i <= k THEN c[i] ELSE u[i - k]
    <3>1. /\ c \o u \in Seq(Pieces) /\ Len(c \o u) = Len(c) + Len(u)
          /\ \A i \in 1 .. Len(c) + Len(u) : (c \o u)[i] = IF i <= Len(c) THEN c[i] ELSE u[i - Len(c)]
      BY <2>7, ConcatProperties
    <3> QED BY <2>8, <2>9, <3>1
  <2>11. File!Records(t) = q
    BY <1>0, <2>7, <2>8, <2>9, RecordsConcat
  <2>12. \A i \in 1 .. Len(t) - 1 : t[i].whole
    <3>1. \A i \in 1 .. Len(t) - 1 : i \in 1 .. k /\ i \in 1 .. k + Len(u) /\ i <= k
      <4>1. PICK w \in {0, 1} : Len(u) = w
        BY <2>7
      <4>2. Len(t) = k + w /\ k \in Nat
        BY <2>2, <2>10, <4>1
      <4>3. \A i \in 1 .. k + w - 1 : i \in 1 .. k /\ i \in 1 .. k + w /\ i <= k
        BY <4>1, <4>2
      <4> QED BY <4>1, <4>2, <4>3
    <3>2. \A i \in 1 .. k : c[i].whole
      BY <2>8 DEF Whole
    <3> QED BY <2>10, <3>1, <3>2
  <2>13. ASSUME NEW i \in 1 .. Len(t)
         PROVE  Len(t[i].events) = IF t[i].whole THEN 1 ELSE 0
    <3>1. PICK w \in {0, 1} : Len(u) = w
      BY <2>7
    <3>2. i \in 1 .. k + w /\ k \in Nat
      BY <2>2, <2>10, <3>1
    <3>3. t[i] = IF i <= k THEN c[i] ELSE u[i - k]
      BY <2>10, <3>1, <3>2
    <3>4. CASE i <= k
      <4>1. Len(c[i].events) = IF c[i].whole THEN 1 ELSE 0
        BY <1>5, <2>8, <3>2, <3>4 DEF Shaped
      <4> QED BY <3>3, <3>4, <4>1
    <3>5. CASE ~(i <= k)
      <4>1. i - k \in 1 .. Len(u)
        BY <3>1, <3>2, <3>5
      <4> QED BY <2>7, <3>3, <3>5, <4>1
    <3> QED BY <3>4, <3>5
  <2> QED BY <2>3, <2>10, <2>11, <2>12, <2>13 DEF Shaped
<1> QED BY <1>3, <1>4, <1>5

LEMMA BrokenWrite ==
  ASSUME NEW c, Sound(c), Whole(c), NEW e, Continues(c, e), NEW t \in File!Fragments(e)
  PROVE  Sound(c \o t) /\ File!IsPrefix(File!Records(c), File!Records(Mended(c \o t)))
<1>1. PICK r \in Seq(Events) : r = File!Records(c) /\ e \in Seq(Events) /\ File!Contiguous(r \o e)
  BY RecordsTyped DEF Continues, Sound
<1>2. /\ t \in Seq(Pieces) /\ (\A i \in 1 .. Len(t) - 1 : t[i].whole)
      /\ Shaped(t) /\ File!IsPrefix(File!Records(t), e)
  BY <1>1, FragmentsAre
<1>3. PICK s \in Seq(Events) : s = File!Records(t) /\ File!IsPrefix(s, e)
  BY <1>2, RecordsTyped
<1>4. File!Contiguous(r \o s)
  <2>1. /\ Len(r) \in Nat /\ Len(e) \in Nat /\ Len(s) \in Nat
        /\ Len(s) <= Len(e) /\ \A i \in 1 .. Len(s) : s[i] = e[i]
    BY <1>1, <1>3, PrefixMeans, LenProperties
  <2>2. /\ Len(r \o s) = Len(r) + Len(s)
        /\ \A i \in 1 .. Len(r) + Len(s) : (r \o s)[i] = IF i <= Len(r) THEN r[i] ELSE s[i - Len(r)]
    BY ConcatProperties
  <2>3. /\ Len(r \o e) = Len(r) + Len(e)
        /\ \A i \in 1 .. Len(r) + Len(e) : (r \o e)[i] = IF i <= Len(r) THEN r[i] ELSE e[i - Len(r)]
    BY <1>1, ConcatProperties
  <2>4. \A i \in 1 .. Len(r) + Len(s) : (r \o s)[i] = (r \o e)[i] /\ i \in 1 .. Len(r) + Len(e)
    BY <2>1, <2>2, <2>3
  <2> QED BY <1>1, <2>2, <2>3, <2>4 DEF File!Contiguous
<1> QED BY <1>1, <1>2, <1>3, <1>4, Grown

--------------------------------------------------------------------------------
(* Steps of the file *)

LEMMA PrefixOfPrefix ==
  ASSUME NEW S, NEW p \in Seq(S), NEW q \in Seq(S), NEW r \in Seq(S),
      File!IsPrefix(p, q), File!IsPrefix(q, r)
  PROVE  File!IsPrefix(p, r)
<1>1. Len(p) \in Nat /\ Len(q) \in Nat /\ Len(r) \in Nat
  BY LenProperties
<1>2. Len(p) <= Len(q) /\ Len(q) <= Len(r)
      /\ (\A i \in 1 .. Len(p) : p[i] = q[i]) /\ \A i \in 1 .. Len(q) : q[i] = r[i]
  BY PrefixMeans
<1>3. Len(p) <= Len(r) /\ \A i \in 1 .. Len(p) : p[i] = r[i]
  BY <1>1, <1>2
<1> QED BY <1>3, PrefixMeans

LEMMA ContiguousTyped ==
  ASSUME NEW c, Sound(c)
  PROVE  c \in Seq(Pieces) /\ File!Records(c) \in Seq(Events) /\ File!Contiguous(File!Records(c))
         /\ Mended(c) \in Seq(Pieces) /\ File!Records(Mended(c)) \in Seq(Events)
BY TornEvents, MendedTyped DEF Sound

LEMMA NothingIsSound == Sound(<<>>) /\ Whole(<<>>) /\ Mended(<<>>) = <<>> /\ File!Records(<<>>) = <<>>
<1>1. <<>> \in Seq(Pieces) /\ Len(<<>>) = 0
  BY EmptySeq
<1>2. Whole(<<>>) /\ Shaped(<<>>) /\ File!Contiguous(<<>>)
  BY <1>1 DEF Whole, Shaped, File!Contiguous
<1> QED BY <1>1, <1>2, RecordsOfNothing DEF Sound, Mended

(* What a repair keeps is whole, and nothing more is cut off it. *)
LEMMA MendedIsWhole ==
  ASSUME NEW c, Sound(c)
  PROVE  Sound(Mended(c)) /\ Whole(Mended(c)) /\ Mended(Mended(c)) = Mended(c)
<1>1. CASE Whole(c)
  BY <1>1 DEF Mended
<1>2. CASE ~Whole(c)
  <2>1. PICK k \in Seq(Pieces) : /\ k = Mended(c) /\ Len(k) = Len(c) - 1
                                 /\ \A i \in 1 .. Len(c) - 1 : k[i] = c[i]
    BY <1>2, MendedTyped DEF Sound
  <2>2. \A i \in 1 .. Len(k) : k[i].whole
    BY <2>1 DEF Sound
  <2>3. Whole(k)
    BY <2>2 DEF Whole
  <2>4. Len(k) \in Nat /\ Len(c) \in Nat
    BY LenProperties DEF Sound
  <2>5. Shaped(k)
    BY <2>1, <2>4 DEF Shaped, Sound
  <2>6. File!Contiguous(File!Records(k))
    BY <2>1, TornEvents, ContiguousPrefix DEF Sound
  <2>7. \A i \in 1 .. Len(k) - 1 : k[i].whole
    BY <2>2, <2>4
  <2>8. Sound(k)
    BY <2>5, <2>6, <2>7 DEF Sound
  <2>9. Mended(k) = k
    BY <2>3 DEF Mended
  <2> QED BY <2>1, <2>3, <2>8, <2>9
<1> QED BY <1>1, <1>2

(* The encoding does not change. *)
LEMMA SameEncoding ==
  ASSUME File!Fixed
  PROVE  /\ \A c : Sound(c)' <=> Sound(c)
         /\ \A e : File!Encoded(e)' = File!Encoded(e)
         /\ \A c, e : Continues(c, e)' <=> Continues(c, e)
<1>1. compressed' = compressed
  BY DEF File!Fixed
<1>2. \A c : Shaped(c)' <=> Shaped(c)
  BY <1>1 DEF Shaped
<1>3. ASSUME NEW c PROVE Sound(c)' <=> Sound(c)
  BY <1>2 DEF Sound
<1>4. ASSUME NEW e PROVE File!Encoded(e)' = File!Encoded(e)
  BY <1>1, Zenon DEF File!Encoded
<1>5. ASSUME NEW c, NEW e PROVE Continues(c, e)' <=> Continues(c, e)
  BY DEF Continues
<1> QED BY <1>3, <1>4, <1>5

LEMMA FileSizes == MaxEvents \in Nat /\ MaxFaults \in Nat /\ MaxCrashes \in Nat
BY FileBounds DEF File!FileAssumption

LEMMA FileInit == File!Init => FileInv
<1> SUFFICES ASSUME File!Init PROVE FileInv
  OBVIOUS
<1>1. <<>> \in Seq(Events) /\ Len(<<>>) = 0 /\ File!Contiguous(<<>>) /\ File!IsPrefix(<<>>, <<>>)
  <2>1. <<>> \in Seq(Events) /\ Len(<<>>) = 0
    BY EmptySeq
  <2>2. File!Contiguous(<<>>)
    BY <2>1 DEF File!Contiguous
  <2>3. File!IsPrefix(<<>>, <<>>)
    BY <2>1, PrefixOfItself
  <2> QED BY <2>1, <2>2, <2>3
<1>2. FileTyped
  <2>1. compressed \in BOOLEAN /\ materialized \in BOOLEAN
    BY DEF File!Init
  <2>2. log \in Seq(Events) /\ File!Contiguous(log) /\ cursor \in 0 .. Len(log)
        /\ acked \in Seq(Events) /\ fileBatch \in Seq(Events)
    BY <1>1 DEF File!Init
  <2>3. /\ entry \in {"none", "linked", "durable"} /\ pc \in File!Calls
        /\ faults \in 0 .. MaxFaults /\ crashes \in 0 .. MaxCrashes /\ epoch = crashes
    BY FileSizes DEF File!Init, File!Calls
  <2> QED BY <2>1, <2>2, <2>3 DEF FileTyped
<1>3. Lasting
  BY <1>1, NothingIsSound DEF Lasting, File!Init
<1>4. Writing
  BY DEF Writing, File!Init
<1>5. Living
  BY DEF Living, File!Init
<1>6. Placed
  BY DEF Placed, File!Init
<1> QED BY <1>2, <1>3, <1>4, <1>5, <1>6 DEF FileInv

(* One event more. *)
LEMMA OneMore ==
  ASSUME NEW s \in Seq(Events), File!Contiguous(s), NEW x \in Events, x.seq = Len(s) + 1
  PROVE  Append(s, x) \in Seq(Events) /\ File!Contiguous(Append(s, x)) /\ Len(Append(s, x)) = Len(s) + 1
         /\ \A n \in 0 .. Len(s) : SubSeq(Append(s, x), 1, n) = SubSeq(s, 1, n)
<1>1. PICK l \in Nat : l = Len(s)
  BY LenProperties
<1>2. PICK u \in Seq(Events) : u = Append(s, x) /\ Len(u) = l + 1
        /\ (\A i \in 1 .. l : u[i] = s[i]) /\ u[l + 1] = x
  BY <1>1, AppendProperties
<1>3. File!Contiguous(u)
  BY <1>1, <1>2 DEF File!Contiguous
<1>4. ASSUME NEW n \in 0 .. l PROVE SubSeq(u, 1, n) = SubSeq(s, 1, n)
  BY <1>1, <1>2, FirstOf, SeqEqual
<1> QED BY <1>1, <1>2, <1>3, <1>4

LEMMA EventTyped ==
  ASSUME FileInv, NEW n \in Nat, NEW b \in BOOLEAN
  PROVE  File!Event(n, b) \in Events /\ File!Event(n, b).seq = n
BY DEF File!Event, Events, FileInv, FileTyped

(* The events that are stored and the rest are the log. *)
LEMMA StoredHalf ==
  ASSUME FileInv
  PROVE  /\ log \in Seq(Events) /\ Len(log) \in Nat /\ cursor \in Nat /\ cursor <= Len(log)
         /\ Stored \in Seq(Events) /\ Len(Stored) = cursor /\ File!Contiguous(Stored)
         /\ Unstored \in Seq(Events) /\ Len(Unstored) = Len(log) - cursor
         /\ Stored \o Unstored = log
<1>1. log \in Seq(Events) /\ Len(log) \in Nat /\ cursor \in Nat /\ cursor <= Len(log)
        /\ File!Contiguous(log)
  BY LenProperties DEF FileInv, FileTyped
<1>2. /\ Stored \in Seq(Events) /\ Len(Stored) = cursor
      /\ \A i \in 1 .. cursor : Stored[i] = log[i]
  BY <1>1, FirstOf DEF Stored
<1>3. File!Contiguous(Stored)
  BY <1>1, <1>2 DEF File!Contiguous
<1>4. Unstored \in Seq(Events) /\ Len(Unstored) = Len(log) - cursor /\ Stored \o Unstored = log
  BY <1>1, RestOf DEF Unstored, Stored
<1> QED BY <1>1, <1>2, <1>3, <1>4

(* An event is added: what was stored and what is being written stay. *)
LEMMA ProduceStep ==
  ASSUME FileInv, File!Fixed, NEW isEnd \in BOOLEAN, File!Produce(isEnd)
  PROVE  FileInv'
<1> USE DEF File!Produce
<1>1. PICK x \in Events : x = File!Event(Len(log) + 1, isEnd) /\ x.seq = Len(log) + 1
  BY StoredHalf, EventTyped
<1>2. /\ log' \in Seq(Events) /\ File!Contiguous(log') /\ Len(log') = Len(log) + 1
      /\ \A n \in 0 .. Len(log) : SubSeq(log', 1, n) = SubSeq(log, 1, n)
  BY <1>1, OneMore DEF FileInv, FileTyped
<1>3. FileTyped'
  BY <1>2, StoredHalf DEF FileInv, FileTyped, File!Fixed
<1>4. Lasting'
  BY SameEncoding DEF FileInv, Lasting
<1>5. Writing'
  BY SameEncoding DEF FileInv, Writing, Started
<1>6. Living'
  BY <1>2, StoredHalf, LenProperties, SameEncoding DEF Stored, FileInv, FileTyped, Living
<1>7. Placed'
  BY DEF FileInv, Placed
<1> QED BY <1>3, <1>4, <1>5, <1>6, <1>7 DEF FileInv

(* The write-behind hands over what is not stored yet. *)
LEMMA StartAppendStep ==
  ASSUME FileInv, File!Fixed, File!StartAppend
  PROVE  FileInv'
<1> USE DEF File!StartAppend
<1>1. /\ fileBatch' = Unstored /\ fileBatch' \in Seq(Events) /\ fileBatch' # <<>>
           /\ Len(fileBatch') = Len(log) - cursor
      /\ Stored \o fileBatch' = log
  <2>1. fileBatch' = Unstored /\ Len(Unstored) = Len(log) - cursor /\ Len(log) - cursor # 0
    BY StoredHalf DEF Unstored
  <2> QED BY <2>1, StoredHalf, EmptySeq
<1>2. FileTyped'
  BY <1>1 DEF FileInv, FileTyped, File!Fixed, File!Calls
<1>3. Lasting'
  BY SameEncoding DEF FileInv, Lasting
<1>4. Writing'
  BY <1>1, SameEncoding DEF FileInv, Living, Lasting, FileTyped, Started, Continues, Writing
<1>5. Living'
  <2>1. cursor' = cursor /\ log' = log /\ Stored' = Stored
    BY DEF Stored
  <2>2. cursor + Len(fileBatch') = Len(log) /\ SubSeq(log, 1, Len(log)) = log
    BY <1>1, StoredHalf, SubSeqFull
  <2>3. /\ cursor' + Len(fileBatch') <= Len(log')
        /\ Stored' \o fileBatch' = SubSeq(log', 1, cursor' + Len(fileBatch'))
    <3>1. cursor' + Len(fileBatch') = Len(log) /\ Len(log) <= Len(log)
      BY <2>1, <2>2, StoredHalf
    <3>2. SubSeq(log', 1, cursor' + Len(fileBatch')) = log /\ Stored' \o fileBatch' = log
      BY <1>1, <2>1, <2>2, <3>1
    <3> QED BY <2>1, <3>1, <3>2
  <2> QED BY <1>1, <2>1, <2>3 DEF FileInv, Living
<1>6. Placed'
  BY DEF FileInv, Placed
<1> QED BY <1>2, <1>3, <1>4, <1>5, <1>6 DEF FileInv

(* A first batch is published, or refused. *)
LEMMA PublishStep ==
  ASSUME FileInv, File!Fixed, File!Publish
  PROVE  FileInv'
<1>1. mode = "live" /\ ~materialized /\ entry = "none" /\ acked = <<>> /\ pc = "publish"
  BY DEF File!Publish, FileInv, Placed, Living, Lasting
<1>2. /\ mode' = mode /\ fileBatch' = fileBatch /\ cursor' = cursor /\ materialized' = materialized
      /\ acked' = acked /\ log' = log /\ epoch' = epoch /\ crashes' = crashes /\ before' = before
      /\ faults' \in 0 .. MaxFaults
      /\ \/ /\ pc' = "syncdir" /\ file' = File!Encoded(fileBatch) /\ survive' = {file'}
                 /\ entry' = "linked"
         \/ pc' = "idle" /\ file' = file /\ survive' = survive /\ entry' = entry
  BY <1>1, FileSizes DEF File!Publish, File!Rejected, File!Fault, File!Fine, FileInv, FileTyped
<1>3. FileTyped'
  BY <1>1, <1>2 DEF FileInv, FileTyped, File!Fixed, File!Calls
<1>4. Stored' = Stored
  BY <1>2 DEF Stored
<1>5. CASE pc' = "idle"
  BY <1>1, <1>2, <1>3, <1>4, <1>5, SameEncoding DEF FileInv, Lasting, Writing, Living, Placed
<1>6. CASE pc' = "syncdir"
  <2>1. file' = File!Encoded(fileBatch) /\ survive' = {file'} /\ entry' = "linked"
    BY <1>2, <1>6
  <2>2. Sound(file')
    <3>1. cursor = 0 /\ Stored \o fileBatch = SubSeq(log, 1, Len(fileBatch))
            /\ fileBatch \in Seq(Events)
          /\ Len(fileBatch) \in Nat /\ Len(fileBatch) <= Len(log)
      BY <1>1, LenProperties, StoredHalf DEF FileInv, Living, FileTyped
    <3>2. Stored = <<>>
      BY <3>1, StoredHalf, EmptySeq
    <3>3. fileBatch = SubSeq(log, 1, Len(fileBatch))
      BY <3>1, <3>2, ConcatEmptySeq
    <3>4. \A i \in 1 .. Len(fileBatch) : SubSeq(log, 1, Len(fileBatch))[i] = log[i]
      BY <3>1, StoredHalf, FirstOf
    <3>5. \A i \in 1 .. Len(fileBatch) : log[i].seq = i
      BY <3>1, StoredHalf DEF FileInv, FileTyped, File!Contiguous
    <3>6. File!Contiguous(fileBatch)
      BY <3>3, <3>4, <3>5 DEF File!Contiguous
    <3>7. Continues(<<>>, fileBatch)
      BY <3>1, <3>6, NothingIsSound, ConcatEmptySeq DEF Continues
    <3>8. Sound(<<>> \o File!Encoded(fileBatch))
      BY <3>7, NothingIsSound, Extended
    <3>9. <<>> \o File!Encoded(fileBatch) = File!Encoded(fileBatch)
      BY <3>1, EncodedIs, ConcatEmptySeq
    <3> QED BY <2>1, <3>8, <3>9
  <2>3. File!IsPrefix(acked', File!Records(Mended(file')))
    BY <1>1, <1>2, <2>2, ContiguousTyped, PrefixOfItself
  <2>4. Lasting'
    BY <1>1, <1>2, <1>6, <2>1, <2>2, <2>3, SameEncoding DEF Lasting
  <2>5. Writing'
    BY <1>6 DEF Writing
  <2>6. Living'
    BY <1>1, <1>2, <1>4, <1>6, <2>1, SameEncoding DEF FileInv, Living
  <2>7. Placed'
    BY <1>1, <1>2, <1>6 DEF Placed
  <2> QED BY <1>3, <2>4, <2>5, <2>6, <2>7 DEF FileInv
<1> QED BY <1>2, <1>5, <1>6

(* With the directory synced, the batch is stored and acknowledged. *)
LEMMA SyncDirectoryStep ==
  ASSUME FileInv, File!Fixed, File!SyncDirectory
  PROVE  FileInv'
<1>1. /\ pc = "syncdir" /\ entry' = "durable" /\ File!Resolved /\ File!Fine
      /\ file' = file /\ survive' = survive /\ before' = before /\ log' = log
      /\ epoch' = epoch /\ crashes' = crashes
  BY FileSizes DEF File!SyncDirectory
<1>2. mode = "live" /\ ~materialized /\ cursor = 0 /\ entry = "linked" /\ file = File!Encoded(fileBatch)
      /\ survive = {file} /\ fileBatch # <<>> /\ cursor + Len(fileBatch) <= Len(log)
      /\ Stored \o fileBatch = SubSeq(log, 1, cursor + Len(fileBatch))
  BY <1>1 DEF FileInv, Placed, Living, Lasting
<1>3. fileBatch \in Seq(Events) /\ Len(fileBatch) \in Nat
  BY LenProperties DEF FileInv, FileTyped
<1>4. Stored = <<>> /\ Stored \o fileBatch = fileBatch /\ cursor + Len(fileBatch) = Len(fileBatch)
  BY <1>2, <1>3, StoredHalf, EmptySeq, ConcatEmptySeq
<1>5. SubSeq(log, 1, Len(fileBatch)) = fileBatch /\ Len(fileBatch) <= Len(log)
  BY <1>2, <1>4
<1>6. /\ cursor' = Len(fileBatch) /\ materialized' = TRUE /\ acked' = fileBatch /\ pc' = "idle"
      /\ mode' = mode /\ fileBatch' = fileBatch /\ faults' = faults
  BY <1>1, <1>4, <1>5 DEF File!Resolved, File!Fine
<1>7. Stored' = fileBatch
  BY <1>1, <1>5, <1>6 DEF Stored
<1>8. Sound(file) /\ Whole(file) /\ File!Records(file) = fileBatch
  BY <1>2, <1>3, EncodedIs DEF FileInv, Lasting
<1>9. FileTyped'
  BY <1>1, <1>3, <1>5, <1>6, StoredHalf DEF FileInv, FileTyped, File!Fixed, File!Calls
<1>10. Lasting'
  BY <1>1, <1>2, <1>3, <1>6, <1>8, PrefixOfItself, SameEncoding DEF Mended, Lasting
<1>11. Writing'
  BY <1>6 DEF Writing
<1>12. Living'
  BY <1>1, <1>6, <1>7, <1>8 DEF Living
<1>13. Placed'
  BY <1>2, <1>6 DEF Placed
<1> QED BY <1>9, <1>10, <1>11, <1>12, <1>13 DEF FileInv

(* A write behind what is there, which may break off. *)
LEMMA WriteStep ==
  ASSUME FileInv, File!Fixed, File!Write
  PROVE  FileInv'
<1>1. /\ pc = "write" /\ before' = file /\ entry' = entry /\ mode' = mode /\ fileBatch' = fileBatch
      /\ log' = log /\ cursor' = cursor /\ materialized' = materialized /\ acked' = acked
      /\ epoch' = epoch /\ crashes' = crashes
      /\ survive' = survive \cup {file \o t : t \in File!Fragments(fileBatch) \cup {File!Encoded(fileBatch)}}
      /\ faults' \in 0 .. MaxFaults
      /\ \/ pc' = "sync" /\ file' = file \o File!Encoded(fileBatch)
         \/ pc' = "truncate" /\ \E t \in File!Fragments(fileBatch) : file' = file \o t
  <2>1. /\ pc = "write" /\ before' = file /\ entry' = entry /\ mode' = mode /\ fileBatch' = fileBatch
        /\ log' = log /\ cursor' = cursor /\ materialized' = materialized /\ acked' = acked
        /\ epoch' = epoch /\ crashes' = crashes
    BY DEF File!Write
  <2>2. survive' = survive \cup {file \o t : t \in File!Fragments(fileBatch) \cup {File!Encoded(fileBatch)}}
    BY Zenon DEF File!Write
  <2>3. faults' \in 0 .. MaxFaults
    BY FileSizes DEF File!Write, File!Fault, File!Fine, FileInv, FileTyped
  <2>4. \/ pc' = "sync" /\ file' = file \o File!Encoded(fileBatch)
        \/ pc' = "truncate" /\ \E t \in File!Fragments(fileBatch) : file' = file \o t
    BY Zenon DEF File!Write
  <2> QED BY <2>1, <2>2, <2>3, <2>4
<1>2. Sound(file) /\ Whole(file) /\ Continues(file, fileBatch) /\ Mended(file) = file
  BY <1>1 DEF FileInv, Writing, Started, Mended
<1>3. ASSUME NEW t \in File!Fragments(fileBatch) \cup {File!Encoded(fileBatch)}
      PROVE  Sound(file \o t) /\ File!IsPrefix(acked, File!Records(Mended(file \o t)))
  BY <1>2, Extended, BrokenWrite, ContiguousTyped, PrefixOfPrefix DEF FileInv, Lasting,
     FileTyped
<1>4. entry = "durable"
  BY <1>1 DEF FileInv, Living, Placed
<1>5. FileTyped'
  BY <1>1, <1>4 DEF FileInv, FileTyped, File!Fixed, File!Calls
<1>6. Lasting'
  <2>1. ASSUME NEW content \in survive' PROVE Sound(content)
          /\ File!IsPrefix(acked, File!Records(Mended(content)))
    BY <1>1, <1>3 DEF FileInv, Lasting
  <2>2. file' \in survive'
    BY <1>1
  <2>3. \A content \in survive' : Sound(content)'
          /\ File!IsPrefix(acked', File!Records(Mended(content)))
    BY <1>1, <2>1, SameEncoding
  <2> QED BY <1>1, <1>4, <2>2, <2>3 DEF Lasting
<1>7. Writing'
  BY <1>1, <1>2, SameEncoding DEF FileInv, Writing, Lasting, Started
<1>8. Living'
  BY <1>1 DEF Stored, FileInv, Living
<1>9. Placed'
  BY <1>1, <1>4 DEF FileInv, Placed
<1> QED BY <1>5, <1>6, <1>7, <1>8, <1>9 DEF FileInv

(* A batch that is synced is stored: a live session's is acknowledged. *)
LEMMA SyncStep ==
  ASSUME FileInv, File!Fixed, File!Sync
  PROVE  FileInv'
<1>1. /\ pc = "sync" /\ file' = file /\ entry' = entry /\ before' = before /\ log' = log
      /\ epoch' = epoch /\ crashes' = crashes /\ fileBatch' = fileBatch
      /\ faults' \in 0 .. MaxFaults
  BY FileSizes DEF File!Sync, File!Done, File!Repaired, File!Resolved, File!Fault, File!Fine, FileInv, FileTyped
<1>2. /\ Sound(before) /\ Whole(before) /\ Continues(before, fileBatch)
      /\ before \in survive /\ file = before \o File!Encoded(fileBatch)
  BY <1>1 DEF FileInv, Writing, Started
<1>3. Sound(file) /\ Whole(file) /\ Mended(file) = file
        /\ File!Records(file) = File!Records(before) \o fileBatch
      /\ File!IsPrefix(File!Records(before), File!Records(file))
  BY <1>2, Extended DEF Mended
<1>4. fileBatch \in Seq(Events) /\ Len(fileBatch) \in Nat /\ File!Records(before) \in Seq(Events)
      /\ File!Records(file) \in Seq(Events) /\ acked \in Seq(Events)
           /\ File!IsPrefix(acked, File!Records(before))
  BY <1>2, <1>3, LenProperties, ContiguousTyped DEF FileInv, FileTyped, Mended, Lasting
<1>5. mode \in {"live", "repairing"} /\ entry = "durable"
  BY <1>1 DEF FileInv, Placed, Living
<1>6. mode = "live" => /\ materialized /\ cursor + Len(fileBatch) <= Len(log)
                       /\ Stored \o fileBatch = SubSeq(log, 1, cursor + Len(fileBatch))
                       /\ File!Records(file) = SubSeq(log, 1, cursor + Len(fileBatch))
  BY <1>1, <1>3 DEF FileInv, Living
<1>7. CASE pc' = "truncate"
  <2>1. /\ survive' = survive /\ mode' = mode /\ cursor' = cursor /\ materialized' = materialized
        /\ acked' = acked
    BY <1>7 DEF File!Sync, File!Done, File!Repaired, File!Resolved
  <2>2. FileTyped'
    BY <1>1, <1>7, <2>1 DEF FileInv, FileTyped, File!Fixed, File!Calls
  <2>3. Lasting'
    BY <1>1, <1>5, <2>1, SameEncoding DEF FileInv, Lasting
  <2>4. Writing'
    BY <1>1, <1>2, <1>7, <2>1, SameEncoding DEF Started, Writing
  <2>5. Living'
    BY <1>1, <1>7, <2>1 DEF Stored, FileInv, Living
  <2>6. Placed'
    BY <1>1, <1>5, <1>7, <2>1 DEF Placed
  <2> QED BY <2>2, <2>3, <2>4, <2>5, <2>6 DEF FileInv
<1>8. CASE pc' # "truncate"
  <2>1. survive' = {file} /\ File!Done
    BY <1>8 DEF File!Sync
  <2>2. pc' = "idle"
    BY <2>1 DEF File!Done, File!Repaired, File!Resolved
  <2>3. CASE mode = "live"
    <3>1. File!Resolved
      BY <2>1, <2>3 DEF File!Done
    <3>2. /\ cursor' = cursor + Len(fileBatch) /\ materialized' = TRUE
          /\ acked' = SubSeq(log, 1, cursor + Len(fileBatch)) /\ mode' = mode
      BY <3>1 DEF File!Resolved
    <3>3. acked' = File!Records(file) /\ Stored' = File!Records(file)
      BY <1>1, <1>6, <2>3, <3>2 DEF Stored
    <3>4. FileTyped'
      BY <1>1, <1>4, <1>6, <2>2, <2>3, <3>2, <3>3, StoredHalf DEF FileInv, FileTyped,
         File!Fixed, File!Calls
    <3>5. Lasting'
      BY <1>1, <1>3, <1>4, <1>5, <2>1, <3>3, PrefixOfItself, SameEncoding DEF Lasting
    <3>6. Writing'
      BY <2>2 DEF Writing
    <3>7. Living'
      BY <1>1, <1>3, <1>5, <2>2, <3>2, <3>3 DEF Living
    <3>8. Placed'
      BY <2>2, <2>3, <3>2 DEF Placed
    <3> QED BY <3>4, <3>5, <3>6, <3>7, <3>8 DEF FileInv
  <2>4. CASE mode = "repairing"
    <3>1. /\ mode' = "cold" /\ cursor' = cursor /\ materialized' = materialized /\ acked' = acked
      BY <2>1, <2>4 DEF File!Done, File!Repaired
    <3>2. FileTyped'
      BY <1>1, <2>2, <3>1 DEF FileInv, FileTyped, File!Fixed, File!Calls
    <3>3. Lasting'
      BY <1>1, <1>3, <1>4, <1>5, <2>1, <3>1, PrefixOfPrefix, SameEncoding DEF Lasting
    <3>4. Writing'
      BY <2>2 DEF Writing
    <3>5. Living'
      BY <3>1 DEF Living
    <3>6. Placed'
      BY <2>2, <3>1 DEF Placed
    <3> QED BY <3>2, <3>3, <3>4, <3>5, <3>6 DEF FileInv
  <2> QED BY <1>5, <2>3, <2>4
<1> QED BY <1>7, <1>8

(* A broken write is cut back to what was there. *)
LEMMA TruncateStep ==
  ASSUME FileInv, File!Fixed, File!Truncate
  PROVE  FileInv'
<1>1. /\ pc = "truncate" /\ file' = before /\ survive' = survive \cup {before} /\ pc' = "resync"
      /\ faults' = faults /\ mode' = mode /\ fileBatch' = fileBatch /\ cursor' = cursor
      /\ materialized' = materialized /\ acked' = acked
      /\ entry' = entry /\ before' = before /\ log' = log /\ epoch' = epoch /\ crashes' = crashes
  BY FileSizes DEF File!Truncate, File!Fine
<1>2. Started(before) /\ before \in survive /\ survive' = survive
  BY <1>1 DEF FileInv, Writing
<1>3. mode \in {"live", "repairing"} /\ entry = "durable"
  BY <1>1 DEF FileInv, Placed, Living
<1>4. FileTyped'
  BY <1>1 DEF FileInv, FileTyped, File!Fixed, File!Calls
<1>5. Lasting'
  BY <1>1, <1>2, <1>3, SameEncoding DEF FileInv, Lasting
<1>6. Writing'
  BY <1>1, <1>2, SameEncoding DEF Started, Writing
<1>7. Living'
  BY <1>1 DEF Stored, FileInv, Living
<1>8. Placed'
  BY <1>1, <1>3 DEF Placed
<1> QED BY <1>4, <1>5, <1>6, <1>7, <1>8 DEF FileInv

(* Then the append is rejected, with nothing of it left. *)
LEMMA ResyncStep ==
  ASSUME FileInv, File!Fixed, File!Resync
  PROVE  FileInv'
<1>1. /\ pc = "resync" /\ pc' = "idle" /\ survive' = {file} /\ faults' = faults
      /\ mode' = (IF mode = "repairing" THEN "cold" ELSE mode)
      /\ fileBatch' = fileBatch /\ cursor' = cursor /\ materialized' = materialized /\ acked' = acked
      /\ file' = file /\ entry' = entry /\ before' = before /\ log' = log
      /\ epoch' = epoch /\ crashes' = crashes
  BY FileSizes DEF File!Resync, File!Rejected, File!Fine
<1>2. Started(before) /\ file = before
  BY <1>1 DEF FileInv, Writing
<1>3. mode \in {"live", "repairing"} /\ entry = "durable"
  BY <1>1 DEF FileInv, Placed, Living
<1>4. FileTyped'
  BY <1>1 DEF FileInv, FileTyped, File!Fixed, File!Calls
<1>5. Lasting'
  BY <1>1, <1>3, SameEncoding DEF FileInv, Lasting
<1>6. Writing'
  BY <1>1 DEF Writing
<1>7. Living'
  BY <1>1, <1>2, <1>3 DEF Stored, Started, FileInv, Living
<1>8. Placed'
  BY <1>1, <1>3 DEF Placed
<1> QED BY <1>4, <1>5, <1>6, <1>7, <1>8 DEF FileInv

(* A session that was never published starts with nothing. *)
LEMMA CreateStep ==
  ASSUME FileInv, File!Fixed, File!Create
  PROVE  FileInv'
<1> USE DEF File!Create
<1>1. <<>> \in Seq(Events) /\ Len(<<>>) = 0 /\ File!Contiguous(<<>>)
  BY EmptySeq DEF File!Contiguous
<1>2. FileTyped'
  <2>1. compressed' \in BOOLEAN /\ materialized' \in BOOLEAN
    BY DEF FileInv, FileTyped, File!Fixed
  <2>2. /\ pc' \in File!Calls /\ entry' \in {"none", "linked", "durable"}
        /\ log' \in Seq(Events) /\ File!Contiguous(log') /\ cursor' \in 0 .. Len(log')
        /\ acked' \in Seq(Events) /\ fileBatch' \in Seq(Events)
        /\ faults' \in 0 .. MaxFaults /\ crashes' \in 0 .. MaxCrashes /\ epoch' = crashes'
    BY <1>1 DEF FileInv, FileTyped
  <2> QED BY <2>1, <2>2 DEF FileTyped
<1>3. Lasting'
  BY SameEncoding DEF FileInv, Lasting
<1>4. Writing'
  BY DEF Writing
<1>5. Living'
  BY DEF Living
<1>6. Placed'
  BY DEF Placed
<1> QED BY <1>2, <1>3, <1>4, <1>5, <1>6 DEF FileInv

(* An open turn is closed by one event more. *)
LEMMA ClosersFit ==
  ASSUME FileInv, NEW s \in Seq(Events), File!Contiguous(s)
  PROVE  File!Closers(s) \in Seq(Events) /\ File!Contiguous(s \o File!Closers(s))
<1>1. PICK l \in Nat : l = Len(s)
  BY LenProperties
<1>2. CASE File!Closers(s) = <<>>
  BY <1>2, EmptySeq, ConcatEmptySeq
<1>3. CASE File!Closers(s) # <<>>
  <2>1. File!Closers(s) = <<File!Event(Len(s) + 1, TRUE)>>
    BY <1>3 DEF File!Closers
  <2>2. PICK x \in Events : x = File!Event(Len(s) + 1, TRUE) /\ x.seq = Len(s) + 1
    <3>1. PICK n \in Nat : n = Len(s) + 1
      BY <1>1
    <3>2. File!Event(n, TRUE) \in Events /\ File!Event(n, TRUE).seq = n
      BY EventTyped
    <3> QED BY <3>1, <3>2
  <2>3. Append(s, x) = s \o <<x>> /\ <<x>> \in Seq(Events)
    BY AppendIsConcat
  <2>4. File!Contiguous(Append(s, x))
    BY <2>2, OneMore
  <2> QED BY <2>1, <2>2, <2>3, <2>4
<1> QED BY <1>2, <1>3

(* A log is read, and taken as it is or repaired. *)
LEMMA LoadStep ==
  ASSUME FileInv, File!Fixed, File!Load
  PROVE  FileInv'
<1>1. /\ mode = "cold" /\ pc = "idle" /\ entry # "none"
      /\ file' = file /\ survive' = survive /\ entry' = entry /\ acked' = acked
      /\ epoch' = epoch /\ faults' = faults /\ crashes' = crashes
  BY DEF File!Load
<1>2. entry = "durable" /\ Sound(file) /\ File!IsPrefix(acked, File!Records(Mended(file)))
  BY <1>1 DEF FileInv, FileTyped, Lasting
<1>3. PICK r : r = File!Read(file)
  OBVIOUS
<1>4. /\ r.ok /\ r.events = File!Records(file) /\ r.kept = Mended(file) /\ (r.torn <=> ~Whole(file))
      /\ r.recovered \in Seq(Events) /\ File!Records(Mended(file)) \o r.recovered = File!Records(file)
  BY <1>2, <1>3, FileReads
<1>5. /\ File!Records(file) \in Seq(Events) /\ File!Contiguous(File!Records(file))
           /\ File!Records(Mended(file)) \in Seq(Events)
      /\ Len(File!Records(file)) \in Nat
  BY <1>2, ContiguousTyped, LenProperties
<1>6. Lasting'
  BY <1>1, <1>2, SameEncoding DEF FileInv, Lasting
<1>7. CASE mode' = "repairing"
  <2>1. /\ fileBatch' = File!Rewritten(r) /\ before' = r.kept
        /\ pc' = (IF r.torn THEN "cut" ELSE "write")
        /\ log' = log /\ cursor' = cursor /\ materialized' = materialized
    BY <1>3, <1>4, <1>7 DEF File!Load
  <2>2. PICK e \in Seq(Events) : e = File!Closers(File!Records(file))
          /\ File!Contiguous(File!Records(file) \o e)
    BY <1>5, ClosersFit
  <2>3. fileBatch' = r.recovered \o e /\ fileBatch' \in Seq(Events)
    BY <1>4, <2>1, <2>2, ConcatProperties DEF File!Rewritten
  <2>4. File!Records(Mended(file)) \o fileBatch' = File!Records(file) \o e
    <3>1. PICK k \in Seq(Events), u \in Seq(Events) : k = File!Records(Mended(file)) /\ u = r.recovered
      BY <1>4, <1>5
    <3>2. (k \o u) \o e = k \o (u \o e)
      BY ConcatAssociative
    <3> QED BY <1>4, <2>3, <3>1, <3>2
  <2>5. Sound(Mended(file)) /\ Whole(Mended(file)) /\ Continues(Mended(file), fileBatch')
    BY <1>2, <2>2, <2>3, <2>4, MendedIsWhole DEF Continues
  <2>7. FileTyped'
    BY <1>1, <2>1, <2>3 DEF FileInv, FileTyped, File!Fixed, File!Calls
  <2>8. Writing'
    BY <1>1, <1>4, <2>1, <2>5, SameEncoding DEF Started, Writing, Mended
  <2>9. Living'
    BY <1>7 DEF Living
  <2>10. Placed'
    BY <1>1, <1>2, <1>7, <2>1 DEF Placed
  <2> QED BY <1>6, <2>7, <2>8, <2>9, <2>10 DEF FileInv
<1>8. CASE mode' # "repairing"
  <2>1. /\ ~r.torn /\ mode' = "live"
        /\ log' = r.events /\ cursor' = Len(r.events) /\ materialized' = TRUE
        /\ pc' = pc /\ fileBatch' = fileBatch /\ before' = before
    BY <1>3, <1>4, <1>8 DEF File!Load
  <2>2. log' = File!Records(file) /\ cursor' = Len(File!Records(file)) /\ Whole(file)
    BY <1>4, <2>1
  <2>3. Stored' = File!Records(file)
    BY <1>5, <2>2, SubSeqFull DEF Stored
  <2>4. FileTyped'
    BY <1>1, <1>5, <2>1, <2>2 DEF FileInv, FileTyped, File!Fixed
  <2>5. Writing'
    BY <1>1, <2>1 DEF Writing
  <2>6. Living'
    BY <1>1, <1>2, <2>1, <2>2, <2>3 DEF Living
  <2>7. Placed'
    BY <1>1, <2>1 DEF Placed
  <2> QED BY <1>6, <2>4, <2>5, <2>6, <2>7 DEF FileInv
<1> QED BY <1>7, <1>8

(* The torn tail goes, ... *)
LEMMA CutStep ==
  ASSUME FileInv, File!Fixed, File!Cut
  PROVE  FileInv'
<1>1. /\ pc = "cut" /\ fileBatch' = fileBatch /\ cursor' = cursor /\ materialized' = materialized
      /\ acked' = acked /\ entry' = entry /\ before' = before /\ log' = log
      /\ epoch' = epoch /\ crashes' = crashes
      /\ faults' \in 0 .. MaxFaults
      /\ \/ file' = before /\ survive' = survive \cup {before} /\ pc' = "cutsync" /\ mode' = mode
         \/ /\ file' = file /\ survive' = survive /\ pc' = "idle"
            /\ mode' = IF mode = "repairing" THEN "cold" ELSE mode
  BY FileSizes DEF File!Cut, File!Rejected, File!Fault, File!Fine, FileInv, FileTyped
<1>2. mode = "repairing" /\ entry = "durable"
  BY <1>1 DEF FileInv, Placed, Living
<1>3. Started(before) /\ before = Mended(file) /\ file \in survive /\ Sound(file)
  BY <1>1 DEF FileInv, Writing, Lasting
<1>4. Sound(before) /\ File!IsPrefix(acked, File!Records(Mended(before)))
  BY <1>3, MendedIsWhole DEF FileInv, Lasting
<1>5. FileTyped'
  BY <1>1 DEF FileInv, FileTyped, File!Fixed, File!Calls
<1>6. Lasting'
  BY <1>1, <1>2, <1>3, <1>4, SameEncoding DEF FileInv, Lasting
<1>7. Writing'
  BY <1>1, <1>3, SameEncoding DEF Started, Writing
<1>8. Living'
  BY <1>1, <1>2 DEF Living
<1>9. Placed'
  BY <1>1, <1>2 DEF Placed
<1> QED BY <1>5, <1>6, <1>7, <1>8, <1>9 DEF FileInv

(* ... for good, before more is written behind it. *)
LEMMA CutSyncStep ==
  ASSUME FileInv, File!Fixed, File!CutSync
  PROVE  FileInv'
<1>1. /\ pc = "cutsync" /\ fileBatch' = fileBatch /\ cursor' = cursor /\ materialized' = materialized
      /\ acked' = acked /\ entry' = entry /\ before' = before /\ log' = log /\ file' = file
      /\ epoch' = epoch /\ crashes' = crashes
      /\ faults' \in 0 .. MaxFaults /\ survive' \in {survive, {file}}
      /\ \/ pc' = "write" /\ mode' = mode
         \/ pc' = "idle" /\ mode' \in {"cold", mode} /\ (mode = "repairing" => mode' = "cold")
  BY FileSizes DEF File!CutSync, File!Repaired, File!Rejected, File!Fault, File!Fine, FileInv, FileTyped
<1>2. mode = "repairing" /\ entry = "durable"
  BY <1>1 DEF FileInv, Placed, Living
<1>3. Started(before) /\ file = before
  BY <1>1 DEF FileInv, Writing
<1>4. FileTyped'
  BY <1>1 DEF FileInv, FileTyped, File!Fixed, File!Calls
<1>5. Lasting'
  BY <1>1, <1>2, SameEncoding DEF FileInv, Lasting
<1>6. Writing'
  BY <1>1, <1>3, SameEncoding DEF Started, Writing
<1>7. Living'
  BY <1>1, <1>2 DEF Living
<1>8. Placed'
  BY <1>1, <1>2 DEF Placed
<1> QED BY <1>4, <1>5, <1>6, <1>7, <1>8 DEF FileInv

(* A process that stops keeps nothing but what is on the disk: all that was *)
(* written, or what a power loss leaves of it.                              *)
LEMMA CrashStep ==
  ASSUME FileInv, File!Fixed, File!Kill \/ File!PowerLoss
  PROVE  FileInv'
<1>1. /\ crashes' = crashes + 1 /\ crashes < MaxCrashes
      /\ mode' = "cold" /\ pc' = "idle" /\ fileBatch' = <<>> /\ before' = <<>>
      /\ log' = <<>> /\ cursor' = 0 /\ materialized' = FALSE
      /\ epoch' = epoch + 1 /\ acked' = acked /\ faults' = faults
  BY DEF File!Kill, File!PowerLoss, File!Restarted
<1>2. <<>> \in Seq(Events) /\ Len(<<>>) = 0 /\ File!Contiguous(<<>>)
  BY EmptySeq DEF File!Contiguous
<1>3. entry' \in {"none", "durable"}
  BY DEF File!Kill, File!PowerLoss, FileInv, FileTyped
<1>4. FileTyped'
  <2>1. compressed' \in BOOLEAN /\ materialized' \in BOOLEAN
    BY <1>1 DEF FileInv, FileTyped, File!Fixed
  <2>2. log' \in Seq(Events) /\ File!Contiguous(log') /\ cursor' \in 0 .. Len(log')
          /\ fileBatch' \in Seq(Events)
    BY <1>1, <1>2
  <2>3. /\ pc' \in File!Calls /\ acked' \in Seq(Events)
        /\ faults' \in 0 .. MaxFaults /\ crashes' \in 0 .. MaxCrashes /\ epoch' = crashes'
    BY <1>1, FileSizes DEF FileInv, FileTyped, File!Calls
  <2> QED BY <1>3, <2>1, <2>2, <2>3 DEF FileTyped
<1>5. Lasting'
  <2>1. acked \in Seq(Events) /\ file \in survive
        /\ \A content \in survive : Sound(content)
             /\ File!IsPrefix(acked, File!Records(Mended(content)))
    BY DEF FileInv, FileTyped, Lasting
  <2>2. CASE survive' \subseteq survive /\ file' \in survive' /\ entry'
          = IF entry = "linked" THEN "durable" ELSE entry
    BY <1>1, <1>3, <2>1, <2>2, SameEncoding DEF FileInv, Lasting
  <2>3. CASE entry = "linked" /\ file' = <<>> /\ entry' = "none" /\ survive' = {file'}
    BY <1>1, <1>2, <2>3, PrefixOfItself, NothingIsSound, SameEncoding DEF FileInv, Lasting
  <2>4. \/ survive' \subseteq survive /\ file' \in survive' /\ entry'
             = IF entry = "linked" THEN "durable" ELSE entry
        \/ entry = "linked" /\ file' = <<>> /\ entry' = "none" /\ survive' = {file'}
    BY <2>1 DEF File!Kill, File!PowerLoss
  <2> QED BY <2>2, <2>3, <2>4
<1>6. Writing'
  BY <1>1 DEF Writing
<1>7. Living'
  BY <1>1 DEF Living
<1>8. Placed'
  BY <1>1 DEF Placed
<1> QED BY <1>4, <1>5, <1>6, <1>7, <1>8 DEF FileInv

LEMMA FileStutter ==
  ASSUME FileInv, UNCHANGED (File!vars)
  PROVE  FileInv'
<1>1. /\ compressed' = compressed /\ file' = file /\ survive' = survive /\ entry' = entry
      /\ mode' = mode /\ pc' = pc /\ fileBatch' = fileBatch /\ before' = before /\ log' = log
      /\ cursor' = cursor /\ materialized' = materialized /\ acked' = acked
      /\ epoch' = epoch /\ faults' = faults /\ crashes' = crashes
  BY DEF File!vars, File!memory
<1>2. File!Fixed
  BY <1>1 DEF File!Fixed
<1>3. FileTyped'
  BY <1>1 DEF FileInv, FileTyped
<1>4. Lasting'
  BY <1>1, <1>2, SameEncoding DEF FileInv, Lasting
<1>5. Writing'
  BY <1>1, <1>2, SameEncoding DEF FileInv, Writing, Started
<1>6. Living'
  BY <1>1, <1>2, SameEncoding DEF FileInv, Living, Stored
<1>7. Placed'
  BY <1>1 DEF FileInv, Placed
<1> QED BY <1>3, <1>4, <1>5, <1>6, <1>7 DEF FileInv

LEMMA FileStep ==
  ASSUME FileInv, [File!Next]_(File!vars)
  PROVE  FileInv'
<1>1. CASE UNCHANGED (File!vars)
  BY <1>1, FileStutter
<1>2. CASE File!Next
  <2>1. File!Fixed /\ File!Steps
    BY <1>2 DEF File!Next
  <2>2. ASSUME NEW isEnd \in BOOLEAN, File!Produce(isEnd) PROVE FileInv'
    BY <2>1, <2>2, ProduceStep
  <2>3. CASE File!StartAppend
    BY <2>1, <2>3, StartAppendStep
  <2>4. CASE File!IoStep
    BY <2>1, <2>4, PublishStep, SyncDirectoryStep, WriteStep, SyncStep, TruncateStep, ResyncStep,
       CutStep, CutSyncStep DEF File!IoStep
  <2>5. CASE File!Create
    BY <2>1, <2>5, CreateStep
  <2>6. CASE File!Load
    BY <2>1, <2>6, LoadStep
  <2>7. CASE File!Kill \/ File!PowerLoss
    BY <2>1, <2>7, CrashStep
  <2> QED BY <2>1, <2>2, <2>3, <2>4, <2>5, <2>6, <2>7 DEF File!Steps
<1> QED BY <1>1, <1>2

(* The invariant has the file as it should be. *)
LEMMA FileIsSafe == FileInv => File!FileSafe
<1> SUFFICES ASSUME FileInv PROVE File!FileSafe
  OBVIOUS
<1>1. File!TypeOK
  <2>1. mode \in File!Modes
    BY DEF FileInv, Placed, File!Modes
  <2>2. ASSUME NEW c \in survive, NEW i \in 1 .. Len(c) PROVE c[i].whole \in BOOLEAN
    <3>1. c[i] \in Pieces
      BY ElementOfSeq DEF FileInv, Lasting, Sound
    <3> QED BY <3>1 DEF Pieces
  <2>3. materialized \in BOOLEAN
    BY DEF FileInv, FileTyped
  <2>4. /\ entry \in {"none", "linked", "durable"} /\ pc \in File!Calls /\ file \in survive
        /\ File!Contiguous(log) /\ cursor \in 0 .. Len(log)
        /\ faults \in 0 .. MaxFaults /\ crashes \in 0 .. MaxCrashes /\ epoch = crashes
    BY DEF FileInv, FileTyped, Lasting
  <2> QED BY <2>1, <2>2, <2>3, <2>4 DEF File!TypeOK
<1>2. File!AckedReadable
  BY TornEvents, PrefixOfPrefix, FileReads DEF FileInv, Lasting, FileTyped, Sound,
     File!AckedReadable
<1>3. File!CursorMatches
  BY FileReads DEF FileInv, Lasting, File!CursorMatches, Living, Stored
<1> QED BY <1>1, <1>2, <1>3 DEF File!FileSafe

--------------------------------------------------------------------------------
(* The theorem about the file *)

LEMMA FileMoves == [MCNext]_allVars => [File!Next]_(File!vars)
BY DEF MCNext, allVars, fileVars, File!vars, File!memory

LEMMA FileInvariant == MCSpec => []FileInv
<1>1. MCInit => FileInv
  BY FileInit DEF MCInit
<1>2. FileInv /\ [MCNext]_allVars => FileInv'
  BY FileStep, FileMoves
<1> QED
  BY <1>1, <1>2, PTL DEF MCSpec

(* Whichever call fails and wherever a process or a machine stops: what a    *)
(* power loss may leave can be read and holds every event whose append was   *)
(* acknowledged, and between two calls the file holds what the live          *)
(* session's cursor counts; and the copies of a storage domain agree between *)
(* two jobs (the JSONL backend's append, rollback, torn tail and repair; the *)
(* domain's chain, the unit's rollback).                                     *)
THEOREM FilesAlwaysHold == MCSpec => []FilesHold
<1>1. FileInv /\ Domain!DomainSafe => FilesHold
  BY FileIsSafe DEF FilesHold
<1> QED
  BY <1>1, FileInvariant, DomainIsSafe, PTL

--------------------------------------------------------------------------------
(* The coordinator and its pool *)

(* The instance has its own names for the notions of FiniteSets. *)
LEMMA SameSizes ==
  /\ \A S : Pool!Cardinality(S) = Cardinality(S)
  /\ \A S : Pool!IsFiniteSet(S) <=> IsFiniteSet(S)
BY DEF Pool!Cardinality, Cardinality, Pool!IsFiniteSet, IsFiniteSet

Sources == [read : Nat, open : BOOLEAN]

Phases == {"none", "loading", "ready", "committing", "reserved"}

Places == Pool!Finished \union {"start", "retirement", "waiting", "recheck", "queued", "committing",
                           "checking", "holding"}

Tasks ==
  [kind : {"load"}, who : Pool!Generations] \union [kind : {"append"}, who : {Pool!None}]
    \union [kind : {"commit", "check", "write", "retire"}, who : Openers]

Calls == [Openers -> [pc : Places, gen : Pool!Generations \union {0}, src : Sources, asked : Nat]]

(* What an entry and the calls are, when n changes have been made to the log. *)
EntryOK(e, n) ==
  /\ e \in [gen : Pool!Generations \union {0}, phase : Phases, src : Sources]
  /\ e.gen = 0 <=> e.phase = "none"
  /\ e.src.read = 0 <=> e.phase \in {"none", "loading"}
  /\ e.src.read <= n

CallsOK(cs, n) ==
  cs \in Calls /\ \A o \in Openers : cs[o].src.read <= n /\ cs[o].asked <= n

TasksOK == serial \in Seq(Tasks) /\ running \in BOOLEAN /\ (running => serial # <<>>)

StateOK ==
  /\ state \in [tracked : BOOLEAN, cursor : Nat, owner : Openers \union {Pool!None}]
  /\ live \in Openers \union {Pool!None} /\ retiring \in Openers \union {Pool!None} /\ tail \in BOOLEAN

Typing ==
  /\ stored \in Nat \ {0} /\ open \in BOOLEAN /\ broken \in BOOLEAN
  /\ EntryOK(prepared, stored) /\ CallsOK(call, stored) /\ TasksOK /\ StateOK

(* What the openers ask for. *)
Asking == setup \in Setups /\ kind \in [Openers -> Pool!Kinds]

(* An opener past its cold read knows which entry it joined and what was read. *)
Joined ==
  \A o \in Openers :
    call[o].pc \in {"recheck", "queued", "committing", "checking", "holding"} =>
      call[o].gen # 0 /\ call[o].src.read # 0

(* The entry is reserved for the one opener that commits or holds it; while  *)
(* an opener commits whose entry was taken away, the next one is not read.   *)
Claims ==
  /\ \A o \in Openers : call[o].pc = "committing" =>
       \/ prepared.gen = call[o].gen /\ prepared.phase = "committing"
       \/ prepared.gen # call[o].gen /\ prepared.phase \in {"none", "loading"}
  /\ \A o \in Openers : call[o].pc = "holding" =>
       prepared.gen = call[o].gen /\ prepared.phase = "reserved"
  /\ prepared.phase = "committing" =>
       \E o \in Openers : call[o].pc = "committing" /\ call[o].gen = prepared.gen
  /\ prepared.phase = "reserved" =>
       \E o \in Openers : call[o].pc = "holding" /\ call[o].gen = prepared.gen
  /\ \A o, p \in Openers :
       call[o].pc \in {"committing", "holding"} /\ call[p].pc \in {"committing", "holding"} => o = p

(* Commits and checks belong to openers that wait for them or have gone, and *)
(* to no opener twice.                                                       *)
Queue ==
  /\ \A o \in Openers : call[o].pc = "committing" =>
       \E i \in DOMAIN serial : serial[i] = Pool!Task("commit", o)
  /\ \A i \in DOMAIN serial :
       /\ serial[i].kind = "commit" => call[serial[i].who].pc \in Pool!Finished \union {"committing"}
       /\ serial[i].kind = "check" => call[serial[i].who].pc \in Pool!Finished \union {"checking"}
  /\ \A i, j \in DOMAIN serial :
       serial[i] = serial[j] /\ serial[i].kind \in {"load", "commit", "check"} => i = j

(* The entry is being read while its load is on the chain, behind the commit *)
(* of an opener whose entry was taken away.                                  *)
Loads ==
  /\ prepared.phase = "loading" => \E i \in DOMAIN serial : serial[i] = Pool!Task("load", prepared.gen)
  /\ \A i \in DOMAIN serial : serial[i] = Pool!Task("load", prepared.gen) =>
       /\ prepared.phase = "loading"
       /\ \A j \in DOMAIN serial :
            serial[j].kind = "commit" /\ call[serial[j].who].pc = "committing" => j < i

(* A task that has begun: its opener is there, and a write found no owner. *)
Begun ==
  running =>
    /\ Pool!Head1.kind \in {"commit", "check"} => call[Pool!Head1.who].pc \notin Pool!Finished
    /\ Pool!Head1.kind \in {"append", "write"} => prepared.phase # "reserved"

(* The owner in the coordinator's state is the live or the retiring session, *)
(* or one whose last flush failed; events still to be stored have an owner.  *)
Ownership ==
  /\ state.owner # Pool!None => state.tracked
  /\ live # Pool!None => state.owner = live /\ retiring = Pool!None
  /\ retiring # Pool!None => state.owner = retiring
  /\ tail => state.owner # Pool!None

(* A retirement is released once, when its session has nothing left to store. *)
Retires ==
  \A i \in DOMAIN serial : serial[i].kind = "retire" =>
    /\ retiring # Pool!None /\ ~tail
    /\ \A j \in DOMAIN serial : serial[j].kind = "retire" => i = j

(* The opener that holds the session finds the state its commit has set. *)
Held ==
  /\ \A o \in Openers : call[o].pc = "holding" =>
       state.owner = Pool!None /\ state.tracked /\ state.cursor = prepared.src.read
  /\ Pool!OwnedCursorExact

PoolInv == Typing /\ Asking /\ Joined /\ Claims /\ Queue /\ Loads /\ Begun /\ Ownership /\ Retires /\ Held

--------------------------------------------------------------------------------
LEMMA Steps ==
  ASSUME [Pool!Next]_(Pool!vars)
  PROVE  \/ \E o \in Openers : Pool!AwaitRetirement(o) \/ Pool!MeetLive(o) \/ Pool!Join(o) \/ Pool!Reserve(o) \/ Pool!Check(o)
         \/ \E o \in Openers : Pool!Abort(o) \/ (\E reusable \in BOOLEAN : Pool!Release(o, reusable))
         \/ \E o \in Openers, grown \in BOOLEAN : Pool!Publish(o, grown)
         \/ Pool!Begin \/ Pool!LoadEnds \/ Pool!LoadFails \/ Pool!CommitRestarts \/ Pool!CheckEnds \/ Pool!Adopt
         \/ Pool!AppendFails \/ Pool!WriteFails \/ Pool!RetireEnds
         \/ \E fails \in BOOLEAN : Pool!CommitRefused(fails)
         \/ \E aborted \in BOOLEAN : Pool!CommitEnds(aborted)
         \/ \E opens \in BOOLEAN : Pool!AppendEnds(opens) \/ Pool!WriteEnds(opens)
         \/ Pool!PublicAppend \/ Pool!DisposeSession \/ Pool!RetireFlushed \/ Pool!ForeignWrite \/ Pool!Evict
         \/ \E window \in BOOLEAN : Pool!LiveEvent(window)
         \/ UNCHANGED Pool!vars
BY DEF Pool!Next, Pool!Steps, Pool!Opener, Pool!Holder, Pool!Chain

LEMMA AskingStep == PoolInv /\ [Pool!Next]_(Pool!vars) => Asking'
<1> SUFFICES ASSUME Asking, [Pool!Next]_(Pool!vars) PROVE Asking'
  BY DEF PoolInv
<1>1. UNCHANGED setup
  BY DEF Pool!Next, Pool!Fixed, Pool!vars
<1>2. UNCHANGED kind
  BY Steps
  DEF Pool!AwaitRetirement, Pool!MeetLive, Pool!Join, Pool!Reserve, Pool!Check, Pool!Abort,
      Pool!Release, Pool!Publish, Pool!Begin, Pool!LoadEnds, Pool!LoadFails,
      Pool!CommitRestarts, Pool!CheckEnds, Pool!Adopt, Pool!AppendFails, Pool!WriteFails,
      Pool!RetireEnds, Pool!CommitRefused, Pool!CommitEnds, Pool!AppendEnds, Pool!WriteEnds,
      Pool!PublicAppend, Pool!DisposeSession, Pool!RetireFlushed, Pool!ForeignWrite,
      Pool!Evict, Pool!LiveEvent, Pool!vars
<1> QED
  BY <1>1, <1>2 DEF Asking, Pool!Kinds

(* What joins the end of the chain leaves the tasks before it where they are. *)
LEMMA Joins ==
  ASSUME serial \in Seq(Tasks), NEW task \in Tasks, Pool!Enqueued(task)
  PROVE  /\ serial' \in Seq(Tasks) /\ serial' # <<>>
         /\ Len(serial) \in Nat /\ DOMAIN serial = 1..Len(serial)
         /\ DOMAIN serial' = 1..(Len(serial) + 1)
         /\ \A i \in DOMAIN serial : serial'[i] = serial[i]
         /\ serial'[Len(serial) + 1] = task
         /\ serial # <<>> => Head(serial') = Pool!Head1
BY AppendProperties, HeadTailAppend, LenProperties DEF Pool!Enqueued, Pool!Head1

(* The task that ends is the first: the others move up by one. *)
LEMMA Ends ==
  ASSUME serial \in Seq(Tasks), serial # <<>>, serial' = Tail(serial)
  PROVE  /\ serial' \in Seq(Tasks) /\ Pool!Head1 \in Tasks
         /\ Len(serial) \in Nat \ {0} /\ DOMAIN serial = 1..Len(serial)
         /\ DOMAIN serial' = 1..(Len(serial) - 1)
         /\ \A i \in DOMAIN serial' : serial'[i] = serial[i + 1]
         /\ serial[1] = Pool!Head1
<1>1. serial' \in Seq(Tasks) /\ Pool!Head1 \in Tasks /\ Len(serial') = Len(serial) - 1
      /\ \A i \in 1..Len(serial') : serial'[i] = serial[i + 1]
  BY HeadTailProperties DEF Pool!Head1
<1>2. Len(serial) \in Nat \ {0} /\ DOMAIN serial = 1..Len(serial) /\ DOMAIN serial' = 1..Len(serial')
  BY <1>1, EmptySeq, LenProperties
<1>3. serial[1] = Pool!Head1
  BY <1>2 DEF Pool!Head1
<1> QED
  BY <1>1, <1>2, <1>3

LEMMA TaskTyped ==
  ASSUME serial \in Seq(Tasks), serial # <<>>
  PROVE  /\ Pool!Head1 \in Tasks /\ serial[1] = Pool!Head1 /\ 1 \in DOMAIN serial
         /\ Pool!Head1.kind \in {"commit", "check", "write", "retire"} => Pool!Head1.who \in Openers
         /\ Pool!Head1.kind = "load" => Pool!Head1.who \in Pool!Generations
<1>1. Pool!Head1 \in Tasks
  BY HeadTailProperties DEF Pool!Head1
<1>2. serial[1] = Pool!Head1 /\ 1 \in DOMAIN serial
  BY EmptySeq, LenProperties DEF Pool!Head1
<1> QED
  BY <1>1, <1>2 DEF Tasks

(* What the updates of entry and calls return. *)
LEMMA CallsLater ==
  ASSUME NEW n \in Nat, NEW cs, CallsOK(cs, n)
  PROVE  CallsOK(cs, n + 1)
BY DEF CallsOK, Calls, Sources

LEMMA EntryLater ==
  ASSUME NEW n \in Nat, NEW e, EntryOK(e, n)
  PROVE  EntryOK(e, n + 1)
BY DEF EntryOK, Sources

LEMMA CallTyped ==
  ASSUME NEW n \in Nat, CallsOK(call, n), NEW o \in Openers, NEW c,
         c \in [pc : Places, gen : Pool!Generations \union {0}, src : Sources, asked : Nat],
         c.src.read <= n, c.asked <= n
  PROVE  CallsOK([call EXCEPT ![o] = c], n)
BY DEF CallsOK, Calls

LEMMA GoesTyped ==
  ASSUME NEW n \in Nat, CallsOK(call, n), NEW o \in Openers, NEW place \in Places
  PROVE  CallsOK(Pool!Goes(o, place), n)
BY DEF CallsOK, Calls, Pool!Goes

LEMMA LeavesTyped ==
  ASSUME NEW n \in Nat, CallsOK(call, n), NEW o \in Openers, NEW place \in Places
  PROVE  CallsOK(Pool!Leaves(o, place), n)
<1>1. /\ Pool!NoSource \in Sources /\ Pool!NoSource.read = 0
  BY DEF Pool!NoSource, Sources
<1> QED
  BY <1>1, CallTyped DEF CallsOK, Calls, Pool!Leaves, Pool!Call

LEMMA WokenTyped ==
  ASSUME NEW n \in Nat, NEW cs, CallsOK(cs, n), NEW g
  PROVE  CallsOK(Pool!Woken(cs, g), n)
BY DEF CallsOK, Calls, Pool!Woken, Places

LEMMA NothingTyped ==
  /\ Pool!NoSource \in Sources /\ Pool!NoSource.read = 0
  /\ \A n \in Nat : EntryOK(Pool!NoEntry, n)
BY DEF EntryOK, Pool!NoEntry, Pool!Entry, Pool!NoSource, Sources, Phases

LEMMA EntryTyped ==
  ASSUME NEW n \in Nat, NEW g \in Pool!Generations
  PROVE  /\ EntryOK(Pool!Entry(g, "loading", Pool!NoSource), n)
         /\ \A src \in Sources : src.read # 0 /\ src.read <= n =>
              \A phase \in {"ready", "committing", "reserved"} : EntryOK(Pool!Entry(g, phase, src), n)
BY DEF EntryOK, Pool!NoEntry, Pool!Entry, Pool!NoSource, Sources, Phases, Pool!Generations

LEMMA EntryMoves ==
  ASSUME NEW n \in Nat, EntryOK(prepared, n), NEW g
  PROVE  /\ Pool!Remove(g) => EntryOK(prepared', n)
         /\ \A src \in Sources :
              g # 0 /\ src.read # 0 /\ src.read <= n /\ Pool!MakeReady(g, src) => EntryOK(prepared', n)
<1>1. Pool!Remove(g) => EntryOK(prepared', n)
  BY NothingTyped DEF Pool!Remove
<1>2. ASSUME NEW src \in Sources, g # 0, src.read # 0, src.read <= n, Pool!MakeReady(g, src)
      PROVE  EntryOK(prepared', n)
  BY <1>2, EntryTyped DEF Pool!MakeReady, EntryOK
<1> QED
  BY <1>1, <1>2

LEMMA TasksTyped ==
  ASSUME TasksOK
  PROVE  /\ \A task \in Tasks : Pool!Enqueued(task) /\ UNCHANGED running => TasksOK'
         /\ serial # <<>> /\ Pool!TaskEnds => TasksOK'
         /\ UNCHANGED Pool!tasks => TasksOK'
         /\ \A o \in Openers : \A k \in {"commit", "check", "write", "retire"} : Pool!Task(k, o) \in Tasks
         /\ \A g \in Pool!Generations : Pool!Task("load", g) \in Tasks
         /\ Pool!Task("append", Pool!None) \in Tasks
<1>1. /\ \A o \in Openers : \A k \in {"commit", "check", "write", "retire"} : Pool!Task(k, o) \in Tasks
      /\ \A g \in Pool!Generations : Pool!Task("load", g) \in Tasks
      /\ Pool!Task("append", Pool!None) \in Tasks
  BY DEF Tasks, Pool!Task
<1>2. ASSUME NEW task \in Tasks, Pool!Enqueued(task), UNCHANGED running PROVE TasksOK'
  BY <1>2, Joins DEF TasksOK
<1>3. ASSUME serial # <<>>, Pool!TaskEnds PROVE TasksOK'
  BY <1>3, Ends DEF TasksOK, Pool!TaskEnds
<1>4. UNCHANGED Pool!tasks => TasksOK'
  BY DEF TasksOK, Pool!tasks
<1> QED
  BY <1>1, <1>2, <1>3, <1>4

(* A commit or a check that ends is its opener's, who waits for it. *)
LEMMA Waited ==
  ASSUME Typing, Joined, Queue, Begun, Pool!Runs("commit") \/ Pool!Runs("check")
  PROVE  LET o == Pool!Head1.who
         IN /\ o \in Openers /\ call[o].gen \in Pool!Generations
            /\ call[o].src \in Sources /\ call[o].src.read # 0 /\ call[o].src.read <= stored
            /\ Pool!Runs("commit") => call[o].pc = "committing"
            /\ Pool!Runs("check") => call[o].pc = "checking"
<1>1. running /\ serial # <<>> /\ Pool!Head1.kind \in {"commit", "check"}
  BY DEF Pool!Runs, Pool!Immediate
<1>2. Pool!Head1.who \in Openers /\ serial[1] = Pool!Head1 /\ 1 \in DOMAIN serial
  BY <1>1, TaskTyped DEF Typing, TasksOK
<1>3. call[Pool!Head1.who].pc \notin Pool!Finished
  BY <1>1 DEF Begun
<1>4. /\ Pool!Runs("commit") => call[Pool!Head1.who].pc = "committing"
      /\ Pool!Runs("check") => call[Pool!Head1.who].pc = "checking"
  BY <1>1, <1>2, <1>3 DEF Queue, Pool!Runs
<1>5. call[Pool!Head1.who].gen # 0 /\ call[Pool!Head1.who].src.read # 0
  BY <1>1, <1>2, <1>4 DEF Joined, Pool!Runs
<1> QED
  BY <1>2, <1>4, <1>5 DEF Typing, CallsOK, Calls

LEMMA PoolTypeStep == PoolInv /\ [Pool!Next]_(Pool!vars) => Typing'
<1> SUFFICES ASSUME Typing, Joined, Queue, Begun, [Pool!Next]_(Pool!vars) PROVE Typing'
  BY DEF PoolInv
<1> USE TasksTyped DEF Typing, Pool!log, Pool!tasks, Pool!session, Pool!bounds
<1>0. stored \in Nat /\ stored + 1 \in Nat \ {0} /\ {"start", "retirement", "waiting", "recheck",
        "queued", "committing", "checking", "holding", "answered", "failed"} \subseteq Places
  BY DEF Places, Pool!Finished
<1>a. /\ \A o \in Openers : \A place \in Places :
           CallsOK(Pool!Goes(o, place), stored) /\ CallsOK(Pool!Leaves(o, place), stored)
             /\ \A g : CallsOK(Pool!Woken(Pool!Goes(o, place), g), stored) /\ CallsOK(Pool!Woken(Pool!Leaves(o, place), g), stored)
      /\ \A g : CallsOK(Pool!Woken(call, g), stored)
  BY <1>0, GoesTyped, LeavesTyped, WokenTyped
<1>b. ASSUME NEW g, Pool!Remove(g) PROVE EntryOK(prepared', stored)
  BY <1>0, <1>b, EntryMoves
<1>c. ASSUME NEW g, g # 0, NEW src \in Sources, Pool!MakeReady(g, src), src.read # 0, src.read <= stored
      PROVE  EntryOK(prepared', stored)
  BY <1>0, <1>c, EntryMoves
<1>d. ASSUME NEW o \in Openers
      PROVE  call[o].src \in Sources /\ call[o].src.read <= stored /\ call[o].gen \in Pool!Generations \union {0}
             /\ call[o].asked \in Nat /\ call[o].asked <= stored
  BY DEF CallsOK, Calls
<1>e. EntryOK(Pool!NoEntry, stored) /\ EntryOK(Pool!NoEntry, stored + 1)
  BY <1>0, NothingTyped
<1>h. ASSUME serial # <<>>, Pool!Head1.kind \in {"commit", "check", "write", "retire"}
      PROVE  Pool!Head1.who \in Openers
  BY <1>h, TaskTyped DEF TasksOK
<1>1. ASSUME NEW o \in Openers, Pool!AwaitRetirement(o) PROVE Typing'
  BY <1>1, GoesTyped DEF Pool!AwaitRetirement, Pool!Goes, Places, StateOK
<1>2. ASSUME NEW o \in Openers, Pool!MeetLive(o) PROVE Typing'
  BY <1>0, <1>2, <1>a DEF Pool!MeetLive, StateOK
<1>3. ASSUME NEW o \in Openers, Pool!Join(o) PROVE Typing'
  <2> DEFINE asked == IF call[o].asked = 0 /\ kind[o] = "load" THEN stored ELSE call[o].asked
  <2>1. asked \in Nat /\ asked <= stored
    BY <1>0, <1>d
  <2>2. CASE prepared.gen # 0
    <3>1. call' = [call EXCEPT ![o] =
            Pool!Call(IF prepared.phase = "loading" THEN "waiting" ELSE "recheck", prepared.gen, prepared.src, asked)]
      BY <1>3, <2>2 DEF Pool!Join
    <3>2. CallsOK(call', stored)
      BY <1>0, <2>1, <3>1, CallTyped DEF Pool!Call, EntryOK
    <3> QED
      BY <1>3, <2>2, <3>2 DEF Pool!Join, StateOK
  <2>3. CASE prepared.gen = 0
    <3>1. PICK g \in Pool!Generations :
            /\ prepared' = Pool!Entry(g, "loading", Pool!NoSource) /\ Pool!Enqueued(Pool!Task("load", g))
            /\ call' = [call EXCEPT ![o] = Pool!Call("waiting", g, Pool!NoSource, asked)]
      BY <1>3, <2>3 DEF Pool!Join
    <3>2. CallsOK(call', stored)
      <4>1. Pool!Call("waiting", g, Pool!NoSource, asked)
              \in [pc : Places, gen : Pool!Generations \union {0}, src : Sources, asked : Nat]
        BY <1>0, <2>1, NothingTyped DEF Pool!Call
      <4>2. Pool!Call("waiting", g, Pool!NoSource, asked).src.read <= stored
            /\ Pool!Call("waiting", g, Pool!NoSource, asked).asked <= stored
        BY <1>0, <2>1, NothingTyped DEF Pool!Call
      <4> HIDE DEF asked
      <4> QED
        BY <1>0, <3>1, <4>1, <4>2, CallTyped
    <3> QED
      BY <1>0, <1>3, <3>1, <3>2, EntryTyped DEF Pool!Join, StateOK
  <2> QED
    BY <2>2, <2>3
<1>4. ASSUME NEW o \in Openers, Pool!Reserve(o) PROVE Typing'
  BY <1>0, <1>4, <1>a DEF Pool!Reserve, Pool!CanReserve, EntryOK, Phases, StateOK
<1>5. ASSUME NEW o \in Openers, Pool!Check(o) PROVE Typing'
  BY <1>0, <1>5, <1>a DEF Pool!Check, StateOK
<1>6. ASSUME NEW o \in Openers, Pool!Abort(o) PROVE Typing'
  BY <1>0, <1>6, <1>a, <1>b DEF Pool!Abort, StateOK
<1>7. ASSUME NEW o \in Openers, NEW reusable \in BOOLEAN, Pool!Release(o, reusable) PROVE Typing'
  BY <1>0, <1>7, <1>b, <1>c, <1>d, <1>a DEF Pool!Release, Joined, StateOK
<1>8. ASSUME NEW o \in Openers, NEW grown \in BOOLEAN, Pool!Publish(o, grown) PROVE Typing'
  BY <1>0, <1>8, <1>a, <1>e DEF Pool!Publish, StateOK
<1>9. ASSUME Pool!Begin PROVE Typing'
  <2>1. TasksOK'
    <3>1. CASE serial' = Tail(serial) /\ UNCHANGED running
      BY <1>9, <3>1, Ends DEF Pool!Begin, TasksOK
    <3>2. CASE running' = TRUE /\ UNCHANGED serial
      BY <1>9, <3>2 DEF Pool!Begin, TasksOK
    <3> QED
      BY <1>9, <3>1, <3>2 DEF Pool!Begin
  <2> QED
    BY <1>9, <2>1 DEF Pool!Begin, StateOK
<1>10. ASSUME Pool!LoadEnds PROVE Typing'
  <2> DEFINE src == [read |-> stored, open |-> open]
  <2>1. src \in Sources /\ src.read # 0 /\ src.read <= stored
    BY <1>0 DEF Sources
  <2>2. Pool!Head1.who \in Pool!Generations /\ Pool!Head1.who # 0
    BY <1>10, TaskTyped DEF Pool!LoadEnds, Pool!Runs, TasksOK, Pool!Generations
  <2>3. CallsOK(call', stored)
    BY <1>0, <1>10, <2>1, <2>2 DEF Pool!LoadEnds, CallsOK, Calls, Pool!Call
  <2> QED
    BY <1>10, <2>1, <2>2, <2>3, <1>c DEF Pool!LoadEnds, Pool!Runs, StateOK
<1>11. ASSUME Pool!LoadFails PROVE Typing'
  BY <1>0, <1>11, <1>b DEF Pool!LoadFails, CallsOK, Calls, Pool!Call, Pool!NoSource, Sources,
     Pool!Runs, StateOK
<1>12. ASSUME Pool!CommitRestarts PROVE Typing'
  <2>1. stored' \in Nat \ {0} /\ open' \in BOOLEAN /\ (stored' = stored \/ stored' = stored + 1)
    BY <1>0, <1>12 DEF Pool!CommitRestarts
  <2>2. CallsOK(call', stored) /\ EntryOK(prepared', stored)
    BY <1>0, <1>12, <1>a, <1>b, <1>h DEF Pool!CommitRestarts, Pool!Runs
  <2>3. CallsOK(call', stored') /\ EntryOK(prepared', stored')
    BY <1>0, <2>1, <2>2, CallsLater, EntryLater
  <2> QED
    BY <1>12, <2>1, <2>3 DEF Pool!CommitRestarts, Pool!Runs, StateOK
<1>13. ASSUME Pool!CheckEnds PROVE Typing'
  BY <1>0, <1>13, <1>a, <1>b, <1>h DEF Pool!CheckEnds, Pool!Runs, StateOK
<1>14. ASSUME Pool!Adopt PROVE Typing'
  <2>1. stored' \in Nat \ {0} /\ open' \in BOOLEAN /\ (stored' = stored \/ stored' = stored + 1)
    BY <1>0, <1>14 DEF Pool!Adopt
  <2>2. EntryOK(prepared', stored)
    BY <1>14, <1>e DEF Pool!Adopt
  <2>3. CallsOK(call, stored') /\ EntryOK(prepared', stored')
    BY <1>0, <2>1, <2>2, CallsLater, EntryLater
  <2>4. StateOK'
    <3>1. state' = state \/ state' = [tracked |-> TRUE, cursor |-> stored, owner |-> Pool!None]
      BY <1>14 DEF Pool!Adopt
    <3>2. state' \in [tracked : BOOLEAN, cursor : Nat, owner : Openers \union {Pool!None}]
      <4>1. [tracked |-> TRUE, cursor |-> stored, owner |-> Pool!None]
              \in [tracked : BOOLEAN, cursor : Nat, owner : Openers \union {Pool!None}]
        BY <1>0
      <4> QED
        BY <3>1, <4>1 DEF StateOK
    <3> QED
      BY <1>14, <3>2 DEF Pool!Adopt, StateOK
  <2> QED
    BY <1>14, <2>1, <2>3, <2>4 DEF Pool!Adopt
<1>15. ASSUME Pool!AppendFails \/ Pool!WriteFails PROVE Typing'
  BY <1>15 DEF Pool!AppendFails, Pool!WriteFails, Pool!Runs, StateOK
<1>16. ASSUME Pool!RetireEnds PROVE Typing'
  BY <1>0, <1>16 DEF Pool!RetireEnds, CallsOK, Calls, Pool!Forgotten, Pool!Untracked, StateOK,
     Pool!Runs
<1>17. ASSUME NEW fails \in BOOLEAN, Pool!CommitRefused(fails) PROVE Typing'
  BY <1>0, <1>17, <1>a, <1>b, <1>h DEF Pool!CommitRefused, Pool!Runs, StateOK
<1>18. ASSUME NEW aborted \in BOOLEAN, Pool!CommitEnds(aborted) PROVE Typing'
  <2> DEFINE o == Pool!Head1.who
             g == call[o].gen
             src == call[o].src
  <2>1. o \in Openers /\ g \in Pool!Generations /\ src \in Sources /\ src.read # 0 /\ src.read = stored
    BY <1>18, Waited DEF Pool!CommitEnds, Pool!StillCurrent
  <2>2. g # 0
    BY <2>1 DEF Pool!Generations
  <2>3. EntryOK(prepared', stored)
    BY <1>0, <1>18, <2>1, <2>2, <1>b, <1>c, EntryTyped DEF Pool!CommitEnds
  <2>4. CallsOK(call', stored)
    BY <1>0, <1>18, <2>1, <1>a DEF Pool!CommitEnds
  <2>5. StateOK'
    BY <1>0, <1>18, <2>1 DEF Pool!CommitEnds, StateOK
  <2> QED
    BY <1>18, <2>3, <2>4, <2>5 DEF Pool!CommitEnds, Pool!Runs
<1>19. ASSUME NEW opens \in BOOLEAN, Pool!AppendEnds(opens) \/ Pool!WriteEnds(opens) PROVE Typing'
  <2>1. stored' = stored + 1 /\ open' \in BOOLEAN /\ broken' \in BOOLEAN /\ prepared' = Pool!NoEntry
        /\ call' = Pool!Woken(call, prepared.gen) /\ state' = [state EXCEPT !.cursor = @ + 1]
    BY <1>19 DEF Pool!AppendEnds, Pool!WriteEnds, Pool!Stores
  <2>2. CallsOK(call', stored + 1)
    BY <1>0, <2>1, <1>a, CallsLater
  <2>3. StateOK'
    <3>1. state.cursor + 1 \in Nat
      BY DEF StateOK
    <3> QED
      BY <1>19, <2>1, <3>1 DEF Pool!AppendEnds, Pool!WriteEnds, StateOK
  <2> QED
    BY <1>0, <1>19, <2>1, <2>2, <2>3, <1>e DEF Pool!AppendEnds, Pool!WriteEnds, Pool!Runs
<1>20. ASSUME Pool!PublicAppend PROVE Typing'
  BY <1>20 DEF Pool!PublicAppend, StateOK
<1>21. ASSUME Pool!DisposeSession PROVE Typing'
  BY <1>21 DEF Pool!DisposeSession, StateOK
<1>22. ASSUME Pool!RetireFlushed PROVE Typing'
  <2>1. retiring' \in Openers \union {Pool!None} /\ state' = state /\ live' = live /\ tail' = tail
        /\ prepared' = prepared /\ stored' = stored /\ open' = open /\ broken' = broken
    BY <1>22 DEF Pool!RetireFlushed, StateOK
  <2>2. CallsOK(call', stored)
    BY <1>0, <1>22, NothingTyped DEF Pool!Call, CallsOK, Calls, Pool!RetireFlushed
  <2> QED BY <1>0, <1>22, <2>1, <2>2 DEF Pool!RetireFlushed, StateOK
<1>23. ASSUME NEW window \in BOOLEAN, Pool!LiveEvent(window) PROVE Typing'
  BY <1>23 DEF Pool!LiveEvent, StateOK
<1>24. ASSUME Pool!ForeignWrite PROVE Typing'
  BY <1>0, <1>24, CallsLater, EntryLater DEF Pool!ForeignWrite, StateOK
<1>25. ASSUME Pool!Evict PROVE Typing'
  BY <1>25, <1>e DEF Pool!Evict, StateOK
<1>26. CASE UNCHANGED Pool!vars
  BY <1>26 DEF Pool!vars, StateOK
<1> QED
  BY <1>1, <1>2, <1>3, <1>4, <1>5, <1>6, <1>7, <1>8, <1>9, <1>10, <1>11, <1>12, <1>13, <1>14,
     <1>15, <1>16, <1>17, <1>18, <1>19, <1>20, <1>21, <1>22, <1>23, <1>24, <1>25, <1>26, Steps

--------------------------------------------------------------------------------
(* What a step does to the calls *)

(* p stays where it is, or looks again at an entry that is free. *)
Same(p) ==
  /\ call'[p].gen = call[p].gen /\ call'[p].src = call[p].src
  /\ \/ call'[p].pc = call[p].pc
     \/ call[p].pc = "queued" /\ call'[p].pc = "recheck"

(* o leaves its entry, or goes on with it; no other call takes a step. *)
Left(o, place) ==
  call'[o].pc = place /\ call'[o].gen = 0 /\ \A p \in Openers \ {o} : Same(p)

Went(o, place) ==
  /\ call'[o].pc = place /\ call'[o].gen = call[o].gen /\ call'[o].src = call[o].src
  /\ \A p \in Openers \ {o} : Same(p)

LEMMA WokenCall ==
  ASSUME NEW cs \in Calls, NEW g, NEW p \in Openers
  PROVE  /\ Pool!Woken(cs, g)[p].gen = cs[p].gen /\ Pool!Woken(cs, g)[p].src = cs[p].src
         /\ \/ Pool!Woken(cs, g)[p].pc = cs[p].pc
            \/ cs[p].pc = "queued" /\ Pool!Woken(cs, g)[p].pc = "recheck"
<1>1. Pool!Woken(cs, g)[p] = IF cs[p].pc = "queued" /\ cs[p].gen = g
                           THEN [cs[p] EXCEPT !.pc = "recheck"] ELSE cs[p]
  BY DEF Pool!Woken
<1>2. cs[p] \in [pc : Places, gen : Pool!Generations \union {0}, src : Sources, asked : Nat]
  BY DEF Calls
<1>3. /\ [cs[p] EXCEPT !.pc = "recheck"].gen = cs[p].gen
      /\ [cs[p] EXCEPT !.pc = "recheck"].src = cs[p].src
      /\ [cs[p] EXCEPT !.pc = "recheck"].pc = "recheck"
  BY <1>2
<1> QED
  BY <1>1, <1>3

LEMMA LeavesCall ==
  ASSUME call \in Calls, NEW o \in Openers, NEW place \in Places
  PROVE  /\ Pool!Leaves(o, place) \in Calls /\ Pool!Leaves(o, place)[o].pc = place /\ Pool!Leaves(o, place)[o].gen = 0
         /\ \A p \in Openers \ {o} : Pool!Leaves(o, place)[p] = call[p]
BY NothingTyped DEF Calls, Pool!Leaves, Pool!Call

LEMMA Leaving ==
  ASSUME Typing, NEW o \in Openers, NEW place \in Places \ {"queued"},
         call' = Pool!Leaves(o, place) \/ \E g : call' = Pool!Woken(Pool!Leaves(o, place), g)
  PROVE  Left(o, place)
<1>1. call \in Calls
  BY DEF Typing, CallsOK
<1>2. CASE call' = Pool!Leaves(o, place)
  BY <1>1, <1>2, LeavesCall DEF Left, Same
<1>3. ASSUME NEW g, call' = Pool!Woken(Pool!Leaves(o, place), g) PROVE Left(o, place)
  BY <1>1, <1>3, LeavesCall, WokenCall DEF Left, Same
<1> QED
  BY <1>2, <1>3

LEMMA Going ==
  ASSUME Typing, NEW o \in Openers, NEW place \in Places, call' = Pool!Goes(o, place)
  PROVE  Went(o, place)
<1>1. /\ call[o] \in [pc : Places, gen : Pool!Generations \union {0}, src : Sources, asked : Nat]
      /\ DOMAIN call = Openers
  BY DEF Typing, CallsOK, Calls
<1>2. call'[o] = [call[o] EXCEPT !.pc = place] /\ \A p \in Openers \ {o} : call'[p] = call[p]
  BY <1>1 DEF Pool!Goes
<1> QED
  BY <1>1, <1>2 DEF Went, Same

LEMMA Waking ==
  ASSUME Typing, NEW g, call' = Pool!Woken(call, g)
  PROVE  \A p \in Openers : Same(p)
BY WokenCall DEF Typing, CallsOK, Same

(* The call of an opener that joins, and of those who wait for a read. *)
LEMMA Joining ==
  ASSUME Typing, NEW o \in Openers, Pool!Join(o)
  PROVE  /\ call[o].pc = "start" /\ \A p \in Openers \ {o} : call'[p] = call[p]
         /\ call'[o].gen = prepared'.gen /\ call'[o].src = prepared'.src
         /\ call'[o].pc = IF prepared'.phase = "loading" THEN "waiting" ELSE "recheck"
         /\ \/ prepared.gen # 0 /\ UNCHANGED <<prepared, serial>>
            \/ /\ prepared.gen = 0 /\ prepared'.phase = "loading" /\ Pool!NewEntry(prepared'.gen)
               /\ Pool!Enqueued(Pool!Task("load", prepared'.gen))
BY DEF Typing, CallsOK, Calls, Pool!Join, Pool!Call, Pool!Entry

LEMMA Loading ==
  ASSUME Typing, Pool!LoadEnds
  PROVE  \A p \in Openers :
           \/ call'[p] = call[p] /\ ~(call[p].pc = "waiting" /\ call[p].gen = Pool!Head1.who)
           \/ /\ call[p].pc = "waiting" /\ call'[p].pc = "recheck"
              /\ call'[p].gen = Pool!Head1.who /\ call'[p].src.read = stored
BY DEF Typing, CallsOK, Calls, Pool!LoadEnds, Pool!Call

LEMMA LoadFailing ==
  ASSUME Typing, Pool!LoadFails
  PROVE  \A p \in Openers :
           \/ call'[p] = call[p]
           \/ call[p].pc = "waiting" /\ call'[p].pc = "failed"
BY DEF Typing, CallsOK, Calls, Pool!LoadFails, Pool!Call

LEMMA Retiring ==
  ASSUME Typing, Pool!RetireFlushed \/ Pool!RetireEnds
  PROVE  \A p \in Openers :
           \/ call'[p] = call[p]
           \/ call[p].pc = "retirement" /\ call'[p].pc \in {"failed", "start"}
BY DEF Typing, CallsOK, Calls, Pool!RetireFlushed, Pool!RetireEnds, Pool!Call

LEMMA PlacesTyped ==
  {"start", "retirement", "waiting", "recheck", "queued", "committing", "checking", "holding",
   "answered", "failed"} \subseteq Places
BY DEF Places, Pool!Finished

--------------------------------------------------------------------------------
LEMMA JoinedStep == PoolInv /\ [Pool!Next]_(Pool!vars) => Joined'
<1> SUFFICES ASSUME PoolInv, [Pool!Next]_(Pool!vars) PROVE Joined'
  OBVIOUS
<1> USE PlacesTyped DEF PoolInv
<1>a. (\A p \in Openers : Same(p)) => Joined'
  BY DEF Joined, Same
<1>b. ASSUME NEW o \in Openers, NEW place \in {"start", "failed", "answered"}, Left(o, place)
      PROVE  Joined'
  BY <1>b DEF Joined, Left, Same
<1>c. ASSUME NEW o \in Openers, NEW place, Went(o, place),
             call[o].pc \in {"recheck", "committing"} \/ place = "retirement"
      PROVE  Joined'
  BY <1>c DEF Joined, Went, Same
<1>d. UNCHANGED call => Joined'
  BY DEF Joined
<1>1. ASSUME NEW o \in Openers, Pool!AwaitRetirement(o) PROVE Joined'
  BY <1>1, <1>c, Going DEF Pool!AwaitRetirement, Pool!Goes
<1>2. ASSUME NEW o \in Openers, Pool!MeetLive(o) PROVE Joined'
  BY <1>2, <1>b, Leaving DEF Pool!MeetLive
<1>3. ASSUME NEW o \in Openers, Pool!Join(o) PROVE Joined'
  BY <1>3, Joining DEF Typing, EntryOK, Pool!NewEntry, Pool!Generations, Joined
<1>4. ASSUME NEW o \in Openers, Pool!Reserve(o) PROVE Joined'
  BY <1>4, <1>b, <1>c, Leaving, Going DEF Pool!Reserve
<1>5. ASSUME NEW o \in Openers, Pool!Check(o) PROVE Joined'
  BY <1>5, <1>b, <1>c, Leaving, Going DEF Pool!Check
<1>6. ASSUME NEW o \in Openers, Pool!Abort(o) PROVE Joined'
  BY <1>6, <1>b, Leaving DEF Pool!Abort
<1>7. ASSUME NEW o \in Openers, NEW reusable \in BOOLEAN, Pool!Release(o, reusable) PROVE Joined'
  BY <1>7, <1>b, Leaving DEF Pool!Release
<1>8. ASSUME NEW o \in Openers, NEW grown \in BOOLEAN, Pool!Publish(o, grown) PROVE Joined'
  BY <1>8, <1>b, Leaving DEF Pool!Publish
<1>9. ASSUME Pool!LoadEnds PROVE Joined'
  BY <1>9, TaskTyped, Loading DEF Pool!LoadEnds, Pool!Runs, Typing, TasksOK, Pool!Generations,
     Joined
<1>10. ASSUME Pool!LoadFails PROVE Joined'
  BY <1>10, LoadFailing DEF Joined
<1>11. ASSUME Pool!CommitRestarts PROVE Joined'
  BY <1>11, <1>b, Leaving, Waited DEF Pool!CommitRestarts
<1>12. ASSUME Pool!CheckEnds PROVE Joined'
  BY <1>12, <1>b, Leaving, Waited DEF Pool!CheckEnds
<1>13. ASSUME NEW fails \in BOOLEAN, Pool!CommitRefused(fails) PROVE Joined'
  BY <1>13, <1>b, Leaving, Waited DEF Pool!CommitRefused
<1>14. ASSUME NEW aborted \in BOOLEAN, Pool!CommitEnds(aborted) PROVE Joined'
  BY <1>14, <1>b, <1>c, Leaving, Going, Waited DEF Pool!CommitEnds
<1>15. ASSUME NEW opens \in BOOLEAN, Pool!AppendEnds(opens) \/ Pool!WriteEnds(opens) PROVE Joined'
  BY <1>15, <1>a, Waking DEF Pool!AppendEnds, Pool!WriteEnds, Pool!Stores
<1>16. ASSUME Pool!RetireFlushed \/ Pool!RetireEnds PROVE Joined'
  BY <1>16, Retiring DEF Joined
<1>17. ASSUME \/ Pool!Begin \/ Pool!Adopt \/ Pool!AppendFails \/ Pool!WriteFails \/ Pool!PublicAppend \/ Pool!DisposeSession
              \/ (\E window \in BOOLEAN : Pool!LiveEvent(window)) \/ Pool!ForeignWrite \/ Pool!Evict \/ UNCHANGED Pool!vars
       PROVE  Joined'
  BY <1>17, <1>d
  DEF Pool!Begin, Pool!Adopt, Pool!AppendFails, Pool!WriteFails, Pool!PublicAppend,
       Pool!DisposeSession, Pool!LiveEvent,
                     Pool!ForeignWrite, Pool!Evict, Pool!vars
<1> QED
  BY <1>1, <1>2, <1>3, <1>4, <1>5, <1>6, <1>7, <1>8, <1>9, <1>10, <1>11, <1>12, <1>13, <1>14,
     <1>15, <1>16, <1>17, Steps

--------------------------------------------------------------------------------
Owning == {"committing", "holding"}

(* p claims the session after a step as it did before. *)
Kept(p) ==
  \/ call'[p].pc = call[p].pc /\ call'[p].gen = call[p].gen
  \/ call[p].pc \notin Owning /\ call'[p].pc \notin Owning

(* The load that ends finds its entry being read, and no opener that commits. *)
LEMMA LoadFinds ==
  ASSUME Typing, Claims, Queue, Loads, Pool!Runs("load"), prepared.gen = Pool!Head1.who
  PROVE  prepared.phase = "loading" /\ \A p \in Openers : call[p].pc \notin Owning
<1>1. Pool!Head1 = Pool!Task("load", Pool!Head1.who) /\ serial[1] = Pool!Head1 /\ 1 \in DOMAIN serial
      /\ DOMAIN serial = 1..Len(serial)
  BY TaskTyped, LenProperties DEF Pool!Runs, Typing, TasksOK, Tasks, Pool!Task
<1>2. /\ prepared.phase = "loading"
      /\ \A j \in DOMAIN serial : serial[j].kind = "commit" /\ call[serial[j].who].pc = "committing" => j < 1
  BY <1>1 DEF Loads
<1>3. ASSUME NEW p \in Openers, call[p].pc = "committing" PROVE FALSE
  <2>1. PICK j \in DOMAIN serial : serial[j] = Pool!Task("commit", p)
    BY <1>3 DEF Queue
  <2> QED
    BY <1>1, <1>2, <1>3, <2>1 DEF Pool!Task
<1> QED
  BY <1>2, <1>3 DEF Claims, Owning

LEMMA ClaimsStep == PoolInv /\ [Pool!Next]_(Pool!vars) => Claims'
<1> SUFFICES ASSUME PoolInv, [Pool!Next]_(Pool!vars) PROVE Claims'
  OBVIOUS
<1> USE PlacesTyped DEF PoolInv
<1>a. (\A p \in Openers : Kept(p)) /\ UNCHANGED prepared => Claims'
  BY DEF Claims, Kept, Owning
<1>b. ASSUME NEW o \in Openers, NEW place \in {"start", "failed", "answered"}, Left(o, place),
             call[o].pc \in Owning,
             \/ prepared' = Pool!NoEntry
             \/ prepared.gen # call[o].gen /\ UNCHANGED prepared
             \/ \E g, src : prepared' = Pool!Entry(g, "ready", src)
      PROVE  Claims'
  BY <1>b DEF Claims, Left, Same, Owning, Pool!Remove, Pool!MakeReady, Pool!NoEntry, Pool!Entry
<1>c. ASSUME NEW o \in Openers, NEW place \in {"start", "failed", "answered"}, Left(o, place),
             call[o].pc \notin Owning, UNCHANGED prepared
      PROVE  Claims'
  BY <1>a, <1>c DEF Left, Same, Kept, Owning
<1>d. ASSUME NEW o \in Openers, NEW place, Went(o, place), call[o].pc \notin Owning, place \notin Owning,
             UNCHANGED prepared
      PROVE  Claims'
  BY <1>a, <1>d DEF Went, Same, Kept, Owning
<1>e. (\A p \in Openers : call'[p].pc \notin Owning) /\ prepared'.phase \notin {"committing", "reserved"}
        => Claims'
  BY DEF Claims, Owning
<1>f. UNCHANGED <<call, prepared>> => Claims'
  BY <1>a DEF Kept
<1>1. ASSUME NEW o \in Openers, Pool!AwaitRetirement(o) PROVE Claims'
  BY <1>1, <1>d, Going DEF Pool!AwaitRetirement, Pool!Goes, Owning
<1>2. ASSUME NEW o \in Openers, Pool!MeetLive(o) PROVE Claims'
  BY <1>2, <1>c, Leaving DEF Pool!MeetLive, Owning
<1>3. ASSUME NEW o \in Openers, Pool!Join(o) PROVE Claims'
  BY <1>3, Joining, <1>a DEF Kept, Owning, Pool!NewEntry, Typing, EntryOK, Claims
<1>4. ASSUME NEW o \in Openers, Pool!Reserve(o) PROVE Claims'
  BY <1>4, <1>c, Leaving, <1>d, Going DEF Pool!Reserve, Owning, Typing, EntryOK,
     Pool!CanReserve, Claims, Went, Same
<1>5. ASSUME NEW o \in Openers, Pool!Check(o) PROVE Claims'
  BY <1>5, <1>c, <1>d, Leaving, Going DEF Pool!Check, Owning
<1>6. ASSUME NEW o \in Openers, Pool!Abort(o) PROVE Claims'
  BY <1>6, Leaving, <1>b, <1>c DEF Pool!Abort, Owning, Pool!Remove
<1>7. ASSUME NEW o \in Openers, NEW reusable \in BOOLEAN, Pool!Release(o, reusable) PROVE Claims'
  BY <1>7, Leaving, <1>b DEF Pool!Release, Owning, Pool!Remove, Pool!MakeReady
<1>8. ASSUME NEW o \in Openers, NEW grown \in BOOLEAN, Pool!Publish(o, grown) PROVE Claims'
  BY <1>8, Leaving, <1>b DEF Pool!Publish, Owning
<1>9. ASSUME Pool!LoadEnds PROVE Claims'
  BY <1>9, Loading, <1>e, LoadFinds, <1>a DEF Kept, Owning, Pool!LoadEnds, Pool!MakeReady,
     Pool!Entry
<1>10. ASSUME Pool!LoadFails PROVE Claims'
  BY <1>10, LoadFailing, <1>e, LoadFinds, <1>a DEF Kept, Owning, Pool!LoadFails, Pool!Remove,
     Pool!NoEntry, Pool!Entry
<1>11. ASSUME Pool!CommitRestarts PROVE Claims'
  BY <1>11, Leaving, Waited, <1>b DEF Pool!CommitRestarts, Owning, Pool!Remove
<1>12. ASSUME Pool!CheckEnds PROVE Claims'
  BY <1>12, Waited, <1>c, Leaving, <1>e DEF Pool!CheckEnds, Owning, Claims, Left, Same,
     Pool!NoEntry, Pool!Entry, Pool!Remove
<1>13. ASSUME NEW fails \in BOOLEAN, Pool!CommitRefused(fails) PROVE Claims'
  BY <1>13, Leaving, Waited, <1>b DEF Pool!CommitRefused, Owning, Pool!Remove
<1>14. ASSUME NEW aborted \in BOOLEAN, Pool!CommitEnds(aborted) PROVE Claims'
  <2> DEFINE o == Pool!Head1.who
  <2>1. o \in Openers /\ call[o].pc = "committing"
    BY <1>14, Waited DEF Pool!CommitEnds
  <2>2. CASE prepared' = Pool!Entry(call[o].gen, "reserved", call[o].src) /\ call' = Pool!Goes(o, "holding")
    BY <2>1, <2>2, Going DEF Claims, Went, Same, Owning, Pool!Entry
  <2>3. CASE (\E place \in {"start", "failed", "answered"} : Left(o, place)) /\ prepared'.phase # "reserved"
    BY <1>14, <2>1, <2>3, <1>b DEF Pool!CommitEnds, Owning, Pool!Remove, Pool!MakeReady, Pool!Entry
  <2>4. CASE prepared.gen # call[o].gen /\ UNCHANGED prepared /\ call' = Pool!Leaves(o, "start")
    BY <2>1, <2>4, <1>b, Leaving DEF Owning
  <2>5. ASSUME Pool!MakeReady(call[o].gen, call[o].src) \/ Pool!Remove(call[o].gen)
        PROVE  prepared'.phase # "reserved"
    BY <2>1, <2>5 DEF Pool!MakeReady, Pool!Remove, Pool!Entry, Pool!NoEntry, Claims
  <2> QED
    BY <1>14, <2>1, <2>2, <2>3, <2>4, <2>5, Leaving DEF Pool!CommitEnds
<1>15. ASSUME NEW opens \in BOOLEAN, Pool!AppendEnds(opens) \/ Pool!WriteEnds(opens) PROVE Claims'
  <2>1. prepared.phase # "reserved"
    BY <1>15 DEF Pool!AppendEnds, Pool!WriteEnds, Pool!Runs, Pool!Immediate, Begun
  <2>2. prepared' = Pool!NoEntry /\ \A p \in Openers : Same(p)
    BY <1>15, Waking DEF Pool!AppendEnds, Pool!WriteEnds, Pool!Stores
  <2> QED
    BY <2>1, <2>2 DEF Claims, Joined, Same, Pool!NoEntry, Pool!Entry, Owning
<1>16. ASSUME Pool!RetireFlushed \/ Pool!RetireEnds PROVE Claims'
  BY <1>16, <1>a, Retiring DEF Pool!RetireFlushed, Pool!RetireEnds, Kept, Owning
<1>17. ASSUME Pool!Adopt \/ Pool!Evict PROVE Claims'
  BY <1>17, <1>e, <1>f DEF Pool!Adopt, Pool!Evict, Claims, Pool!NoEntry, Pool!Entry, Owning
<1>18. ASSUME \/ Pool!Begin \/ Pool!AppendFails \/ Pool!WriteFails \/ Pool!PublicAppend \/ Pool!DisposeSession
              \/ (\E window \in BOOLEAN : Pool!LiveEvent(window)) \/ Pool!ForeignWrite \/ UNCHANGED Pool!vars
       PROVE  Claims'
  BY <1>18, <1>f
  DEF Pool!Begin, Pool!AppendFails, Pool!WriteFails, Pool!PublicAppend, Pool!DisposeSession,
       Pool!LiveEvent,
                     Pool!ForeignWrite, Pool!vars
<1> QED
  BY <1>1, <1>2, <1>3, <1>4, <1>5, <1>6, <1>7, <1>8, <1>9, <1>10, <1>11, <1>12, <1>13, <1>14,
     <1>15, <1>16, <1>17, <1>18, Steps

--------------------------------------------------------------------------------
(* p waits for its commit or its check as before, or has gone. *)
Waits(p) ==
  /\ call[p].pc \in Pool!Finished => call'[p].pc \in Pool!Finished
  /\ \A place \in {"committing", "checking"} :
       call[p].pc = place => call'[p].pc \in Pool!Finished \union {place}

NoneCommits(p) == call'[p].pc = "committing" => call[p].pc = "committing"

LEMMA QueueKept ==
  ASSUME Queue, UNCHANGED serial, \A p \in Openers : Waits(p) /\ NoneCommits(p), Typing
  PROVE  Queue'
<1>1. \A i \in DOMAIN serial : serial[i].kind \in {"commit", "check"} => serial[i].who \in Openers
  BY ElementOfSeq, LenProperties DEF Typing, TasksOK, Tasks
<1> QED
  BY <1>1 DEF Queue, Waits, NoneCommits

LEMMA QueueJoined ==
  ASSUME Typing, Queue, NEW task \in Tasks, Pool!Enqueued(task),
         \A p \in Openers : Waits(p) /\ (NoneCommits(p) \/ task = Pool!Task("commit", p)),
         task.kind \in {"load", "commit", "check"} => \A i \in DOMAIN serial : serial[i] # task,
         task.kind = "commit" => call'[task.who].pc = "committing",
         task.kind = "check" => call'[task.who].pc = "checking"
  PROVE  Queue'
<1>1. /\ Len(serial) \in Nat /\ DOMAIN serial = 1..Len(serial) /\ DOMAIN serial' = 1..(Len(serial) + 1)
      /\ \A i \in DOMAIN serial : serial'[i] = serial[i]
      /\ serial'[Len(serial) + 1] = task
  BY Joins DEF Typing, TasksOK
<1>2. \A i \in DOMAIN serial : serial[i].kind \in {"commit", "check"} => serial[i].who \in Openers
  BY ElementOfSeq, LenProperties DEF Typing, TasksOK, Tasks
<1>3. \A i \in DOMAIN serial' : i \in DOMAIN serial \/ i = Len(serial) + 1
  BY <1>1
<1>4. ASSUME NEW p \in Openers, call'[p].pc = "committing"
      PROVE  \E i \in DOMAIN serial' : serial'[i] = Pool!Task("commit", p)
  BY <1>1, <1>4 DEF Queue, NoneCommits
<1>5. ASSUME NEW i \in DOMAIN serial'
      PROVE  /\ serial'[i].kind = "commit" => call'[serial'[i].who].pc \in Pool!Finished \union {"committing"}
             /\ serial'[i].kind = "check" => call'[serial'[i].who].pc \in Pool!Finished \union {"checking"}
  BY <1>1, <1>2, <1>3 DEF Queue, Waits
<1>6. ASSUME NEW i \in DOMAIN serial', NEW j \in DOMAIN serial', serial'[i] = serial'[j],
             serial'[i].kind \in {"load", "commit", "check"}
      PROVE  i = j
  BY <1>1, <1>3, <1>6 DEF Queue
<1> QED
  BY <1>4, <1>5, <1>6 DEF Queue

LEMMA QueueEnded ==
  ASSUME Typing, Queue, serial # <<>>, serial' = Tail(serial),
         \A p \in Openers :
           /\ NoneCommits(p) /\ (Waits(p) \/ Pool!Head1 \in {Pool!Task("commit", p), Pool!Task("check", p)})
           /\ call[p].pc \in Pool!Finished => call'[p].pc \in Pool!Finished
           /\ Pool!Head1 = Pool!Task("commit", p) =>
                call[p].pc \in Pool!Finished \/ (call[p].pc = "committing" /\ call'[p].pc # "committing")
           /\ Pool!Head1 = Pool!Task("check", p) => call[p].pc \in Pool!Finished \union {"checking"}
  PROVE  Queue'
<1>1. /\ Len(serial) \in Nat \ {0} /\ DOMAIN serial = 1..Len(serial) /\ serial[1] = Pool!Head1
      /\ DOMAIN serial' = 1..(Len(serial) - 1) /\ \A i \in DOMAIN serial' : serial'[i] = serial[i + 1]
      /\ serial' \in Seq(Tasks)
  BY Ends DEF Typing, TasksOK
<1>2. \A i \in DOMAIN serial : serial[i] \in Tasks
  BY <1>1, ElementOfSeq DEF Typing, TasksOK
<1>3. \A i \in DOMAIN serial' : i + 1 \in DOMAIN serial /\ i + 1 # 1
  BY <1>1
<1>4. ASSUME NEW p \in Openers, call'[p].pc = "committing"
      PROVE  \E i \in DOMAIN serial' : serial'[i] = Pool!Task("commit", p)
  <2>1. PICK i \in DOMAIN serial : serial[i] = Pool!Task("commit", p)
    BY <1>4 DEF Queue, NoneCommits
  <2>2. i # 1
    BY <1>1, <1>4, <2>1 DEF Pool!Finished
  <2> QED
    <3>1. i - 1 \in DOMAIN serial' /\ (i - 1) + 1 = i
      BY <1>1, <2>2
    <3> QED
      BY <1>1, <2>1, <3>1
<1>5. ASSUME NEW i \in DOMAIN serial'
      PROVE  /\ serial'[i].kind = "commit" => call'[serial'[i].who].pc \in Pool!Finished \union {"committing"}
             /\ serial'[i].kind = "check" => call'[serial'[i].who].pc \in Pool!Finished \union {"checking"}
  BY <1>1, <1>2, <1>3 DEF Tasks, Pool!Task, Queue, Waits, Pool!Finished
<1>6. ASSUME NEW i \in DOMAIN serial', NEW j \in DOMAIN serial', serial'[i] = serial'[j],
             serial'[i].kind \in {"load", "commit", "check"}
      PROVE  i = j
  BY <1>1, <1>3, <1>6 DEF Queue
<1> QED
  BY <1>4, <1>5, <1>6 DEF Queue

LEMMA QueueStep == PoolInv /\ [Pool!Next]_(Pool!vars) => Queue'
<1> SUFFICES ASSUME PoolInv, [Pool!Next]_(Pool!vars) PROVE Queue'
  OBVIOUS
<1> USE PlacesTyped DEF PoolInv
<1>t. /\ \A o \in Openers : \A k \in {"commit", "check", "write", "retire"} : Pool!Task(k, o) \in Tasks
      /\ \A g \in Pool!Generations : Pool!Task("load", g) \in Tasks
      /\ Pool!Task("append", Pool!None) \in Tasks
  BY TasksTyped DEF Typing
<1>a. (\A p \in Openers : Same(p)) => \A p \in Openers : Waits(p) /\ NoneCommits(p)
  BY DEF Same, Waits, NoneCommits, Pool!Finished
<1>b. ASSUME NEW o \in Openers, NEW place \in {"start", "failed", "answered"}, Left(o, place),
             place = "start" => call[o].pc \notin {"committing", "checking"},
             call[o].pc \notin Pool!Finished
      PROVE  \A p \in Openers : Waits(p) /\ NoneCommits(p)
  BY <1>b DEF Left, Same, Waits, NoneCommits, Pool!Finished
<1>c. ASSUME NEW o \in Openers, NEW place \in {"queued", "retirement"}, Went(o, place),
             call[o].pc \in {"start", "recheck"}
      PROVE  \A p \in Openers : Waits(p) /\ NoneCommits(p)
  BY <1>c DEF Went, Same, Waits, NoneCommits, Pool!Finished
<1>d. UNCHANGED call => \A p \in Openers : Waits(p) /\ NoneCommits(p)
  BY DEF Waits, NoneCommits
<1>e. ASSUME serial # <<>>, serial' = Tail(serial), Pool!Head1.kind \notin {"commit", "check"},
             \A p \in Openers : Waits(p) /\ NoneCommits(p)
      PROVE  Queue'
  BY <1>e, QueueEnded DEF Pool!Task, Waits
<1>f. ASSUME NEW task \in Tasks, Pool!Enqueued(task), task.kind \notin {"load", "commit", "check"},
             \A p \in Openers : Waits(p) /\ NoneCommits(p)
      PROVE  Queue'
  BY <1>f, QueueJoined
<1>h. ASSUME Pool!Runs("commit") \/ Pool!Runs("check")
      PROVE  /\ serial # <<>> /\ Pool!Head1.who \in Openers /\ Pool!Head1 = Pool!Task(Pool!Head1.kind, Pool!Head1.who)
             /\ Pool!Runs("commit") => Pool!Head1.kind = "commit" /\ call[Pool!Head1.who].pc = "committing"
             /\ Pool!Runs("check") => Pool!Head1.kind = "check" /\ call[Pool!Head1.who].pc = "checking"
  BY <1>h, Waited, TaskTyped DEF Pool!Runs, Typing, TasksOK, Tasks, Pool!Task
<1>1. ASSUME NEW o \in Openers, Pool!AwaitRetirement(o) PROVE Queue'
  BY <1>1, <1>c, Going, QueueKept DEF Pool!AwaitRetirement, Pool!Goes, Pool!tasks
<1>2. ASSUME NEW o \in Openers, Pool!MeetLive(o) PROVE Queue'
  BY <1>2, <1>b, Leaving, QueueKept DEF Pool!MeetLive, Pool!tasks, Pool!Finished
<1>3. ASSUME NEW o \in Openers, Pool!Join(o) PROVE Queue'
  BY <1>3, Joining, <1>t, QueueJoined, QueueKept DEF Waits, NoneCommits, Pool!Finished,
     Pool!NewEntry, Pool!Task
<1>4. ASSUME NEW o \in Openers, Pool!Reserve(o) PROVE Queue'
  <2>1. CASE UNCHANGED serial /\ (call' = Pool!Leaves(o, "start") \/ call' = Pool!Goes(o, "queued"))
    BY <1>4, <2>1, <1>b, <1>c, Leaving, Going, QueueKept DEF Pool!Reserve, Pool!Finished
  <2>2. CASE Pool!Enqueued(Pool!Task("commit", o)) /\ call' = Pool!Goes(o, "committing")
    <3>1. Went(o, "committing") /\ call[o].pc = "recheck"
      BY <1>4, <2>2, Going DEF Pool!Reserve
    <3>2. \A i \in DOMAIN serial : serial[i] # Pool!Task("commit", o)
      BY <3>1 DEF Queue, Pool!Finished, Pool!Task
    <3>3. \A p \in Openers : Waits(p) /\ (NoneCommits(p) \/ Pool!Task("commit", o) = Pool!Task("commit", p))
      BY <3>1 DEF Went, Same, Waits, NoneCommits, Pool!Finished
    <3>4. /\ Pool!Task("commit", o).kind = "commit" /\ Pool!Task("commit", o).who = o
          /\ call'[o].pc = "committing"
      BY <3>1 DEF Pool!Task, Went
    <3> QED
      BY <2>2, <3>2, <3>3, <3>4, <1>t, QueueJoined
  <2> QED
    BY <1>4, <2>1, <2>2 DEF Pool!Reserve
<1>5. ASSUME NEW o \in Openers, Pool!Check(o) PROVE Queue'
  <2>1. CASE UNCHANGED serial /\ call' = Pool!Leaves(o, "answered")
    BY <1>5, <2>1, <1>b, Leaving, QueueKept DEF Pool!Check, Pool!Finished
  <2>2. CASE Pool!Enqueued(Pool!Task("check", o)) /\ call' = Pool!Goes(o, "checking")
    <3>1. Went(o, "checking") /\ call[o].pc = "recheck"
      BY <1>5, <2>2, Going DEF Pool!Check
    <3>2. \A i \in DOMAIN serial : serial[i] # Pool!Task("check", o)
      BY <3>1 DEF Queue, Pool!Finished, Pool!Task
    <3>3. \A p \in Openers : Waits(p) /\ NoneCommits(p)
      BY <3>1 DEF Went, Same, Waits, NoneCommits, Pool!Finished
    <3>4. /\ Pool!Task("check", o).kind = "check" /\ Pool!Task("check", o).who = o
          /\ call'[o].pc = "checking"
      BY <3>1 DEF Pool!Task, Went
    <3> QED
      BY <2>2, <3>2, <3>3, <3>4, <1>t, QueueJoined
  <2> QED
    BY <1>5, <2>1, <2>2 DEF Pool!Check
<1>6. ASSUME NEW o \in Openers, Pool!Abort(o) PROVE Queue'
  BY <1>6, <1>b, Leaving, QueueKept DEF Pool!Abort, Pool!tasks, Pool!Finished
<1>7. ASSUME NEW o \in Openers, NEW reusable \in BOOLEAN, Pool!Release(o, reusable) PROVE Queue'
  BY <1>7, <1>b, Leaving, QueueKept DEF Pool!Release, Pool!tasks, Pool!Finished
<1>8. ASSUME NEW o \in Openers, NEW grown \in BOOLEAN, Pool!Publish(o, grown) PROVE Queue'
  BY <1>8, <1>b, Leaving, <1>f, <1>t, QueueKept DEF Pool!Publish, Pool!Finished, Pool!Task
<1>9. ASSUME Pool!LoadEnds \/ Pool!LoadFails PROVE Queue'
  BY <1>9, <1>e, Loading, LoadFailing
  DEF Pool!LoadEnds, Pool!LoadFails, Pool!TaskEnds, Pool!Runs, Waits, NoneCommits, Pool!Finished
<1>10. ASSUME Pool!CommitRestarts \/ (\E fails \in BOOLEAN : Pool!CommitRefused(fails)) PROVE Queue'
  <2>1. PICK place \in {"start", "failed"} : Left(Pool!Head1.who, place)
    BY <1>10, <1>h, Leaving DEF Pool!CommitRestarts, Pool!CommitRefused
  <2> QED
    BY <1>10, <2>1, <1>h, QueueEnded
    DEF Pool!CommitRestarts, Pool!CommitRefused, Pool!TaskEnds, Left, Same, Waits,
       NoneCommits, Pool!Finished, Pool!Task
<1>11. ASSUME NEW aborted \in BOOLEAN, Pool!CommitEnds(aborted) PROVE Queue'
  BY <1>11, <1>h, Leaving, Going, QueueEnded DEF Pool!CommitEnds, Pool!TaskEnds, Left, Went,
     Same, Waits, NoneCommits, Pool!Finished, Pool!Task
<1>12. ASSUME Pool!CheckEnds PROVE Queue'
  BY <1>12, <1>h, Leaving, QueueEnded DEF Pool!CheckEnds, Pool!TaskEnds, Left, Same, Waits,
     NoneCommits, Pool!Finished, Pool!Task
<1>13. ASSUME NEW opens \in BOOLEAN, Pool!AppendEnds(opens) \/ Pool!WriteEnds(opens) PROVE Queue'
  BY <1>13, <1>a, <1>e, Waking
  DEF Pool!AppendEnds, Pool!WriteEnds, Pool!Stores, Pool!TaskEnds, Pool!Runs
<1>14. ASSUME Pool!AppendFails \/ Pool!WriteFails PROVE Queue'
  BY <1>14, <1>d, <1>e DEF Pool!AppendFails, Pool!WriteFails, Pool!TaskEnds, Pool!Runs
<1>15. ASSUME Pool!Begin PROVE Queue'
  BY <1>15, <1>d, QueueKept, QueueEnded DEF Pool!Begin, Pool!Task, Waits
<1>16. ASSUME Pool!RetireFlushed PROVE Queue'
  BY <1>16, Retiring, <1>f, <1>t, QueueKept DEF Waits, NoneCommits, Pool!Finished,
     Pool!RetireFlushed, Pool!Task, Typing, StateOK
<1>17. ASSUME Pool!RetireEnds PROVE Queue'
  BY <1>17, Retiring, <1>e DEF Waits, NoneCommits, Pool!Finished, Pool!RetireEnds,
     Pool!TaskEnds, Pool!Runs
<1>18. ASSUME Pool!PublicAppend \/ Pool!DisposeSession \/ (\E window \in BOOLEAN : Pool!LiveEvent(window))
       PROVE  Queue'
  BY <1>18, <1>d, <1>f, <1>t, QueueKept
     DEF Pool!PublicAppend, Pool!DisposeSession, Pool!LiveEvent, Pool!Task, Typing, StateOK
<1>19. ASSUME Pool!Adopt \/ Pool!ForeignWrite \/ Pool!Evict \/ UNCHANGED Pool!vars PROVE Queue'
  BY <1>19, <1>d, QueueKept DEF Pool!Adopt, Pool!ForeignWrite, Pool!Evict, Pool!vars, Pool!tasks
<1> QED
  BY <1>1, <1>2, <1>3, <1>4, <1>5, <1>6, <1>7, <1>8, <1>9, <1>10, <1>11, <1>12, <1>13, <1>14,
     <1>15, <1>16, <1>17, <1>18, <1>19, Steps

--------------------------------------------------------------------------------
(* The entry is gone, or as far as its read as it was. *)
Moved ==
  \/ prepared'.gen = 0 /\ prepared'.phase = "none"
  \/ prepared'.gen = prepared.gen /\ (prepared'.phase = "loading" <=> prepared.phase = "loading")

LEMMA LoadsTyped ==
  ASSUME Typing
  PROVE  /\ \A i \in DOMAIN serial : serial[i] # Pool!Task("load", 0)
         /\ \A i \in DOMAIN serial : serial[i].kind = "commit" => serial[i].who \in Openers
         /\ 0 \notin Pool!Generations
<1>1. 0 \notin Pool!Generations
  BY DEF Pool!Generations
<1>2. \A i \in DOMAIN serial : serial[i] \in Tasks
  BY ElementOfSeq, LenProperties DEF Typing, TasksOK
<1> QED
  BY <1>1, <1>2 DEF Tasks, Pool!Task

LEMMA LoadsKept ==
  ASSUME Typing, Loads, UNCHANGED serial, Moved, \A p \in Openers : NoneCommits(p)
  PROVE  Loads'
BY LoadsTyped DEF Loads, Moved, NoneCommits

LEMMA LoadsJoined ==
  ASSUME Typing, Loads, NEW task \in Tasks, Pool!Enqueued(task), Moved, task.kind # "load",
         \A p \in Openers : NoneCommits(p) \/ prepared'.phase # "loading",
         task.kind = "commit" => prepared'.phase # "loading"
  PROVE  Loads'
<1>1. /\ Len(serial) \in Nat /\ DOMAIN serial = 1..Len(serial) /\ DOMAIN serial' = 1..(Len(serial) + 1)
      /\ \A i \in DOMAIN serial : serial'[i] = serial[i]
      /\ serial'[Len(serial) + 1] = task
  BY Joins DEF Typing, TasksOK
<1>2. \A i \in DOMAIN serial' : i \in DOMAIN serial \/ i = Len(serial) + 1
  BY <1>1
<1>3. ASSUME prepared'.phase = "loading"
      PROVE  \E i \in DOMAIN serial' : serial'[i] = Pool!Task("load", prepared'.gen)
  BY <1>1, <1>3 DEF Loads, Moved
<1>4. ASSUME NEW i \in DOMAIN serial', serial'[i] = Pool!Task("load", prepared'.gen)
      PROVE  /\ i \in DOMAIN serial /\ serial[i] = Pool!Task("load", prepared'.gen)
             /\ prepared'.gen = prepared.gen /\ prepared'.phase = "loading"
  BY <1>1, <1>2, <1>4, LoadsTyped DEF Loads, Moved, Pool!Task
<1>5. ASSUME NEW i \in DOMAIN serial', serial'[i] = Pool!Task("load", prepared'.gen),
             NEW j \in DOMAIN serial', serial'[j].kind = "commit", call'[serial'[j].who].pc = "committing"
      PROVE  j < i
  BY <1>1, <1>2, <1>4, <1>5, LoadsTyped DEF NoneCommits, Loads
<1> QED
  BY <1>3, <1>4, <1>5 DEF Loads

LEMMA LoadsEnded ==
  ASSUME Typing, Queue, Loads, serial # <<>>, serial' = Tail(serial), \A p \in Openers : NoneCommits(p),
         \/ Moved /\ (prepared'.phase = "loading" => Pool!Head1 # Pool!Task("load", prepared.gen))
         \/ prepared'.gen = prepared.gen /\ prepared'.phase # "loading" /\ Pool!Head1 = Pool!Task("load", prepared.gen)
  PROVE  Loads'
<1>1. /\ Len(serial) \in Nat \ {0} /\ DOMAIN serial = 1..Len(serial) /\ serial[1] = Pool!Head1
      /\ DOMAIN serial' = 1..(Len(serial) - 1) /\ \A i \in DOMAIN serial' : serial'[i] = serial[i + 1]
  BY Ends DEF Typing, TasksOK
<1>2. \A i \in DOMAIN serial' : i + 1 \in DOMAIN serial /\ i + 1 # 1
  BY <1>1
<1>3. ASSUME prepared'.phase = "loading"
      PROVE  \E i \in DOMAIN serial' : serial'[i] = Pool!Task("load", prepared'.gen)
  <2>1. PICK i \in DOMAIN serial : serial[i] = Pool!Task("load", prepared'.gen)
    BY <1>3 DEF Loads, Moved
  <2>2. i # 1
    BY <1>1, <1>3, <2>1 DEF Moved
  <2>3. i - 1 \in DOMAIN serial' /\ (i - 1) + 1 = i
    BY <1>1, <2>2
  <2> QED
    BY <1>1, <2>1, <2>3
<1>4. ASSUME NEW i \in DOMAIN serial', serial'[i] = Pool!Task("load", prepared'.gen)
      PROVE  /\ prepared'.gen = prepared.gen /\ prepared'.phase = "loading"
             /\ \A j \in DOMAIN serial' :
                  serial'[j].kind = "commit" /\ call'[serial'[j].who].pc = "committing" => j < i
  BY <1>1, <1>2, <1>4, LoadsTyped DEF Moved, Queue, Pool!Task, Loads, NoneCommits
<1> QED
  BY <1>3, <1>4 DEF Loads

LEMMA LoadsStep == PoolInv /\ [Pool!Next]_(Pool!vars) => Loads'
<1> SUFFICES ASSUME PoolInv, [Pool!Next]_(Pool!vars) PROVE Loads'
  OBVIOUS
<1> USE PlacesTyped DEF PoolInv
<1>t. /\ \A o \in Openers : \A k \in {"commit", "check", "write", "retire"} : Pool!Task(k, o) \in Tasks
      /\ Pool!Task("append", Pool!None) \in Tasks
  BY TasksTyped DEF Typing
<1>a. (\A p \in Openers : Same(p)) => \A p \in Openers : NoneCommits(p)
  BY DEF Same, NoneCommits
<1>b. ASSUME NEW o \in Openers, NEW place \in Places \ {"committing"}, Left(o, place) \/ Went(o, place)
      PROVE  \A p \in Openers : NoneCommits(p)
  BY <1>b DEF Left, Went, Same, NoneCommits
<1>c. UNCHANGED prepared \/ (\E g : Pool!Remove(g)) => Moved
  BY DEF Moved, Pool!Remove, Pool!NoEntry, Pool!Entry
<1>d. UNCHANGED call => \A p \in Openers : NoneCommits(p)
  BY DEF NoneCommits
<1>e. ASSUME serial # <<>>, serial' = Tail(serial), Pool!Head1.kind # "load" \/ prepared'.phase # "loading", Moved,
             \A p \in Openers : NoneCommits(p)
      PROVE  Loads'
  BY <1>e, LoadsEnded DEF Pool!Task
<1>f. ASSUME NEW task \in Tasks, Pool!Enqueued(task), task.kind \notin {"load", "commit"}, Moved,
             \A p \in Openers : NoneCommits(p)
      PROVE  Loads'
  BY <1>f, LoadsJoined
<1>1. ASSUME NEW o \in Openers, Pool!AwaitRetirement(o) PROVE Loads'
  BY <1>1, <1>b, <1>c, Going, LoadsKept DEF Pool!AwaitRetirement, Pool!Goes, Pool!tasks
<1>2. ASSUME NEW o \in Openers, Pool!MeetLive(o) PROVE Loads'
  BY <1>2, <1>b, <1>c, Leaving, LoadsKept DEF Pool!MeetLive, Pool!tasks
<1>3. ASSUME NEW o \in Openers, Pool!Join(o) PROVE Loads'
  BY <1>3, Joining, Joins, TasksTyped, <1>c, LoadsKept DEF NoneCommits, Pool!NewEntry, Typing,
     TasksOK, Pool!Task, Loads
<1>4. ASSUME NEW o \in Openers, Pool!Reserve(o) PROVE Loads'
  <2>1. CASE UNCHANGED <<prepared, serial>> /\ (call' = Pool!Leaves(o, "start") \/ call' = Pool!Goes(o, "queued"))
    BY <2>1, <1>b, <1>c, Leaving, Going, LoadsKept
  <2>2. CASE /\ Pool!Enqueued(Pool!Task("commit", o)) /\ Pool!CanReserve
             /\ prepared' = [prepared EXCEPT !.phase = "committing"]
    BY <2>2, <1>t, LoadsJoined DEF Moved, Pool!CanReserve, Typing, EntryOK, Pool!Task
  <2> QED
    BY <1>4, <2>1, <2>2 DEF Pool!Reserve
<1>5. ASSUME NEW o \in Openers, Pool!Check(o) PROVE Loads'
  <2>1. \A p \in Openers : NoneCommits(p)
    BY <1>5, <1>b, Leaving, Going DEF Pool!Check
  <2> QED
    BY <1>5, <2>1, <1>c, <1>f, <1>t, LoadsKept DEF Pool!Check, Pool!Task
<1>6. ASSUME NEW o \in Openers, Pool!Abort(o) PROVE Loads'
  BY <1>6, <1>b, <1>c, Leaving, LoadsKept DEF Pool!Abort, Pool!tasks
<1>7. ASSUME NEW o \in Openers, NEW reusable \in BOOLEAN, Pool!Release(o, reusable) PROVE Loads'
  BY <1>7, <1>b, Leaving, LoadsKept DEF Pool!Release, Claims, Moved, Pool!Remove,
     Pool!MakeReady, Pool!NoEntry, Pool!Entry, Pool!tasks
<1>8. ASSUME NEW o \in Openers, NEW grown \in BOOLEAN, Pool!Publish(o, grown) PROVE Loads'
  BY <1>8, <1>b, Leaving, <1>f, <1>t, LoadsKept DEF Pool!Publish, Moved, Pool!NoEntry,
     Pool!Entry, Pool!Task
<1>9. ASSUME Pool!LoadEnds PROVE Loads'
  <2>1. \A p \in Openers : NoneCommits(p)
    BY <1>9, Loading DEF NoneCommits
  <2>2. serial # <<>> /\ serial' = Tail(serial) /\ Pool!Head1 = Pool!Task("load", Pool!Head1.who) /\ Pool!Runs("load")
    BY <1>9, TaskTyped
    DEF Pool!LoadEnds, Pool!TaskEnds, Pool!Runs, Typing, TasksOK, Tasks, Pool!Task
  <2>3. CASE prepared.gen = Pool!Head1.who
    BY <1>9, <2>1, <2>2, <2>3, LoadsEnded DEF Pool!LoadEnds, Pool!MakeReady, Pool!Entry
  <2>4. CASE prepared.gen # Pool!Head1.who
    BY <1>9, <2>1, <2>2, <2>4, <1>c, LoadsEnded DEF Pool!LoadEnds, Pool!MakeReady, Pool!Task
  <2> QED
    BY <2>3, <2>4
<1>10. ASSUME Pool!LoadFails PROVE Loads'
  <2>1. \A p \in Openers : NoneCommits(p)
    BY <1>10, LoadFailing DEF NoneCommits
  <2>2. serial # <<>> /\ serial' = Tail(serial) /\ Pool!Head1 = Pool!Task("load", Pool!Head1.who)
    BY <1>10, TaskTyped
    DEF Pool!LoadFails, Pool!TaskEnds, Pool!Runs, Typing, TasksOK, Tasks, Pool!Task
  <2>3. Moved /\ (prepared'.phase = "loading" => Pool!Head1 # Pool!Task("load", prepared.gen))
    BY <1>10, <1>c DEF Pool!LoadFails, Pool!Remove, Pool!NoEntry, Pool!Entry, Pool!Task
  <2> QED
    BY <2>1, <2>2, <2>3, LoadsEnded
<1>11. ASSUME Pool!CommitRestarts \/ (\E fails \in BOOLEAN : Pool!CommitRefused(fails)) PROVE Loads'
  BY <1>11, <1>b, Waited, Leaving, <1>c, <1>e DEF Pool!CommitRestarts, Pool!CommitRefused,
     Pool!TaskEnds, Pool!Runs
<1>12. ASSUME NEW aborted \in BOOLEAN, Pool!CommitEnds(aborted) PROVE Loads'
  BY <1>12, <1>b, Waited, Leaving, Going, <1>c, <1>e DEF Pool!CommitEnds, Moved, Pool!MakeReady,
     Pool!Entry, Claims, Pool!TaskEnds, Pool!Runs
<1>13. ASSUME Pool!CheckEnds PROVE Loads'
  BY <1>13, <1>b, Waited, Leaving, <1>c, <1>e DEF Pool!CheckEnds, Pool!TaskEnds, Pool!Runs
<1>14. ASSUME NEW opens \in BOOLEAN, Pool!AppendEnds(opens) \/ Pool!WriteEnds(opens) PROVE Loads'
  BY <1>14, <1>a, <1>e, Waking DEF Pool!AppendEnds, Pool!WriteEnds, Pool!Stores, Moved,
     Pool!NoEntry, Pool!Entry, Pool!TaskEnds, Pool!Runs
<1>15. ASSUME Pool!AppendFails \/ Pool!WriteFails PROVE Loads'
  BY <1>15, <1>c, <1>d, <1>e DEF Pool!AppendFails, Pool!WriteFails, Pool!TaskEnds, Pool!Runs
<1>16. ASSUME Pool!Begin PROVE Loads'
  BY <1>16, <1>c, <1>d, LoadsKept, <1>e DEF Pool!Begin
<1>17. ASSUME Pool!RetireFlushed PROVE Loads'
  BY <1>17, Retiring, <1>c, <1>f, <1>t, LoadsKept DEF NoneCommits, Pool!RetireFlushed,
     Pool!Task, Typing, StateOK
<1>18. ASSUME Pool!RetireEnds PROVE Loads'
  BY <1>18, Retiring, <1>c, <1>e DEF NoneCommits, Pool!RetireEnds, Pool!TaskEnds, Pool!Runs
<1>19. ASSUME Pool!PublicAppend \/ Pool!DisposeSession \/ (\E window \in BOOLEAN : Pool!LiveEvent(window))
       PROVE  Loads'
  BY <1>19, <1>c, <1>d, <1>f, <1>t, LoadsKept
     DEF Pool!PublicAppend, Pool!DisposeSession, Pool!LiveEvent, Pool!Task, Typing, StateOK
<1>20. ASSUME Pool!Adopt \/ Pool!Evict PROVE Loads'
  BY <1>20, <1>c, <1>d, LoadsKept DEF Pool!Adopt, Pool!Evict, Moved, Pool!NoEntry, Pool!Entry,
     Pool!tasks
<1>21. ASSUME Pool!ForeignWrite \/ UNCHANGED Pool!vars PROVE Loads'
  BY <1>21, <1>c, <1>d, LoadsKept DEF Pool!ForeignWrite, Pool!vars, Pool!tasks
<1> QED
  BY <1>1, <1>2, <1>3, <1>4, <1>5, <1>6, <1>7, <1>8, <1>9, <1>10, <1>11, <1>12, <1>13, <1>14,
     <1>15, <1>16, <1>17, <1>18, <1>19, <1>20, <1>21, Steps

--------------------------------------------------------------------------------
LEMMA BegunKept ==
  ASSUME Typing, Queue, Begun, running' => running,
         UNCHANGED serial \/ \E task \in Tasks : Pool!Enqueued(task),
         \A p \in Openers : call[p].pc \in {"committing", "checking"} /\ call'[p].pc \in Pool!Finished =>
           ~(running /\ Pool!Head1.who = p),
         prepared'.phase = "reserved" => prepared.phase = "reserved"
  PROVE  Begun'
<1> SUFFICES ASSUME running' PROVE Begun!2'
  BY DEF Begun
<1>1. serial # <<>> /\ Pool!Head1' = Pool!Head1
  BY Joins DEF Typing, TasksOK, Pool!Head1
<1>2. Pool!Head1.kind \in {"commit", "check"} => Pool!Head1.who \in Openers /\ serial[1] = Pool!Head1 /\ 1 \in DOMAIN serial
  BY <1>1, TaskTyped DEF Typing, TasksOK
<1>3. Pool!Head1.kind \in {"commit", "check"} => call[Pool!Head1.who].pc \in {"committing", "checking"}
  BY <1>1, <1>2 DEF Queue, Begun
<1> QED
  BY <1>1, <1>2, <1>3 DEF Begun

LEMMA BegunStep == PoolInv /\ [Pool!Next]_(Pool!vars) => Begun'
<1> SUFFICES ASSUME PoolInv, [Pool!Next]_(Pool!vars) PROVE Begun'
  OBVIOUS
<1> USE PlacesTyped DEF PoolInv
<1>t. /\ \A o \in Openers : \A k \in {"commit", "check", "write", "retire"} : Pool!Task(k, o) \in Tasks
      /\ \A g \in Pool!Generations : Pool!Task("load", g) \in Tasks
      /\ Pool!Task("append", Pool!None) \in Tasks
  BY TasksTyped DEF Typing
<1>a. ~running' => Begun'
  BY DEF Begun
<1>b. ASSUME NEW o \in Openers, NEW place \in Places, Left(o, place) \/ Went(o, place),
             call[o].pc \notin {"committing", "checking"}
      PROVE  \A p \in Openers : call[p].pc \in {"committing", "checking"} => call'[p].pc \notin Pool!Finished
  BY <1>b DEF Left, Went, Same, Pool!Finished
<1>1. ASSUME NEW o \in Openers, Pool!AwaitRetirement(o) \/ Pool!MeetLive(o) PROVE Begun'
  BY <1>1, <1>b, Going, Leaving, BegunKept
  DEF Pool!AwaitRetirement, Pool!MeetLive, Pool!Goes, Pool!tasks
<1>2. ASSUME NEW o \in Openers, Pool!Join(o) PROVE Begun'
  BY <1>2, Joining, <1>t, BegunKept DEF Pool!Finished, Pool!Join, Pool!NewEntry
<1>3. ASSUME NEW o \in Openers, Pool!Reserve(o) PROVE Begun'
  BY <1>3, <1>b, Going, Leaving, <1>t, BegunKept DEF Pool!Reserve, Typing, EntryOK
<1>4. ASSUME NEW o \in Openers, Pool!Check(o) PROVE Begun'
  BY <1>4, <1>b, Going, Leaving, <1>t, BegunKept DEF Pool!Check
<1>5. ASSUME NEW o \in Openers, Pool!Abort(o) PROVE Begun'
  BY <1>5, Leaving, BegunKept DEF Pool!Abort, Left, Same, Pool!Finished, Pool!Remove,
     Pool!NoEntry, Pool!Entry, Pool!tasks
<1>6. ASSUME NEW o \in Openers, NEW reusable \in BOOLEAN, Pool!Release(o, reusable) PROVE Begun'
  BY <1>6, <1>b, Leaving, BegunKept DEF Pool!Release, Pool!Remove, Pool!MakeReady, Pool!NoEntry,
     Pool!Entry, Pool!tasks
<1>7. ASSUME NEW o \in Openers, NEW grown \in BOOLEAN, Pool!Publish(o, grown) PROVE Begun'
  BY <1>7, <1>b, Leaving, <1>t, BegunKept DEF Pool!Publish, Pool!NoEntry, Pool!Entry
<1>8. ASSUME \/ Pool!LoadEnds \/ Pool!LoadFails \/ Pool!CommitRestarts \/ Pool!CheckEnds \/ Pool!AppendFails \/ Pool!WriteFails \/ Pool!RetireEnds
             \/ (\E fails \in BOOLEAN : Pool!CommitRefused(fails)) \/ (\E aborted \in BOOLEAN : Pool!CommitEnds(aborted))
             \/ (\E opens \in BOOLEAN : Pool!AppendEnds(opens) \/ Pool!WriteEnds(opens))
      PROVE  Begun'
  BY <1>8, <1>a
  DEF Pool!LoadEnds, Pool!LoadFails, Pool!CommitRestarts, Pool!CheckEnds, Pool!AppendFails,
       Pool!WriteFails, Pool!RetireEnds,
                    Pool!CommitRefused, Pool!CommitEnds, Pool!AppendEnds, Pool!WriteEnds,
                         Pool!TaskEnds
<1>9. ASSUME Pool!Begin PROVE Begun'
  BY <1>9, <1>a DEF Pool!Begin, Begun, Pool!Writable, Pool!Head1
<1>10. ASSUME Pool!RetireFlushed PROVE Begun'
  BY <1>10, Retiring, <1>t, BegunKept DEF Pool!Finished, Pool!RetireFlushed, Typing, StateOK
<1>11. ASSUME \/ Pool!PublicAppend \/ Pool!DisposeSession \/ (\E window \in BOOLEAN : Pool!LiveEvent(window))
              \/ Pool!Adopt \/ Pool!ForeignWrite \/ Pool!Evict \/ UNCHANGED Pool!vars
       PROVE  Begun'
  <2>1. UNCHANGED <<running, call>> /\ (prepared'.phase = "reserved" => prepared.phase = "reserved")
    BY <1>11
    DEF Pool!PublicAppend, Pool!DisposeSession, Pool!LiveEvent, Pool!Adopt, Pool!ForeignWrite,
         Pool!Evict, Pool!vars, Pool!tasks,
                 Pool!NoEntry, Pool!Entry
  <2>2. UNCHANGED serial \/ \E task \in Tasks : Pool!Enqueued(task)
    BY <1>11, <1>t
    DEF Pool!PublicAppend, Pool!DisposeSession, Pool!LiveEvent, Pool!Adopt, Pool!ForeignWrite,
         Pool!Evict, Pool!vars, Pool!tasks,
                       Typing, StateOK
  <2> QED
    BY <2>1, <2>2, BegunKept DEF Pool!Finished
<1> QED
  BY <1>1, <1>2, <1>3, <1>4, <1>5, <1>6, <1>7, <1>8, <1>9, <1>10, <1>11, Steps

--------------------------------------------------------------------------------
LEMMA OwnershipStep == Pool!PreparationsBounds /\ PoolInv /\ [Pool!Next]_(Pool!vars) => Ownership'
<1> SUFFICES ASSUME Pool!None \notin Openers, PoolInv, [Pool!Next]_(Pool!vars) PROVE Ownership'
  BY DEF Pool!PreparationsBounds
<1> USE DEF PoolInv, Pool!session
<1>a. UNCHANGED <<state, live, retiring, tail>> => Ownership'
  BY DEF Ownership
<1>1. ASSUME NEW o \in Openers, NEW grown \in BOOLEAN, Pool!Publish(o, grown) PROVE Ownership'
  BY <1>1 DEF Pool!Publish, Ownership, Held, Typing, StateOK
<1>2. ASSUME NEW aborted \in BOOLEAN, Pool!CommitEnds(aborted) PROVE Ownership'
  BY <1>2 DEF Pool!CommitEnds, Pool!Unowned, Ownership
<1>3. ASSUME Pool!Adopt PROVE Ownership'
  BY <1>3, <1>a DEF Pool!Adopt, Ownership
<1>4. ASSUME NEW opens \in BOOLEAN, Pool!AppendEnds(opens) \/ Pool!WriteEnds(opens) PROVE Ownership'
  BY <1>4 DEF Pool!AppendEnds, Pool!WriteEnds, Pool!Stores, Typing, StateOK, Ownership
<1>5. ASSUME NEW window \in BOOLEAN, Pool!LiveEvent(window) PROVE Ownership'
  BY <1>5 DEF Pool!LiveEvent, Ownership
<1>6. ASSUME Pool!DisposeSession PROVE Ownership'
  BY <1>6 DEF Pool!DisposeSession, Ownership
<1>7. ASSUME Pool!RetireFlushed PROVE Ownership'
  BY <1>7 DEF Pool!RetireFlushed, Ownership
<1>8. ASSUME Pool!RetireEnds PROVE Ownership'
  BY <1>8, TaskTyped DEF Pool!RetireEnds, Pool!Runs, Retires, Typing, TasksOK, Pool!Forgotten,
     Pool!Untracked, Ownership
<1>9. ASSUME NEW o \in Openers,
             Pool!AwaitRetirement(o) \/ Pool!MeetLive(o) \/ Pool!Join(o) \/ Pool!Reserve(o) \/ Pool!Check(o) \/ Pool!Abort(o)
      PROVE  Ownership'
  BY <1>9, <1>a
  DEF Pool!AwaitRetirement, Pool!MeetLive, Pool!Join, Pool!Reserve, Pool!Check, Pool!Abort
<1>10. ASSUME \/ \E o \in Openers : \E reusable \in BOOLEAN : Pool!Release(o, reusable)
              \/ Pool!Begin \/ Pool!LoadEnds \/ Pool!LoadFails \/ Pool!CommitRestarts \/ Pool!CheckEnds \/ Pool!AppendFails \/ Pool!WriteFails
              \/ (\E fails \in BOOLEAN : Pool!CommitRefused(fails))
              \/ Pool!PublicAppend \/ Pool!ForeignWrite \/ Pool!Evict \/ UNCHANGED Pool!vars
       PROVE  Ownership'
  BY <1>10, <1>a
  DEF Pool!Release, Pool!Begin, Pool!LoadEnds, Pool!LoadFails, Pool!CommitRestarts,
       Pool!CheckEnds, Pool!AppendFails,
                     Pool!WriteFails, Pool!CommitRefused, Pool!PublicAppend, Pool!ForeignWrite,
                          Pool!Evict, Pool!vars
<1> QED
  BY <1>1, <1>2, <1>3, <1>4, <1>5, <1>6, <1>7, <1>8, <1>9, <1>10, Steps

--------------------------------------------------------------------------------
(* The tasks that release a retirement are those there were, but for the first. *)
LEMMA RetiresJoined ==
  ASSUME Typing, Retires, NEW task \in Tasks, Pool!Enqueued(task), task.kind # "retire",
         UNCHANGED retiring, tail' => tail \/ ~\E i \in DOMAIN serial : serial[i].kind = "retire"
  PROVE  Retires'
<1>1. /\ Len(serial) \in Nat /\ DOMAIN serial = 1..Len(serial) /\ DOMAIN serial' = 1..(Len(serial) + 1)
      /\ \A i \in DOMAIN serial : serial'[i] = serial[i]
      /\ serial'[Len(serial) + 1] = task
  BY Joins DEF Typing, TasksOK
<1>2. \A i \in DOMAIN serial' : serial'[i].kind = "retire" => i \in DOMAIN serial /\ serial[i].kind = "retire"
  BY <1>1
<1> QED
  BY <1>2 DEF Retires

LEMMA RetiresEnded ==
  ASSUME Typing, Retires, serial # <<>>, serial' = Tail(serial),
         Pool!Head1.kind = "retire" \/ (UNCHANGED retiring /\ (tail' => tail))
  PROVE  Retires'
<1>1. /\ Len(serial) \in Nat \ {0} /\ DOMAIN serial = 1..Len(serial) /\ DOMAIN serial' = 1..(Len(serial) - 1)
      /\ \A i \in DOMAIN serial' : serial'[i] = serial[i + 1]
      /\ serial[1] = Pool!Head1
  BY Ends DEF Typing, TasksOK
<1>2. \A i \in DOMAIN serial' : i + 1 \in DOMAIN serial /\ i + 1 # 1 /\ serial'[i] = serial[i + 1]
  BY <1>1
<1>3. CASE Pool!Head1.kind = "retire"
  BY <1>1, <1>2, <1>3 DEF Retires
<1>4. CASE UNCHANGED retiring /\ (tail' => tail)
  <2>1. ASSUME NEW i \in DOMAIN serial', serial'[i].kind = "retire"
        PROVE  /\ retiring' # Pool!None /\ ~tail'
               /\ \A j \in DOMAIN serial' : serial'[j].kind = "retire" => i = j
    BY <1>1, <1>2, <1>4, <2>1 DEF Retires
  <2> QED
    BY <2>1 DEF Retires
<1> QED
  BY <1>3, <1>4

LEMMA RetiresStep == Pool!PreparationsBounds /\ PoolInv /\ [Pool!Next]_(Pool!vars) => Retires'
<1> SUFFICES ASSUME Pool!None \notin Openers, PoolInv, [Pool!Next]_(Pool!vars) PROVE Retires'
  BY DEF Pool!PreparationsBounds
<1> USE DEF PoolInv, Pool!session, Pool!tasks
<1>t. /\ \A o \in Openers : \A k \in {"commit", "check", "write", "retire"} : Pool!Task(k, o) \in Tasks
      /\ \A g \in Pool!Generations : Pool!Task("load", g) \in Tasks
      /\ Pool!Task("append", Pool!None) \in Tasks
      /\ \A k, who : Pool!Task(k, who).kind = k
  BY TasksTyped DEF Typing, Pool!Task
<1>a. UNCHANGED <<serial, retiring, tail>> => Retires'
  BY DEF Retires
<1>b. (\A i \in DOMAIN serial : serial[i].kind # "retire") /\ UNCHANGED serial => Retires'
  BY DEF Retires
<1>c. retiring = Pool!None => \A i \in DOMAIN serial : serial[i].kind # "retire"
  BY DEF Retires
<1>1. ASSUME NEW o \in Openers, NEW grown \in BOOLEAN, Pool!Publish(o, grown) PROVE Retires'
  BY <1>1, <1>b, <1>c, <1>t, RetiresJoined DEF Pool!Publish, Ownership
<1>2. ASSUME NEW window \in BOOLEAN, Pool!LiveEvent(window) PROVE Retires'
  BY <1>2, <1>b, <1>c, <1>t, RetiresJoined DEF Pool!LiveEvent, Ownership, Typing, StateOK
<1>3. ASSUME Pool!DisposeSession PROVE Retires'
  BY <1>3, <1>b, <1>c, <1>t, Joins DEF Pool!DisposeSession, Ownership, Typing, TasksOK, StateOK,
     Retires
<1>4. ASSUME Pool!RetireFlushed PROVE Retires'
  BY <1>4, <1>b, <1>t, Joins DEF Pool!RetireFlushed, Typing, StateOK, TasksOK, Retires
<1>5. ASSUME Pool!RetireEnds PROVE Retires'
  BY <1>5, RetiresEnded DEF Pool!RetireEnds, Pool!TaskEnds, Pool!Runs
<1>6. ASSUME NEW opens \in BOOLEAN, Pool!AppendEnds(opens) \/ Pool!WriteEnds(opens) PROVE Retires'
  BY <1>6, RetiresEnded DEF Pool!AppendEnds, Pool!WriteEnds, Pool!TaskEnds, Pool!Runs
<1>7. ASSUME \/ Pool!LoadEnds \/ Pool!LoadFails \/ Pool!CommitRestarts \/ Pool!CheckEnds \/ Pool!AppendFails \/ Pool!WriteFails
             \/ (\E fails \in BOOLEAN : Pool!CommitRefused(fails)) \/ (\E aborted \in BOOLEAN : Pool!CommitEnds(aborted))
      PROVE  Retires'
  <2>1. serial # <<>> /\ serial' = Tail(serial) /\ UNCHANGED <<retiring, tail>>
    BY <1>7
    DEF Pool!LoadEnds, Pool!LoadFails, Pool!CommitRestarts, Pool!CheckEnds, Pool!AppendFails,
         Pool!WriteFails, Pool!CommitRefused,
                Pool!CommitEnds, Pool!TaskEnds, Pool!Runs
  <2> QED
    BY <2>1, RetiresEnded
<1>8. ASSUME Pool!Begin PROVE Retires'
  BY <1>8, <1>a, RetiresEnded DEF Pool!Begin
<1>9. ASSUME NEW o \in Openers, Pool!Join(o) PROVE Retires'
  BY <1>9, <1>a, <1>t, RetiresJoined DEF Pool!Join
<1>10. ASSUME NEW o \in Openers, Pool!Reserve(o) \/ Pool!Check(o) PROVE Retires'
  BY <1>10, <1>a, <1>t, RetiresJoined DEF Pool!Reserve, Pool!Check
<1>11. ASSUME Pool!PublicAppend PROVE Retires'
  BY <1>11, <1>t, RetiresJoined DEF Pool!PublicAppend
<1>12. ASSUME NEW o \in Openers, Pool!AwaitRetirement(o) \/ Pool!MeetLive(o) \/ Pool!Abort(o) PROVE Retires'
  BY <1>12, <1>a DEF Pool!AwaitRetirement, Pool!MeetLive, Pool!Abort
<1>13. ASSUME \/ \E o \in Openers : \E reusable \in BOOLEAN : Pool!Release(o, reusable)
              \/ Pool!Adopt \/ Pool!ForeignWrite \/ Pool!Evict \/ UNCHANGED Pool!vars
       PROVE  Retires'
  BY <1>13, <1>a DEF Pool!Release, Pool!Adopt, Pool!ForeignWrite, Pool!Evict, Pool!vars
<1> QED
  BY <1>1, <1>2, <1>3, <1>4, <1>5, <1>6, <1>7, <1>8, <1>9, <1>10, <1>11, <1>12, <1>13, Steps

--------------------------------------------------------------------------------
LEMMA HeldStep == Pool!PreparationsBounds /\ PoolInv /\ [Pool!Next]_(Pool!vars) => Held'
<1> SUFFICES ASSUME Pool!None \notin Openers, PoolInv, [Pool!Next]_(Pool!vars), Claims' PROVE Held'
  BY ClaimsStep DEF Pool!PreparationsBounds
<1> USE PlacesTyped DEF PoolInv, Pool!log, Pool!tasks
<1>a. ASSUME UNCHANGED <<prepared, state, stored, foreign>>,
             \A p \in Openers : call'[p].pc = "holding" => call[p].pc = "holding"
      PROVE  Held'
  BY <1>a DEF Held, Pool!OwnedCursorExact
<1>b. prepared'.phase # "reserved" /\ state'.owner = Pool!None => Held'
  BY DEF Claims, Held, Pool!OwnedCursorExact
<1>c. prepared'.phase # "reserved" /\ UNCHANGED <<state, stored, foreign>> => Held'
  BY DEF Claims, Held, Pool!OwnedCursorExact
<1>d. ASSUME NEW o \in Openers, NEW place \in Places \ {"holding"}, Left(o, place) \/ Went(o, place)
      PROVE  \A p \in Openers : call'[p].pc = "holding" => call[p].pc = "holding"
  BY <1>d DEF Left, Went, Same
<1>e. ASSUME NEW g, Pool!Remove(g) \/ \E src : Pool!MakeReady(g, src)
      PROVE  UNCHANGED prepared \/ prepared'.phase # "reserved"
  BY <1>e DEF Pool!Remove, Pool!MakeReady, Pool!NoEntry, Pool!Entry
<1>f. Pool!NoEntry.phase # "reserved"
  BY DEF Pool!NoEntry, Pool!Entry
<1>1. ASSUME NEW o \in Openers, Pool!AwaitRetirement(o) \/ Pool!MeetLive(o) PROVE Held'
  BY <1>1, <1>a, <1>d, Going, Leaving DEF Pool!AwaitRetirement, Pool!MeetLive, Pool!Goes
<1>2. ASSUME NEW o \in Openers, Pool!Join(o) PROVE Held'
  BY <1>2, Joining, <1>a, <1>c DEF Pool!Join
<1>3. ASSUME NEW o \in Openers, Pool!Reserve(o) PROVE Held'
  BY <1>3, <1>d, Going, Leaving, <1>a, <1>c DEF Pool!Reserve, Typing, EntryOK
<1>4. ASSUME NEW o \in Openers, Pool!Check(o) PROVE Held'
  BY <1>4, <1>a, <1>d, Going, Leaving DEF Pool!Check
<1>5. ASSUME NEW o \in Openers, Pool!Abort(o) PROVE Held'
  BY <1>5, <1>d, Leaving, <1>a, <1>c, <1>e DEF Pool!Abort
<1>6. ASSUME NEW o \in Openers, NEW reusable \in BOOLEAN, Pool!Release(o, reusable) PROVE Held'
  BY <1>6, <1>d, Leaving, <1>a, <1>c, <1>e DEF Pool!Release
<1>7. ASSUME NEW o \in Openers, NEW grown \in BOOLEAN, Pool!Publish(o, grown) PROVE Held'
  BY <1>7, <1>f DEF Pool!Publish, Typing, StateOK, Held, Pool!OwnedCursorExact, Claims
<1>8. ASSUME Pool!LoadEnds PROVE Held'
  BY <1>8, Loading, <1>a, <1>c, <1>e DEF Pool!LoadEnds
<1>9. ASSUME Pool!LoadFails PROVE Held'
  BY <1>9, LoadFailing, <1>a, <1>c, <1>e DEF Pool!LoadFails
<1>10. ASSUME Pool!CommitRestarts PROVE Held'
  BY <1>10, Waited, <1>b DEF Pool!CommitRestarts, Pool!Remove, Pool!NoEntry, Pool!Entry, Claims,
     Pool!Unowned
<1>11. ASSUME NEW fails \in BOOLEAN, Pool!CommitRefused(fails) PROVE Held'
  BY <1>11, <1>d, Waited, Leaving, <1>a, <1>c, <1>e DEF Pool!CommitRefused
<1>12. ASSUME NEW aborted \in BOOLEAN, Pool!CommitEnds(aborted) PROVE Held'
  <2> DEFINE o == Pool!Head1.who
  <2>1. /\ o \in Openers /\ call[o].pc = "committing" /\ call[o].src.read = stored
        /\ state' = [tracked |-> TRUE, cursor |-> stored, owner |-> Pool!None] /\ UNCHANGED stored
    BY <1>12, Waited DEF Pool!CommitEnds, Pool!StillCurrent
  <2>2. CASE prepared' = Pool!Entry(call[o].gen, "reserved", call[o].src)
    BY <2>1, <2>2 DEF Pool!Entry, Held, Pool!OwnedCursorExact
  <2>3. CASE prepared.gen # call[o].gen /\ UNCHANGED prepared
    BY <2>1, <2>3, <1>b DEF Claims
  <2>4. CASE Pool!Remove(call[o].gen) \/ Pool!MakeReady(call[o].gen, call[o].src)
    BY <2>1, <2>4, <1>b DEF Pool!Remove, Pool!MakeReady, Pool!NoEntry, Pool!Entry, Claims
  <2> QED
    BY <1>12, <2>2, <2>3, <2>4 DEF Pool!CommitEnds
<1>13. ASSUME Pool!CheckEnds PROVE Held'
  BY <1>13, <1>d, Waited, Leaving, <1>e, <1>a, <1>c DEF Pool!CheckEnds
<1>14. ASSUME Pool!Adopt PROVE Held'
  BY <1>14, <1>b, <1>f DEF Pool!Adopt, Pool!Runs, Pool!Immediate, Begun, Ownership
<1>15. ASSUME NEW opens \in BOOLEAN, Pool!AppendEnds(opens) \/ Pool!WriteEnds(opens) PROVE Held'
  BY <1>15, <1>f DEF Pool!AppendEnds, Pool!WriteEnds, Pool!Stores, Typing, StateOK, Held,
     Pool!OwnedCursorExact, Claims
<1>16. ASSUME Pool!RetireEnds PROVE Held'
  BY <1>16, TaskTyped, <1>b DEF Pool!RetireEnds, Pool!Runs, Retires, Typing, TasksOK,
     Pool!Forgotten, Pool!Untracked, Ownership, Held, Claims
<1>17. ASSUME Pool!RetireFlushed PROVE Held'
  BY <1>17, Retiring, <1>a DEF Pool!RetireFlushed
<1>18. ASSUME \/ Pool!Begin \/ Pool!AppendFails \/ Pool!WriteFails \/ Pool!PublicAppend \/ Pool!DisposeSession
              \/ (\E window \in BOOLEAN : Pool!LiveEvent(window)) \/ UNCHANGED Pool!vars
       PROVE  Held'
  BY <1>18, <1>a
  DEF Pool!Begin, Pool!AppendFails, Pool!WriteFails, Pool!PublicAppend, Pool!DisposeSession,
       Pool!LiveEvent, Pool!vars
<1>19. ASSUME Pool!Evict PROVE Held'
  BY <1>19, <1>c, <1>f DEF Pool!Evict
<1>20. ASSUME Pool!ForeignWrite PROVE Held'
  BY <1>20 DEF Pool!ForeignWrite, Held, Pool!OwnedCursorExact
<1> QED
  BY <1>1, <1>2, <1>3, <1>4, <1>5, <1>6, <1>7, <1>8, <1>9, <1>10, <1>11, <1>12, <1>13, <1>14, <1>15,
     <1>16, <1>17, <1>18, <1>19, <1>20, Steps

--------------------------------------------------------------------------------
LEMMA PoolInit == Pool!PreparationsBounds /\ Pool!Init => PoolInv
<1> SUFFICES ASSUME Pool!None \notin Openers, Pool!Init PROVE PoolInv
  BY DEF Pool!PreparationsBounds
<1>1. Typing
  <2>1. EntryOK(prepared, stored)
    BY NothingTyped DEF Pool!Init
  <2>2. CallsOK(call, stored)
    BY NothingTyped, PlacesTyped DEF Pool!Init, CallsOK, Calls, Pool!Call
  <2>3. TasksOK
    BY EmptySeq DEF Pool!Init, TasksOK
  <2>4. StateOK
    BY DEF Pool!Init, StateOK, Pool!Untracked
  <2>5. stored \in Nat \ {0} /\ broken \in BOOLEAN
    <3>1. stored = 1 /\ broken = FALSE
      BY Zenon DEF Pool!Init
    <3>2. stored \in Nat \ {0}
      BY <3>1
    <3> QED
      BY <3>1, <3>2, Zenon
  <2>6. open \in BOOLEAN
    BY Zenon DEF Pool!Init
  <2> QED
    BY <2>1, <2>2, <2>3, <2>4, <2>5, <2>6 DEF Typing
<1>2. \A o \in Openers : call[o].pc = "start"
  BY DEF Pool!Init, Pool!Call
<1>3. prepared.phase = "none" /\ DOMAIN serial = {}
  BY DEF Pool!Init, Pool!NoEntry, Pool!Entry
<1>6. Asking
  BY Zenon DEF Pool!Init, Asking
<1>4. Joined /\ Claims /\ Queue /\ Loads /\ Retires
  BY <1>2, <1>3 DEF Joined, Claims, Queue, Loads, Retires
<1>5. Begun /\ Ownership /\ Held
  BY <1>2, <1>3 DEF Pool!Init, Begun, Ownership, Held, Pool!OwnedCursorExact, Pool!Untracked
<1> QED
  BY <1>1, <1>4, <1>5, <1>6 DEF PoolInv

LEMMA PoolMoves == [MCNext]_allVars => [Pool!Next]_(Pool!vars)
BY DEF MCNext, allVars, poolVars, Pool!vars, Pool!log, Pool!tasks, Pool!session, Pool!bounds

(* In every state of every behaviour the ten parts hold together, whatever   *)
(* the openers ask for and in whatever order the chain's tasks, appends,      *)
(* retirements and foreign writes are done (coordinator.ts, preparation.ts).  *)
LEMMA PoolInvariant == MCSpec => []PoolInv
<1>1. PoolInv /\ [MCNext]_allVars => PoolInv'
  BY PoolBounds, PoolMoves, AskingStep, PoolTypeStep, JoinedStep, ClaimsStep, QueueStep, LoadsStep, BegunStep, OwnershipStep,
     RetiresStep, HeldStep DEF PoolInv
<1>2. MCInit => PoolInv
  BY PoolBounds, PoolInit DEF MCInit
<1> QED
  BY <1>1, <1>2, PTL DEF MCSpec

--------------------------------------------------------------------------------
LEMMA TypeOKHolds == PoolInv => Pool!TypeOK
<1> SUFFICES ASSUME PoolInv PROVE Pool!TypeOK
  OBVIOUS
<1> USE DEF PoolInv
<1>1. /\ prepared.gen \in Pool!Generations \union {0}
      /\ prepared.phase \in {"none", "loading", "ready", "committing", "reserved"}
      /\ prepared.src.read \in 0..stored /\ prepared.src.open \in BOOLEAN
      /\ (prepared.gen = 0 <=> prepared.phase = "none")
      /\ (prepared.src.read = 0 <=> prepared.phase \in {"none", "loading"})
  BY DEF Typing, EntryOK, Phases, Sources
<1>2. prepared.phase \in {"committing", "reserved"} =>
        \E o \in Openers : call[o].pc \in {"committing", "holding"} /\ call[o].gen = prepared.gen
  BY DEF Claims
<1>3. \A i \in DOMAIN serial :
        serial[i].kind \in {"load", "commit", "check", "append", "write", "retire"}
  BY ElementOfSeq, LenProperties DEF Typing, TasksOK, Tasks
<1>4. \A o \in Openers :
        /\ kind[o] \in Pool!Kinds /\ call[o].gen \in Pool!Generations \union {0}
        /\ call[o].src.read \in 0..stored /\ call[o].asked \in 0..stored
        /\ call[o].pc \in Pool!Finished \union {"start", "retirement", "waiting", "recheck",
                                           "queued", "committing", "checking", "holding"}
  BY DEF Typing, Asking, CallsOK, Calls, Sources, Places
<1> QED
  BY <1>1, <1>2, <1>3, <1>4 DEF Pool!TypeOK, Typing, TasksOK, StateOK

LEMMA OneOwnerHolds == Pool!PreparationsBounds /\ PoolInv => Pool!OneOwner
<1> SUFFICES ASSUME Pool!None \notin Openers, PoolInv PROVE Pool!OneOwner
  BY DEF Pool!PreparationsBounds
<1> USE DEF PoolInv
<1> DEFINE S == {o \in Openers : call[o].pc \in {"committing", "holding"}}
<1>1. Pool!Cardinality(S) <= 1
  <2>1. CASE S = {}
    BY <2>1, SameSizes, FS_EmptySet
  <2>2. CASE S # {}
    <3>1. PICK o \in Openers : call[o].pc \in {"committing", "holding"}
      BY <2>2
    <3>2. S = {o}
      BY <3>1 DEF Claims
    <3>3. Pool!Cardinality(S) = 1
      BY <3>2, SameSizes, FS_Singleton
    <3> QED
      BY <3>3
  <2> QED
    BY <2>1, <2>2
<1>2. ASSUME NEW o \in Openers, call[o].pc = "holding"
      PROVE  prepared.gen = call[o].gen /\ prepared.phase = "reserved" /\ live = Pool!None /\ state.owner = Pool!None
  BY <1>2 DEF Claims, Held, Ownership
<1> QED
  BY <1>1, <1>2 DEF Pool!OneOwner

(* The stored session has at most one opener that commits or holds it, and   *)
(* none while it is live; the cursor of a reserved or owned session counts    *)
(* what is stored, unless another process has written since; and publishing  *)
(* what prepare returned is accepted: PreparedSafe, which TLC checks on the   *)
(* small instances, for any openers and bounds.                               *)
THEOREM PreparedIsSafe == MCSpec => []PreparedHolds
<1>1. PoolInv => Pool!PreparedSafe
  BY TypeOKHolds, OneOwnerHolds, PoolBounds DEF PoolInv, Held, Pool!PublishNeverRefused,
     Pool!PreparedSafe
<1> QED
  BY <1>1, PoolInvariant, PTL DEF PreparedHolds

--------------------------------------------------------------------------------
(* An opener that commits and is answered by this step is a load whose commit *)
(* the chain has just finished.                                               *)
LEMMA AnsweredByCommit ==
  ASSUME PoolInv, [Pool!Next]_(Pool!vars), NEW o \in Openers,
         call[o].pc = "committing", call'[o].pc = "answered"
  PROVE  \E aborted \in BOOLEAN : Pool!CommitEnds(aborted) /\ o = Pool!Head1.who
<1> USE PlacesTyped DEF PoolInv
<1>a. ASSUME NEW p \in Openers, NEW place, Left(p, place) \/ Went(p, place),
             place # "answered" \/ call[p].pc # "committing"
      PROVE  FALSE
  BY <1>a DEF Left, Went, Same
<1>1. ASSUME NEW p \in Openers, Pool!AwaitRetirement(p) \/ Pool!MeetLive(p) \/ Pool!Reserve(p) \/ Pool!Check(p) PROVE FALSE
  BY <1>1, <1>a, Going, Leaving DEF Pool!AwaitRetirement, Pool!Goes, Pool!MeetLive,
     Pool!Reserve, Pool!Check
<1>2. ASSUME NEW p \in Openers, Pool!Join(p) PROVE FALSE
  BY <1>2, Joining
<1>3. ASSUME NEW p \in Openers, Pool!Abort(p) PROVE FALSE
  BY <1>3, <1>a, Leaving DEF Pool!Abort
<1>4. ASSUME NEW p \in Openers, \/ \E reusable \in BOOLEAN : Pool!Release(p, reusable)
                                \/ \E grown \in BOOLEAN : Pool!Publish(p, grown)
      PROVE  FALSE
  BY <1>4, <1>a, Leaving DEF Pool!Release, Pool!Publish
<1>5. ASSUME Pool!LoadEnds PROVE FALSE
  BY <1>5, Loading
<1>6. ASSUME Pool!LoadFails PROVE FALSE
  BY <1>6, LoadFailing
<1>7. ASSUME Pool!CommitRestarts PROVE FALSE
  BY <1>7, <1>a, Waited, Leaving DEF Pool!CommitRestarts
<1>8. ASSUME NEW fails \in BOOLEAN, Pool!CommitRefused(fails) PROVE FALSE
  BY <1>8, <1>a, Waited, Leaving DEF Pool!CommitRefused
<1>9. ASSUME Pool!CheckEnds PROVE FALSE
  BY <1>9, <1>a, Waited, Leaving DEF Pool!CheckEnds
<1>10. ASSUME NEW opens \in BOOLEAN, Pool!AppendEnds(opens) \/ Pool!WriteEnds(opens) PROVE FALSE
  BY <1>10, Waking DEF Pool!AppendEnds, Pool!WriteEnds, Pool!Stores, Same
<1>11. ASSUME Pool!RetireFlushed \/ Pool!RetireEnds PROVE FALSE
  BY <1>11, Retiring
<1>12. ASSUME \/ Pool!Begin \/ Pool!Adopt \/ Pool!AppendFails \/ Pool!WriteFails \/ Pool!PublicAppend \/ Pool!DisposeSession
              \/ (\E window \in BOOLEAN : Pool!LiveEvent(window)) \/ Pool!ForeignWrite \/ Pool!Evict \/ UNCHANGED Pool!vars
       PROVE  FALSE
  BY <1>12
  DEF Pool!Begin, Pool!Adopt, Pool!AppendFails, Pool!WriteFails, Pool!PublicAppend,
       Pool!DisposeSession, Pool!LiveEvent,
               Pool!ForeignWrite, Pool!Evict, Pool!vars
<1>13. ASSUME NEW aborted \in BOOLEAN, Pool!CommitEnds(aborted) PROVE o = Pool!Head1.who
  BY <1>13, Waited, Leaving, Going DEF Pool!CommitEnds, Left, Went, Same
<1> QED
  BY <1>1, <1>2, <1>3, <1>4, <1>5, <1>6, <1>7, <1>8, <1>9, <1>10, <1>11, <1>12, <1>13, Steps

(* The only step that closes an open turn while it ends a commit is that      *)
(* commit's cold repair.                                                      *)
LEMMA RepairedByCommit ==
  ASSUME [Pool!Next]_(Pool!vars), Pool!Runs("commit"), ~running', open, ~open'
  PROVE  Pool!CommitRestarts
<1>1. running /\ Pool!Head1.kind = "commit"
  BY DEF Pool!Runs, Pool!Immediate
<1>2. /\ ~Pool!Adopt /\ ~\E opens \in BOOLEAN : Pool!AppendEnds(opens) \/ Pool!WriteEnds(opens)
  BY <1>1 DEF Pool!Adopt, Pool!AppendEnds, Pool!WriteEnds, Pool!Runs
<1>3. ~Pool!ForeignWrite
  BY <1>1 DEF Pool!ForeignWrite, Pool!tasks
<1>4. \A o \in Openers :
        /\ ~Pool!AwaitRetirement(o) /\ ~Pool!MeetLive(o) /\ ~Pool!Join(o) /\ ~Pool!Reserve(o) /\ ~Pool!Check(o) /\ ~Pool!Abort(o)
        /\ \A b \in BOOLEAN : ~Pool!Release(o, b) /\ ~Pool!Publish(o, b)
  BY
  DEF Pool!AwaitRetirement, Pool!MeetLive, Pool!Join, Pool!Reserve, Pool!Check, Pool!Abort,
       Pool!Release, Pool!Publish, Pool!log
<1>5. /\ ~Pool!Begin /\ ~Pool!LoadEnds /\ ~Pool!LoadFails /\ ~Pool!CheckEnds /\ ~Pool!AppendFails /\ ~Pool!WriteFails /\ ~Pool!RetireEnds
      /\ \A b \in BOOLEAN : ~Pool!CommitRefused(b) /\ ~Pool!CommitEnds(b) /\ ~Pool!LiveEvent(b)
      /\ ~Pool!PublicAppend /\ ~Pool!DisposeSession /\ ~Pool!RetireFlushed /\ ~Pool!Evict /\ ~UNCHANGED Pool!vars
  BY
  DEF Pool!Begin, Pool!LoadEnds, Pool!LoadFails, Pool!CheckEnds, Pool!AppendFails,
       Pool!WriteFails, Pool!RetireEnds, Pool!CommitRefused,
         Pool!CommitEnds, Pool!LiveEvent, Pool!PublicAppend, Pool!DisposeSession,
              Pool!RetireFlushed, Pool!Evict, Pool!vars, Pool!log
<1> QED
  BY <1>2, <1>3, <1>4, <1>5, Steps

(* No step answers a load with a view of the log that is older than the call  *)
(* or that needs a repair, and none repairs a log, on a commit, while its      *)
(* session is live or has events still to be stored: PreparedSteps, which TLC  *)
(* checks on the small instances, for any openers and bounds.                  *)
THEOREM PreparedStepsHold == MCSpec => PreparedMoves
<1>1. ASSUME PoolInv, [Pool!Next]_(Pool!vars), NEW o \in Openers,
             kind[o] = "load", call[o].pc = "committing", call'[o].pc = "answered"
      PROVE  call[o].src.read \in call[o].asked..stored /\ ~call[o].src.open
  <2>1. Pool!StillCurrent(call[o].src) /\ ~call[o].src.open
    BY <1>1, AnsweredByCommit DEF Pool!CommitEnds
  <2>2. stored \in Nat /\ call[o].asked \in Nat /\ call[o].asked <= stored
    BY <1>1 DEF PoolInv, Typing, CallsOK, Calls
  <2> QED
    BY <2>1, <2>2 DEF Pool!StillCurrent
<1>2. ASSUME PoolInv, [Pool!Next]_(Pool!vars), Pool!Runs("commit"), ~running', open, ~open'
      PROVE  live = Pool!None /\ ~tail
  BY <1>2, RepairedByCommit DEF Pool!CommitRestarts, Pool!Unowned, PoolInv, Ownership
<1>3. PoolInv /\ [Pool!Next]_(Pool!vars) =>
        [\A o \in Openers :
           kind[o] = "load" /\ call[o].pc = "committing" /\ call'[o].pc = "answered" =>
             call[o].src.read \in call[o].asked..stored /\ ~call[o].src.open]_(Pool!vars)
  BY <1>1
<1>4. PoolInv /\ [Pool!Next]_(Pool!vars) =>
        [Pool!Runs("commit") /\ ~running' /\ open /\ ~open' => live = Pool!None /\ ~tail]_(Pool!vars)
  BY <1>2
<1> QED
  BY <1>3, <1>4, PoolMoves, PoolInvariant, PTL
  DEF MCSpec, PreparedMoves, Pool!PreparedSteps, Pool!LoadIsFresh, Pool!RepairOnlyOwnerless
================================================================================
