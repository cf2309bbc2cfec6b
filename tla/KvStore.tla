-------------------------------- MODULE KvStore --------------------------------
(***************************************************************************)
(* What an open storage domain promises: calls are applied one at a time,  *)
(* in the order in which they were made, each at once or not at all; what  *)
(* reads see is what a crash keeps, but for the first call not answered,   *)
(* which may or may not have been applied.                                 *)
(***************************************************************************)
EXTENDS Naturals, Sequences

CONSTANTS Keys,  \* the keys
          Top    \* values are 0..Top

VARIABLES
  map,      \* the value of every key, Absent for none
  pending,  \* calls not answered yet
  answer    \* the answer to the last call that was answered

vars == <<map, pending, answer>>

Absent == Top + 1
Operations == {"put", "delete", "update"}

(* What op makes of the current value: update is the caller's function. *)
Result(op, old) ==
  IF op.kind = "put" THEN op.value
  ELSE IF op.kind = "delete" THEN Absent ELSE (old + 1) % (Top + 1)

(* Deleting what is not there, and updating it, changes nothing. *)
Idle(op, old) == op.kind # "put" /\ old = Absent

Applied(op) == [map EXCEPT ![op.key] = Result(op, map[op.key])]

Answer(op) ==
  IF ~Idle(op, map[op.key]) THEN "done" ELSE IF op.kind = "delete" THEN "false" ELSE "missing"

Init == map \in [Keys -> (0..Top) \union {Absent}] /\ pending = <<>> /\ answer = "none"

Call ==
  /\ \E op \in [kind : Operations, key : Keys, value : 0..Top] : pending' = Append(pending, op)
  /\ UNCHANGED <<map, answer>>

Apply ==
  /\ pending # <<>>
  /\ map' = IF Idle(Head(pending), map[Head(pending).key]) THEN map ELSE Applied(Head(pending))
  /\ answer' = Answer(Head(pending))
  /\ pending' = Tail(pending)

Refuse ==
  /\ pending # <<>>
  /\ pending' = Tail(pending) /\ answer' = "failed"
  /\ UNCHANGED map

Crash ==
  /\ pending' = <<>> /\ answer' = "none"
  /\ \/ UNCHANGED map
     \/ /\ pending # <<>> /\ ~Idle(Head(pending), map[Head(pending).key])
        /\ map' = Applied(Head(pending))

Next == Call \/ Apply \/ Refuse \/ Crash

Spec == Init /\ [][Next]_vars
================================================================================
