----------------------------- MODULE StorageDomain -----------------------------
(***************************************************************************)
(* One storage domain over the JSON backend.  The domain keeps its records *)
(* in memory and runs writes one after the other on its chain; a write     *)
(* changes the memory of the backend's unit, publishes the whole file      *)
(* (temporary file, rename, directory fsync), and only then the records.   *)
(* A failed publication is rolled back in the unit.  The domain may be     *)
(* closed and opened again, and the process may crash.                     *)
(***************************************************************************)
EXTENDS Naturals, Sequences

CONSTANTS Keys,       \* the keys of the one table
          Top,        \* values are 0..Top
          MaxCalls,   \* bound on the calls of put, delete and update
          MaxFaults,  \* bound on failing file operations
          MaxCrashes, \* bound on crashes
          SyncFails   \* whether the fsync of a directory may fail

DomainAssumption ==
  /\ Top \in Nat /\ MaxCalls \in Nat /\ MaxFaults \in Nat /\ MaxCrashes \in Nat
  /\ SyncFails \in BOOLEAN

VARIABLES
  domain,    \* closed, opening, open or disposing
  records,   \* KvTableImpl.records
  unit,      \* JsonKvUnit.state
  file,      \* the unit's file
  chain,     \* queued jobs, the first one running
  stage,     \* of the running job: not begun, writing the temporary file, renamed
  previous,  \* the value the running job replaced in the unit
  answer,    \* the answer to the last call that was answered
  calls, faults, crashes  \* made so far, for the bounds

memory == <<records, unit>>
job == <<chain, stage, previous>>
bounds == <<calls, faults, crashes>>
vars == <<domain, memory, file, job, answer, bounds>>

(* What the domain promises; a closed one shows what the next open will read. *)
Shown == IF domain \in {"open", "disposing"} THEN records ELSE file
Store == INSTANCE KvStore WITH map <- Shown, pending <- chain

Absent == Store!Absent
Ops == [kind : Store!Operations, key : Keys, value : 0..Top]
Contents == [Keys -> (0..Top) \union {Absent}]

Init ==
  /\ domain = "closed"
  /\ file \in Contents /\ records = file /\ unit = file
  /\ chain = <<>> /\ stage = "idle" /\ previous = Absent
  /\ answer = "none"
  /\ calls = 0 /\ faults = 0 /\ crashes = 0

--------------------------------------------------------------------------------
(* A plausible bug: a mutated form of the definition it is named after. *)

KnownBug(op) == op.kind # "update" \/ records[op.key] # Absent
                             \* delete does not look whether the key is there

--------------------------------------------------------------------------------
(* Helpers *)

Current == Head(chain)

(* The job finds its key; decided at its own place in the chain. *)
Known(op) == op.kind = "put" \/ records[op.key] # Absent

(* What is left in the unit of a write whose publication failed. *)
RolledBack == [unit EXCEPT ![Current.key] = previous]

(* What the domain's memory becomes once the unit has published. *)
Committed == [records EXCEPT ![Current.key] = unit[Current.key]]

(* close() waits for the chain. *)
Drained == chain = <<>>

Answers(a) == chain' = Tail(chain) /\ stage' = "idle" /\ previous' = Absent /\ answer' = a
Fault == faults < MaxFaults /\ faults' = faults + 1

--------------------------------------------------------------------------------
(* The facility and the life of the domain *)

Open ==
  /\ domain = "closed"
  /\ domain' = "opening"
  /\ UNCHANGED <<memory, file, job, answer, bounds>>

(* The unit reads its file, the domain copies the unit. *)
Opened ==
  /\ domain = "opening"
  /\ domain' = "open" /\ unit' = file /\ records' = file
  /\ UNCHANGED <<file, job, answer, bounds>>

OpenFails ==
  /\ domain = "opening" /\ Fault
  /\ domain' = "closed"
  /\ UNCHANGED <<memory, file, job, answer, calls, crashes>>

Close ==
  /\ domain = "open"
  /\ domain' = "disposing"
  /\ UNCHANGED <<memory, file, job, answer, bounds>>

Closed ==
  /\ domain = "disposing" /\ Drained
  /\ domain' = "closed"
  /\ UNCHANGED <<memory, file, job, answer, bounds>>

(* Memory is lost, and a rename that was not made durable may be. *)
Crash ==
  /\ crashes < MaxCrashes /\ crashes' = crashes + 1
  /\ domain' = "closed"
  /\ chain' = <<>> /\ stage' = "idle" /\ previous' = Absent /\ answer' = "none"
  /\ \/ UNCHANGED file
     \/ stage = "renamed" /\ file' = [file EXCEPT ![Current.key] = previous]
  /\ records' = file' /\ unit' = file'
  /\ UNCHANGED <<calls, faults>>

--------------------------------------------------------------------------------
(* Writes *)

Call(op) ==
  /\ domain = "open" /\ calls < MaxCalls
  /\ calls' = calls + 1 /\ chain' = Append(chain, op)
  /\ UNCHANGED <<domain, memory, file, stage, previous, answer, faults, crashes>>

(* delete and update of a key that is not there end at once. *)
Unneeded ==
  /\ chain # <<>> /\ stage = "idle" /\ ~Known(Current)
  /\ Answers(IF Current.kind = "delete" THEN "false" ELSE "missing")
  /\ UNCHANGED <<domain, memory, file, bounds>>

(* The unit takes the value and starts to publish. *)
Write ==
  /\ chain # <<>> /\ stage = "idle" /\ Known(Current)
  /\ unit' = [unit EXCEPT ![Current.key] = Store!Result(Current, records[Current.key])]
  /\ previous' = unit[Current.key]
  /\ stage' = "writing"
  /\ UNCHANGED <<domain, records, file, chain, answer, bounds>>

Rename ==
  /\ stage = "writing"
  /\ stage' = "renamed" /\ file' = unit
  /\ UNCHANGED <<domain, memory, chain, previous, answer, bounds>>

(* The temporary file fails, or the fsync that follows the rename. *)
PublishFails ==
  /\ stage = "writing" \/ (stage = "renamed" /\ SyncFails)
  /\ Fault
  /\ unit' = RolledBack
  /\ Answers("failed")
  /\ UNCHANGED <<domain, records, file, calls, crashes>>

Published ==
  /\ stage = "renamed"
  /\ records' = Committed
  /\ Answers("done")
  /\ UNCHANGED <<domain, unit, file, bounds>>

--------------------------------------------------------------------------------
Job == Unneeded \/ Write \/ Rename \/ PublishFails \/ Published

Next ==
  \/ Open \/ Opened \/ OpenFails \/ Close \/ Closed \/ Crash
  \/ (\E op \in Ops : Call(op)) \/ Job

Spec == Init /\ [][Next]_vars

(* File operations end, one way or the other. *)
Fairness == WF_vars(Job) /\ WF_vars(Closed)
FairSpec == Spec /\ Fairness

--------------------------------------------------------------------------------
(* Properties *)

TypeOK ==
  /\ domain \in {"closed", "opening", "open", "disposing"}
  /\ records \in Contents /\ unit \in Contents /\ file \in Contents
  /\ chain \in Seq(Ops) /\ stage \in {"idle", "writing", "renamed"}
  /\ (stage # "idle" => chain # <<>>) /\ (chain # <<>> => domain \in {"open", "disposing"})
  /\ previous \in (0..Top) \union {Absent}
  /\ answer \in {"none", "done", "false", "missing", "failed"}
  /\ calls \in 0..MaxCalls /\ faults \in 0..MaxFaults /\ crashes \in 0..MaxCrashes

(* Between two jobs the three copies agree, so that a later publication, a    *)
(* crash or a reopening neither revives a refused write nor loses a done one. *)
CopiesAgree ==
  stage = "idle" /\ domain \in {"open", "disposing"} => records = unit /\ unit = file

(* Calls are applied in order, atomically, and survive a crash once answered. *)
ImplementsKvStore == Store!Spec

(* A rejected write leaves reads and the medium as they were. *)
NoDivergence == domain = "open" /\ chain = <<>> => records = file

(* close() ends, whatever is queued. *)
CloseEnds == domain = "disposing" ~> domain = "closed"

DomainSafe == TypeOK /\ CopiesAgree
================================================================================
