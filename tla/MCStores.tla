------------------------------- MODULE MCStores -------------------------------
(***************************************************************************)
(* Four parts of the way to the disk, which share no state: the write-     *)
(* behind queue of a session, the file its backend keeps, the coordinator  *)
(* with its pool of prepared sessions, and a storage domain.  The initial  *)
(* state picks the part that runs, the others stand still.                 *)
(***************************************************************************)
EXTENDS WriteBehind

CONSTANTS Parts,                  \* the parts that may run
          Keys, Top, MaxCalls,    \* the storage domain's keys, values and calls
          MaxFaults, MaxCrashes,  \* bounds of both the file and the domain
          Openers, Setups         \* of the pool

VARIABLES
  part,
  compressed, file, survive, entry, mode, pc, fileBatch, before, log, cursor,
  materialized, acked, epoch, faults, crashes,
  domain, records, unit, unitFile, chain, stage, previous, answer,
  calls, unitFaults, unitCrashes,
  setup, stored, open, broken, prepared, serial, running, state, live, tail,
  retiring, kind, call, foreign, writes, poolFaults

File == INSTANCE SessionFile WITH batch <- fileBatch, Features <- {}
Domain == INSTANCE StorageDomain WITH
            file <- unitFile, faults <- unitFaults, crashes <- unitCrashes,
            SyncFails <- FALSE
Pool == INSTANCE SessionPreparations WITH
          entry <- prepared, chain <- serial, faults <- poolFaults

ASSUME FileBounds == File!FileAssumption
ASSUME DomainBounds == Domain!DomainAssumption
ASSUME PoolBounds == Pool!PreparationsBounds

(* Setups of the pool: calls of every kind, prepares over two writes (a repair *)
(* can meet a turn that is still being written), and no fault at all.          *)
Wide == [kinds |-> {"prepare", "load", "inspect"}, writes |-> 1, faults |-> 1]
Deep == [kinds |-> {"prepare"}, writes |-> 2, faults |-> 1]
Faultless == [kinds |-> {"prepare", "load"}, writes |-> 2, faults |-> 0]

OnlyFaultless == {Faultless}
WideAndDeep == {Wide, Deep}

fileVars == <<compressed, file, survive, entry, mode, pc, fileBatch, before, log, cursor,
              materialized, acked, epoch, faults, crashes>>
domainVars == <<domain, records, unit, unitFile, chain, stage, previous, answer,
                calls, unitFaults, unitCrashes>>
poolVars == <<setup, stored, open, broken, prepared, serial, running, state, live, tail,
              retiring, kind, call, foreign, writes, poolFaults>>
allVars == <<part, vars, fileVars, domainVars, poolVars>>

MCInit ==
  /\ part \in Parts
  /\ Init /\ File!Init /\ Domain!Init /\ Pool!Init
  /\ part # "file" => compressed
  /\ part # "domain" => unitFile = [k \in Keys |-> 0]
  /\ part # "pool" => ~open

MCNext ==
  \/ part = "queue" /\ Next /\ UNCHANGED <<part, fileVars, domainVars, poolVars>>
  \/ part = "file" /\ File!Next /\ UNCHANGED <<part, vars, domainVars, poolVars>>
  \/ part = "domain" /\ Domain!Next /\ UNCHANGED <<part, vars, fileVars, poolVars>>
  \/ part = "pool" /\ Pool!Next /\ UNCHANGED <<part, vars, fileVars, domainVars>>

MCSpec == MCInit /\ [][MCNext]_allVars

--------------------------------------------------------------------------------
(* Properties *)

(* What was acknowledged can be read back whatever fails, wherever a process *)
(* or a machine stops, and a rejected append leaves the file as the cursor   *)
(* of the coordinator counts it; between two jobs, memory, unit and file of  *)
(* a storage domain agree.                                                   *)
FilesHold ==
  /\ part = "file" => File!FileSafe
  /\ part = "domain" => Domain!DomainSafe

(* A storage domain is a serial key-value store that keeps what it answered. *)
DomainIsStore == Domain!ImplementsKvStore

(* Backends answer and timers fire: flushes are answered, events get stored  *)
(* without a flush, a rejected append gets through, a cold log is loaded or  *)
(* refused, and a domain closes.  Before that, no paused queue writes by      *)
(* itself.                                                                   *)
StoresSettle ==
  /\ PausedMeansNoBackgroundWrite
  /\ part = "queue" /\ Fairness => FlushSettles /\ EventuallyStored
  /\ part = "file" /\ File!Fairness => File!RetryGetsThrough /\ File!LoadEnds
  /\ part = "domain" /\ Domain!Fairness => Domain!CloseEnds

(* Whatever openers ask for, the stored session has one owner, whose cursor  *)
(* is exact and whose publication is accepted.                               *)
PreparedHolds == part = "pool" => Pool!PreparedSafe

(* No load is answered with a log that never was during the call, and no     *)
(* repair closes a turn whose events are still to come.                      *)
PreparedMoves == Pool!PreparedSteps

(* Every call is answered, whatever it waits for is aborted, fails or restarts. *)
CallsAnswered == part = "pool" /\ setup = Wide /\ Pool!Fairness => Pool!CallsEnd

(* Every accepted append continues the stored log. *)
LogStaysWhole == Pool!LogStaysWhole
================================================================================
