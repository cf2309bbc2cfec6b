----------------------------- MODULE SessionFile -----------------------------
(****************************************************************************)
(* The file of one session, as the JSONL backend writes, repairs and reads  *)
(* it (session-persistence-jsonl), under the coordinator that keeps its     *)
(* cursor: publication of the first batch, appends rolled back when they    *)
(* fail, the reading of a torn log and the repair of a cold one, with I/O   *)
(* that fails, processes that are killed and machines that lose power.      *)
(*                                                                          *)
(* A file is a sequence of pieces: Zstandard frames, one per batch, or raw  *)
(* lines, one per event.  The header, published with the first batch, is    *)
(* left out.  What a power loss may leave of a write that was not synced is *)
(* some prefix of its bytes: an assumption about the file system.           *)
(****************************************************************************)
EXTENDS Naturals, Sequences, SequencesExt, FiniteSetsExt

CONSTANTS
  MaxEvents,    \* bound: events a live session grows to
  MaxFaults,    \* bound: I/O calls that fail
  MaxCrashes,   \* bound: kills and power losses
  Features      \* "rollback": an append's rollback may fail too
                \* "directory": the directory's sync may fail

FileAssumption ==
  /\ {MaxEvents, MaxFaults, MaxCrashes} \subseteq Nat
  /\ Features \subseteq {"rollback", "directory"}

VARIABLES
  compressed,    \* compression is 'zstd', not 'none'
  file,          \* the pieces a reader finds
  survive,       \* the contents a power loss may leave
  entry,         \* the published name: "none", "linked" or "durable"
  mode,          \* "live", "cold", "repairing" or "refused"
  pc,            \* the I/O call that comes next, "idle" without one
  batch,         \* the events being written
  before,        \* what a failed write or a torn tail is cut back to
  log,           \* the live session's events
  cursor,        \* state.cursor
  materialized,  \* state.materialized
  acked,         \* the log up to the cursor when an append last resolved
  epoch,         \* processes so far
  faults, crashes

memory == <<mode, pc, batch, before, log, cursor, materialized>>
vars == <<compressed, file, survive, entry, memory, acked, epoch, faults, crashes>>

Modes == {"live", "cold", "repairing", "refused"}
Calls == {"idle", "publish", "syncdir", "write", "sync", "truncate", "resync", "cut", "cutsync"}

Init ==
  /\ compressed \in BOOLEAN
  /\ file = <<>> /\ survive = {<<>>} /\ entry = "none"
  /\ mode = "live" /\ pc = "idle" /\ batch = <<>> /\ before = <<>>
  /\ log = <<>> /\ cursor = 0 /\ materialized = FALSE
  /\ acked = <<>> /\ epoch = 0 /\ faults = 0 /\ crashes = 0

-----------------------------------------------------------------------------
(* The encoding: format.ts and zstd.ts.                                     *)

Event(n, isEnd) == [seq |-> n, epoch |-> epoch, end |-> isEnd]
Piece(events, isWhole) == [events |-> events, whole |-> isWhole]

Encoded(events) ==
  IF compressed THEN <<Piece(events, TRUE)>>
  ELSE [i \in 1 .. Len(events) |-> Piece(<<events[i]>>, TRUE)]

(* What is left of a write that broke off: of a frame, the records that     *)
(* decode from its first bytes, the last of them perhaps; of lines, some    *)
(* and a fragment.                                                          *)
Fragments(events) ==
  IF compressed
  THEN {<<>>} \cup {<<Piece(SubSeq(events, 1, k), FALSE)>> : k \in 0 .. Len(events)}
  ELSE {SubSeq(Encoded(events), 1, k) \o t :
          k \in 0 .. Len(events) - 1, t \in {<<>>, <<Piece(<<>>, FALSE)>>}}

Records(content) == FlattenSeq([i \in 1 .. Len(content) |-> content[i].events])
Contiguous(events) == \A i \in 1 .. Len(events) : events[i].seq = i

(* How many records continue the log without a gap. *)
Good(events) == Max({n \in 0 .. Len(events) : Contiguous(SubSeq(events, 1, n))})
HasEnd(events) == \E i \in 1 .. Len(events) : events[i].end

(* readZstdPrefix(): whole frames must decode to a contiguous log; of a     *)
(* torn last frame the records that do are recovered.  Frames that follow a *)
(* torn one cannot be told from its payload.                                *)
ReadFrames(content) ==
  LET torn == content # <<>> /\ ~Last(content).whole
      kept == IF torn THEN Front(content) ELSE content
      all == Records(content)
      n == Good(all)
  IN [ok |-> /\ \A i \in 1 .. Len(kept) : kept[i].whole
             /\ n >= Len(Records(kept))
             /\ ~HasEnd(SubSeq(all, n + 1, Len(all))),
      events |-> SubSeq(all, 1, n), kept |-> kept, torn |-> torn,
      recovered |-> SubSeq(all, Len(Records(kept)) + 1, n)]

(* scanLog(): a fragment makes the line that follows it unparsable; the log *)
(* ends before the first record that does not continue it, and an end of a  *)
(* turn past that point means corruption.                                   *)
ReadLines(content) ==
  LET Parses(i) == content[i].whole /\ (i = 1 \/ content[i - 1].whole)
      Fits(i) == Parses(i) /\ content[i].events[1].seq = i
      n == Max({k \in 0 .. Len(content) : \A i \in 1 .. k : Fits(i)})
      kept == SubSeq(content, 1, n)
  IN [ok |-> \A i \in n + 1 .. Len(content) : Parses(i) => ~HasEnd(content[i].events),
      events |-> Records(kept), kept |-> kept, torn |-> n < Len(content),
      recovered |-> <<>>]

Read(content) == IF compressed THEN ReadFrames(content) ELSE ReadLines(content)

-----------------------------------------------------------------------------
(* The live session and its appends (appendCore, materialize, appendLines). *)

Fault == faults < MaxFaults /\ faults' = faults + 1
Fine == UNCHANGED faults

Produce(isEnd) ==
  /\ mode = "live" /\ Len(log) < MaxEvents
  /\ log' = Append(log, Event(Len(log) + 1, isEnd))
  /\ UNCHANGED <<file, survive, entry, mode, pc, batch, before, cursor, materialized,
                 acked, epoch, faults, crashes>>

(* The write-behind hands over all that is not stored yet, a batch that     *)
(* failed before included.                                                  *)
StartAppend ==
  /\ mode = "live" /\ pc = "idle" /\ cursor < Len(log)
  /\ batch' = SubSeq(log, cursor + 1, Len(log))
  /\ pc' = IF materialized THEN "write" ELSE "publish"
  /\ UNCHANGED <<file, survive, entry, mode, before, log, cursor, materialized,
                 acked, epoch, faults, crashes>>

Resolved ==
  /\ cursor' = cursor + Len(batch)
  /\ materialized' = TRUE
  /\ acked' = SubSeq(log, 1, cursor + Len(batch))
  /\ pc' = "idle"
  /\ UNCHANGED <<mode, batch>>

(* A repair that is through is read again; one that failed fails the load.  *)
Repaired == pc' = "idle" /\ mode' = "cold" /\ UNCHANGED <<batch, cursor, materialized, acked>>
Done == IF mode = "repairing" THEN Repaired ELSE Resolved
Rejected ==
  /\ pc' = "idle"
  /\ mode' = IF mode = "repairing" THEN "cold" ELSE mode
  /\ UNCHANGED <<batch, cursor, materialized, acked>>

(* Mutant: a publication may be refused after its link was made. *)
PublishBug ==
  /\ pc = "publish"
  /\ \/ /\ entry = "none"
        /\ file' = Encoded(batch) /\ survive' = {file'}
        /\ entry' = "linked"
        /\ \/ /\ pc' = "syncdir"
              /\ Fine /\ UNCHANGED <<mode, batch, cursor, materialized, acked>>
           \/ Rejected /\ Fault
     \/ /\ \/ entry # "none" /\ Fine
           \/ Fault
        /\ Rejected
        /\ UNCHANGED <<file, survive, entry>>
  /\ UNCHANGED <<before, log, epoch, crashes>>

(* materialize(): a synced temporary file is linked to the final name,      *)
(* which must not exist.                                                    *)
Publish ==
  /\ pc = "publish"
  /\ \/ /\ entry = "none"
        /\ file' = Encoded(batch) /\ survive' = {file'}
        /\ entry' = "linked"
        /\ pc' = "syncdir"
        /\ Fine /\ UNCHANGED <<mode, batch, cursor, materialized, acked>>
     \/ /\ \/ entry # "none" /\ Fine
           \/ Fault
        /\ Rejected
        /\ UNCHANGED <<file, survive, entry>>
  /\ UNCHANGED <<before, log, epoch, crashes>>

SyncDirectory ==
  /\ pc = "syncdir"
  /\ \/ entry' = "durable" /\ Resolved /\ Fine
     \/ "directory" \in Features /\ Fault /\ Rejected /\ UNCHANGED entry
  /\ UNCHANGED <<file, survive, before, log, epoch, crashes>>

(* appendLines(): the write, which may break off ... *)
Write ==
  /\ pc = "write"
  /\ before' = file
  /\ survive' = survive \cup {file \o t : t \in Fragments(batch) \cup {Encoded(batch)}}
  /\ \/ /\ file' = file \o Encoded(batch)
        /\ pc' = "sync" /\ Fine
     \/ /\ \E t \in Fragments(batch) : file' = file \o t
        /\ pc' = "truncate" /\ Fault
  /\ UNCHANGED <<entry, mode, batch, log, cursor, materialized, acked, epoch, crashes>>

(* ... the sync ... *)
Sync ==
  /\ pc = "sync"
  /\ \/ survive' = {file} /\ Done /\ Fine
     \/ /\ pc' = "truncate" /\ Fault
        /\ UNCHANGED <<survive, mode, batch, cursor, materialized, acked>>
  /\ UNCHANGED <<file, entry, before, log, epoch, crashes>>

(* Mutant: a broken write is not rolled back. *)
TruncateBug ==
  /\ pc = "truncate" /\ Rejected
  /\ UNCHANGED <<file, survive, entry, before, log, faults, epoch, crashes>>

(* ... and rollbackAppend(), which truncates and syncs before the append is *)
(* rejected.                                                                *)
Truncate ==
  /\ pc = "truncate"
  /\ \/ /\ file' = before /\ survive' = survive \cup {before}
        /\ pc' = "resync" /\ Fine
        /\ UNCHANGED <<mode, batch, cursor, materialized, acked>>
     \/ "rollback" \in Features /\ Fault /\ Rejected /\ UNCHANGED <<file, survive>>
  /\ UNCHANGED <<entry, before, log, epoch, crashes>>

Resync ==
  /\ pc = "resync"
  /\ Rejected
  /\ \/ survive' = {file} /\ Fine
     \/ "rollback" \in Features /\ Fault /\ UNCHANGED survive
  /\ UNCHANGED <<file, entry, before, log, epoch, crashes>>

-----------------------------------------------------------------------------
(* A cold session (prepareCore, commitPrepared, commitRepair).              *)

(* A session that was never published is created anew. *)
Create ==
  /\ mode = "cold" /\ pc = "idle" /\ entry = "none"
  /\ mode' = "live" /\ log' = <<>> /\ cursor' = 0 /\ materialized' = FALSE
  /\ UNCHANGED <<file, survive, entry, pc, batch, before, acked, epoch, faults, crashes>>

(* interruptedTurnClosers(): an open turn is closed. *)
Closers(events) ==
  IF events = <<>> \/ Last(events).end THEN <<>> ELSE <<Event(Len(events) + 1, TRUE)>>

(* The records a torn frame gave up are written again with the closers.     *)
Rewritten(r) == r.recovered \o Closers(r.events)

Load ==
  /\ mode = "cold" /\ pc = "idle" /\ entry # "none"
  /\ LET r == Read(file) IN
     \/ /\ ~r.ok
        /\ mode' = "refused"
        /\ UNCHANGED <<pc, batch, before, log, cursor, materialized>>
     \/ /\ r.ok /\ (r.torn \/ Closers(r.events) # <<>>)
        /\ mode' = "repairing"
        /\ batch' = Rewritten(r) /\ before' = r.kept
        /\ pc' = IF r.torn THEN "cut" ELSE "write"
        /\ UNCHANGED <<log, cursor, materialized>>
     \/ /\ r.ok /\ ~r.torn /\ Closers(r.events) = <<>>
        /\ mode' = "live"
        /\ log' = r.events /\ cursor' = Len(r.events) /\ materialized' = TRUE
        /\ UNCHANGED <<pc, batch, before>>
  /\ UNCHANGED <<file, survive, entry, acked, epoch, faults, crashes>>

(* repair(): the torn tail is cut off, and the cut synced before more is    *)
(* appended.                                                                *)
Cut ==
  /\ pc = "cut"
  /\ \/ /\ file' = before /\ survive' = survive \cup {before}
        /\ pc' = "cutsync" /\ Fine
        /\ UNCHANGED <<mode, batch, cursor, materialized, acked>>
     \/ Fault /\ Rejected /\ UNCHANGED <<file, survive>>
  /\ UNCHANGED <<entry, before, log, epoch, crashes>>

CutSync ==
  /\ pc = "cutsync"
  /\ \/ /\ survive' = {file} /\ Fine
        /\ IF batch = <<>> THEN Repaired
           ELSE pc' = "write" /\ UNCHANGED <<mode, batch, cursor, materialized, acked>>
     \/ Fault /\ Rejected /\ UNCHANGED survive
  /\ UNCHANGED <<file, entry, before, log, epoch, crashes>>

-----------------------------------------------------------------------------
(* Crashes: the process starts again, cold.                                 *)

Restarted ==
  /\ crashes < MaxCrashes /\ crashes' = crashes + 1
  /\ mode # "refused"
  /\ mode' = "cold" /\ pc' = "idle" /\ batch' = <<>> /\ before' = <<>>
  /\ log' = <<>> /\ cursor' = 0 /\ materialized' = FALSE
  /\ epoch' = epoch + 1
  /\ UNCHANGED <<acked, faults>>

(* The kernel outlives a killed process: the next one finds all that was    *)
(* written, synced or not.  That the name it published is written back      *)
(* before a power loss is an assumption: no later process syncs the folder. *)
Kill ==
  /\ Restarted
  /\ entry' = IF entry = "linked" THEN "durable" ELSE entry
  /\ UNCHANGED <<file, survive>>

PowerLoss ==
  /\ Restarted
  /\ \/ file' \in survive /\ entry' = IF entry = "linked" THEN "durable" ELSE entry
     \/ entry = "linked" /\ file' = <<>> /\ entry' = "none"
  /\ survive' = {file'}

IoStep == Publish \/ SyncDirectory \/ Write \/ Sync \/ Truncate \/ Resync \/ Cut \/ CutSync

Fixed == UNCHANGED compressed

Steps ==
  \/ \E isEnd \in BOOLEAN : Produce(isEnd)
  \/ StartAppend \/ IoStep
  \/ Create \/ Load
  \/ Kill \/ PowerLoss

Next == Fixed /\ Steps

Spec == Init /\ [][Next]_vars

(* A started call comes to its end, a flush or a new event retries a failed *)
(* batch, and a session that is asked for is loaded.                        *)
Fairness ==
  /\ WF_vars(Fixed /\ IoStep) /\ WF_vars(Fixed /\ StartAppend)
  /\ WF_vars(Fixed /\ (Create \/ Load))
FairSpec == Spec /\ Fairness

-----------------------------------------------------------------------------
(* Every variable stays in its domain. *)
TypeOK ==
  /\ entry \in {"none", "linked", "durable"} /\ mode \in Modes /\ pc \in Calls
  /\ file \in survive
  /\ \A c \in survive : \A i \in 1 .. Len(c) : c[i].whole \in BOOLEAN
  /\ Contiguous(log) /\ cursor \in 0 .. Len(log) /\ materialized \in BOOLEAN
  /\ faults \in 0 .. MaxFaults /\ crashes \in 0 .. MaxCrashes /\ epoch = crashes

(* Whatever is under way, whichever of its calls fails and wherever the     *)
(* power goes: the log can be read, and begins with every event whose       *)
(* append was acknowledged (the write path's rollback, the reader's torn    *)
(* tail, the repair's order).                                               *)
AckedReadable ==
  /\ acked # <<>> => entry = "durable"
  /\ \A c \in survive : Read(c).ok /\ IsPrefix(acked, Read(c).events)

(* Between two calls the file holds exactly what the coordinator's cursor   *)
(* counts: a rejected append left nothing, so that its retry repeats no seq *)
(* (this is what the write-behind assumes of its backend).                  *)
CursorMatches ==
  mode = "live" /\ pc = "idle" =>
    IF materialized
    THEN Read(file).events = SubSeq(log, 1, cursor) /\ ~Read(file).torn
    ELSE entry = "none"

(* A live session's events get stored once the I/O works again, unless the  *)
(* process goes.                                                            *)
RetryGetsThrough ==
  (mode = "live" /\ cursor < Len(log)) ~> (mode # "live" \/ cursor = Len(log))

(* A cold session is loaded: the loop of repair and reload ends. *)
LoadEnds == (mode \in {"cold", "repairing"}) ~> (mode \in {"live", "refused"})

(* What holds whichever I/O call fails, wherever a process or a machine stops. *)
FileSafe == TypeOK /\ AckedReadable /\ CursorMatches
=============================================================================
