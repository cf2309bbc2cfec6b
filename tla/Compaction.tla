------------------------------- MODULE Compaction -------------------------------
(***************************************************************************)
(* Compaction of a session's model-visible surface: old tool results are   *)
(* pruned, then the oldest span that splits no call from its results is    *)
(* summarised and replaced by a checkpoint.  The summary is awaited while  *)
(* others append to the session, a bracket in the log is the lock, every   *)
(* append may fail and the process may die anywhere.                       *)
(***************************************************************************)
EXTENDS Naturals, Sequences, FiniteSets, SequencesExt, FiniteSetsExt

CONSTANTS Threshold, Retain,   \* pressure threshold and retained tail, in tokens
          Retries,             \* compactionRetries
          PruneOver,           \* tool results over this size are pruned to size 1
          MaxSeq, MaxFaults, MaxCrashes   \* bounds

(* Assumed by the modules that instantiate this one. *)
CompactionAssumption ==
  /\ Threshold \in Nat /\ Retain \in Nat /\ Retain < Threshold
  /\ Retries \in Nat /\ PruneOver \in Nat \ {0}
  /\ MaxSeq \in Nat /\ MaxFaults \in Nat /\ MaxCrashes \in Nat

VARIABLES
  pruner,    \* the optional pruner is loaded
  surface,   \* sequence of nodes
  next,      \* seq of the next node
  pending,   \* unanswered calls of the open step: <<seq of the call, index>>
  phase,     \* of the agent: idle, turn, maintenance
  bracket,   \* latest compaction/start: none (matched), open, stale
  pc,        \* the operation: off, resolving, summary, flush
  mode,      \* pressure, overflow, manual
  measured,  \* surface as priced before an await
  selected,  \* nodes handed to the summarizer
  attempt,   \* summary attempts of this operation
  outcome,   \* of the last operation
  faults, crashes,  \* for the bounds
  orphan,    \* observed by the properties: a close failed in this process
  said       \* observed by the properties: seqs of all that was ever appended

opvars == <<pc, mode, measured, selected, attempt, outcome>>
vars == <<pruner, surface, next, pending, phase, bracket, opvars, faults, crashes, orphan, said>>

Init ==
  /\ pruner \in BOOLEAN /\ said = {}
  /\ surface = <<>> /\ next = 1 /\ pending = {} /\ phase = "idle" /\ bracket = "none"
  /\ pc = "off" /\ mode = "manual" /\ measured = <<>> /\ selected = <<>> /\ attempt = 0
  /\ outcome = "none" /\ faults = 0 /\ crashes = 0 /\ orphan = FALSE

--------------------------------------------------------------------------------
(* Nodes: `calls' tool calls in an assistant message, `of' the call a result     *)
(* answers, `stands' the original events it stands for, `from' what it replaced  *)
(* and `read' what its summary was made from.                                    *)

Node(n, calls, of, size) ==
  [seq |-> n, calls |-> calls, of |-> of, size |-> size, stands |-> {n}, from |-> {}, read |-> {}]

IsResult(n) == n.of # <<>>

Tokens(s) == FoldLeft(LAMBDA sum, n : sum + n.size, 0, s)

Seqs(s) == {s[i].seq : i \in DOMAIN s}

(* The count of calls in progress before position k. *)
InProgress(s, k) ==
  FoldLeft(LAMBDA open, n : IF IsResult(n) THEN open - 1 ELSE open + n.calls, 0, SubSeq(s, 1, k - 1))

--------------------------------------------------------------------------------
(* Plausible bugs: each is a mutated form of the definition it is named after *)

BalancedBug(s, k) == k = 1 \/ ~IsResult(s[k])   \* only a result cannot be cut off
ReservedBug == "idle"                           \* turns are admitted while it runs

--------------------------------------------------------------------------------
(* Selection *)

Balanced(s, k) == InProgress(s, k) = 0

(* Where the retained tail begins: at least one node, at least `retain' tokens. *)
KeepFrom(s, retain) ==
  LET enough == {k \in 1..Len(s) : Tokens(SubSeq(s, k, Len(s))) >= retain}
  IN IF enough = {} THEN 1 ELSE Max(enough)

Cut(s, retain) == Max({1} \cup {k \in 1..KeepFrom(s, retain) : Balanced(s, k)})

(* The nodes before the cut; none when it is at the head. *)
Range_(s, retain) == IF s = <<>> THEN <<>> ELSE SubSeq(s, 1, Cut(s, retain) - 1)

--------------------------------------------------------------------------------
(* The surface *)

Stands(s) == UNION {s[i].stands : i \in DOMAIN s}

Pruned(n, seq) == [n EXCEPT !.seq = seq, !.size = 1]

Prunable == {i \in DOMAIN surface : IsResult(surface[i]) /\ surface[i].size > PruneOver}

(* pruneSession: each over-budget result is rewritten in place. *)
PruneAll ==
  LET nth(i) == Cardinality({j \in Prunable : j <= i})
  IN [i \in DOMAIN surface |->
        IF i \in Prunable THEN Pruned(surface[i], next + nth(i) - 1) ELSE surface[i]]

AfterPrune == IF pruner THEN PruneAll ELSE surface
NextAfterPrune == IF pruner THEN next + Cardinality(Prunable) ELSE next

(* The selected span is still there, contiguous and priced as it was; automatic *)
(* calls want the whole surface as it was.                                       *)
Stable ==
  IF mode = "manual"
    THEN Len(selected) <= Len(surface) /\ SubSeq(surface, 1, Len(selected)) = selected
    ELSE surface = measured

(* The span from the first to the last selected seq, if both are there. *)
Span ==
  LET at(n) == {i \in DOMAIN surface : surface[i].seq = n}
  IN IF at(selected[1].seq) = {} \/ at(Last(selected).seq) = {} THEN <<>>
     ELSE SubSeq(surface, Max(at(selected[1].seq)), Max(at(Last(selected).seq)))

Checkpoint(size) ==
  [seq |-> next, calls |-> 0, of |-> <<>>, size |-> size, stands |-> Stands(Span),
   from |-> Seqs(Span), read |-> Seqs(selected)]

--------------------------------------------------------------------------------
(* The session grows *)

Grows(node) ==
  /\ next <= MaxSeq /\ surface' = Append(surface, node)
  /\ next' = next + 1 /\ said' = said \cup {next} /\ UNCHANGED pruner

TurnStarts ==
  /\ phase = "idle" /\ phase' = "turn" /\ Grows(Node(next, 0, <<>>, 1))
  /\ UNCHANGED <<pending, bracket, opvars, faults, crashes, orphan>>

Answers(calls) ==
  /\ phase = "turn" /\ pc = "off" /\ pending = {}
  /\ Grows(Node(next, calls, <<>>, 1)) /\ pending' = {<<next, j>> : j \in 1..calls}
  /\ UNCHANGED <<phase, bracket, opvars, faults, crashes, orphan>>

Result(call, size) ==
  /\ call \in pending /\ pending' = pending \ {call} /\ Grows(Node(next, 0, call, size))
  /\ UNCHANGED <<phase, bracket, opvars, faults, crashes, orphan>>

TurnEnds ==
  /\ phase = "turn" /\ pc = "off" /\ pending = {} /\ phase' = "idle"
  /\ UNCHANGED <<pruner, surface, next, pending, bracket, opvars, faults, crashes, orphan, said>>

(* Anybody may add context, and prune. *)
Context ==
  /\ surface # <<>> /\ Grows(Node(next, 0, <<>>, 1))
  /\ UNCHANGED <<pending, phase, bracket, opvars, faults, crashes, orphan>>

PrunedByOthers(i) ==
  /\ i \in Prunable /\ next <= MaxSeq
  /\ surface' = [surface EXCEPT ![i] = Pruned(@, next)] /\ next' = next + 1
  /\ UNCHANGED <<pruner, said, pending, phase, bracket, opvars, faults, crashes, orphan>>

--------------------------------------------------------------------------------
(* The transaction *)

Busy == bracket = "open"

Ends(result) == pc' = "off" /\ outcome' = result /\ measured' = <<>> /\ selected' = <<>>

(* runMaintenance: no turn starts before the operation has settled. *)
Reserved == "maintenance"

(* Validation and compaction/start, with no await between them. *)
Opens(s, range) ==
  IF Busy THEN Ends("busy") /\ UNCHANGED <<phase, bracket, faults>>
  ELSE \/ /\ bracket' = "open" /\ pc' = "summary"
          /\ phase' = IF mode' = "manual" THEN Reserved ELSE phase
          /\ measured' = s /\ selected' = range
          /\ UNCHANGED <<faults, outcome>>
       \/ /\ faults < MaxFaults /\ faults' = faults + 1
          /\ Ends("failed") /\ UNCHANGED <<phase, bracket>>

(* Between two steps, or after an overflow; pressure first asks for the model's capacity. *)
Pressure ==
  /\ phase = "turn" /\ pc = "off" /\ pending = {} /\ surface # <<>>
  /\ pc' = "resolving" /\ mode' = "pressure" /\ measured' = surface /\ attempt' = 1
  /\ UNCHANGED <<surface, next, pending, phase, bracket, selected, outcome, faults, crashes, orphan, pruner, said>>

Resolved ==
  /\ pc = "resolving" /\ UNCHANGED <<mode, attempt>>
  /\ LET prunes == ~Busy /\ Tokens(measured) >= Threshold /\ pruner
         s == IF prunes THEN PruneAll ELSE surface
         m == IF prunes THEN PruneAll ELSE measured
         range == Range_(m, Retain)
     IN /\ surface' = s /\ next' = IF prunes THEN NextAfterPrune ELSE next
        /\ IF Busy THEN Ends("busy") /\ UNCHANGED <<phase, bracket, faults>>
           ELSE IF Tokens(m) < Threshold THEN Ends("null") /\ UNCHANGED <<phase, bracket, faults>>
           ELSE IF Seqs(m) # Seqs(s) THEN Ends("failed") /\ UNCHANGED <<phase, bracket, faults>>
           ELSE IF range = <<>> THEN Ends("null") /\ UNCHANGED <<phase, bracket, faults>>
           ELSE Opens(s, range)
  /\ UNCHANGED <<pending, crashes, orphan, pruner, said>>

(* Nothing is awaited between the choice of the range and the bracket. *)
Overflow ==
  /\ phase = "turn" /\ pc = "off" /\ pending = {} /\ surface # <<>>
  /\ mode' = "overflow" /\ attempt' = Retries + 1
  /\ surface' = AfterPrune /\ next' = NextAfterPrune
  /\ LET range == Range_(AfterPrune, 0)
     IN IF range = <<>> THEN Ends("null") /\ UNCHANGED <<phase, bracket, faults>>
        ELSE Opens(AfterPrune, range)
  /\ UNCHANGED <<pending, crashes, orphan, pruner, said>>

(* compactNow reserves the idle agent. *)
Manual ==
  /\ phase = "idle" /\ pc = "off" /\ surface # <<>>
  /\ mode' = "manual" /\ attempt' = Retries + 1
  /\ LET range == Range_(surface, 0)
     IN IF range = <<>> THEN Ends("null") /\ UNCHANGED <<phase, bracket, faults>>
        ELSE Opens(surface, range)
  /\ UNCHANGED <<surface, next, pending, crashes, orphan, pruner, said>>

(* After the close, a manual attempt is flushed; the other modes return. *)
Closes(result) ==
  IF mode = "manual" THEN pc' = "flush" /\ outcome' = result /\ UNCHANGED <<measured, selected, phase>>
  ELSE Ends(result) /\ UNCHANGED phase

(* The bracket of a failed attempt. *)
Closed == "none"

(* The summary failed, was cancelled, is too long or comes too late. *)
SummaryLost ==
  /\ pc = "summary" /\ UNCHANGED <<surface, next, mode, attempt>>
  /\ \/ bracket' = Closed /\ Closes("failed") /\ UNCHANGED <<faults, orphan>>
     \/ /\ faults < MaxFaults /\ faults' = faults + 1 /\ orphan' = TRUE   \* and cannot be closed
        /\ Ends("failed") /\ UNCHANGED bracket
        /\ IF mode = "manual" THEN phase' = "idle" ELSE UNCHANGED phase
  /\ UNCHANGED <<pending, crashes, pruner, said>>

Replaced(size) ==
  <<Checkpoint(size)>> \o SubSeq(surface, 1 + Len(Span), Len(surface))

Exhausted == attempt > Retries

(* The summary is shorter and its span as it was: checkpoint and close, then, *)
(* under pressure, once more while it is still too much.                       *)
SummaryArrives(size) ==
  /\ pc = "summary" /\ size < Tokens(selected) /\ Stable /\ Span # <<>>
  /\ surface' = Replaced(size) /\ next' = next + 1
  /\ LET again == Range_(Replaced(size), Retain)
         enough == mode # "pressure" \/ Tokens(Replaced(size)) < Threshold
     IN IF enough \/ Exhausted \/ again = <<>>
          THEN /\ bracket' = "none" /\ UNCHANGED attempt
               /\ Closes(IF enough THEN "done" ELSE "failed")
          ELSE /\ attempt' = attempt + 1 /\ UNCHANGED <<bracket, pc, outcome, phase>>
               /\ measured' = Replaced(size) /\ selected' = again
  /\ UNCHANGED <<pending, mode, faults, crashes, orphan, pruner, said>>

(* An append of the commit fails: the summary's or the checkpoint's is closed   *)
(* like a lost summary; the close itself leaves the checkpoint and an open lock. *)
CloseFails(size) ==
  /\ pc = "summary" /\ size < Tokens(selected) /\ Stable /\ Span # <<>>
  /\ faults < MaxFaults /\ faults' = faults + 1
  /\ surface' = Replaced(size) /\ next' = next + 1 /\ orphan' = TRUE
  /\ Ends("failed") /\ (IF mode = "manual" THEN phase' = "idle" ELSE UNCHANGED phase)
  /\ UNCHANGED <<pending, bracket, mode, attempt, crashes, pruner, said>>

(* The checkpoint of a manual compaction reaches the disk, or not. *)
Flushed ==
  /\ pc = "flush" /\ phase' = "idle"
  /\ \/ Ends(outcome) /\ UNCHANGED faults
     \/ faults < MaxFaults /\ faults' = faults + 1 /\ Ends("failed")
  /\ UNCHANGED <<surface, next, pending, bracket, mode, attempt, crashes, orphan, pruner, said>>

--------------------------------------------------------------------------------
(* The process dies and the session is resumed: unanswered calls get results, *)
(* the turn is closed, and the seed boundary makes an open bracket stale.      *)
Repaired(s) ==
  LET calls == SetToSeq(pending)
  IN s \o [i \in DOMAIN calls |-> Node(next + i, 0, calls[i], 1)]

Crash ==
  /\ crashes < MaxCrashes /\ crashes' = crashes + 1
  /\ \/ surface' = Repaired(surface) /\ said' = said \cup {next + i : i \in 1..Cardinality(pending)}
     \/ /\ pc = "summary" /\ Stable /\ Span # <<>>   \* after the checkpoint, before the close
        /\ surface' = Replaced(1) /\ UNCHANGED said
  /\ next' = next + 1 + Cardinality(pending) /\ pending' = {} /\ phase' = "idle"
  /\ bracket' = IF bracket = "open" THEN "stale" ELSE bracket
  /\ Ends("none") /\ orphan' = FALSE /\ UNCHANGED <<pruner, mode, attempt, faults>>

--------------------------------------------------------------------------------
Operates ==
  \/ Resolved \/ SummaryLost \/ Flushed
  \/ \E size \in 1..2 : SummaryArrives(size) \/ CloseFails(size)

Next ==
  \/ TurnStarts \/ TurnEnds \/ Context
  \/ \E calls \in 0..2 : Answers(calls)
  \/ \E call \in pending, size \in {1, PruneOver + 1} : Result(call, size)
  \/ \E i \in DOMAIN surface : PrunedByOthers(i)
  \/ Pressure \/ Overflow \/ Manual \/ Operates \/ Crash

Spec == Init /\ [][Next]_vars

--------------------------------------------------------------------------------
(* Properties *)

TypeOK ==
  /\ \A i \in DOMAIN surface : surface[i].seq \in 1..(next - 1) /\ surface[i].size \in 1..(PruneOver + 1)
  /\ IsInjective([i \in DOMAIN surface |-> surface[i].seq])
  /\ phase \in {"idle", "turn", "maintenance"} /\ bracket \in {"none", "open", "stale"}
  /\ pc \in {"off", "resolving", "summary", "flush"} /\ mode \in {"pressure", "overflow", "manual"}
  /\ attempt \in 0..(Retries + 1) /\ orphan \in BOOLEAN
  /\ outcome \in {"none", "null", "busy", "failed", "done"}
  /\ (pending # {} => phase = "turn" /\ pc = "off")
  /\ (phase = "maintenance" <=> mode = "manual" /\ pc \in {"summary", "flush"})

(* No result is on the surface without its call before it, and no call whose *)
(* answers were given without them: counting open calls suffices for that.    *)
PairsWhole ==
  /\ \A i \in DOMAIN surface : IsResult(surface[i]) =>
       \E j \in 1..(i - 1) : surface[j].seq = surface[i].of[1]
  /\ \A i \in DOMAIN surface : \A c \in 1..surface[i].calls :
       \/ <<surface[i].seq, c>> \in pending
       \/ \E j \in DOMAIN surface : surface[j].of = <<surface[i].seq, c>>

(* The surface stands for the whole conversation, once and in its order. *)
HistoryWhole ==
  /\ UNION {surface[i].stands : i \in DOMAIN surface} = said
  /\ \A i, j \in DOMAIN surface : i < j =>
       \A a \in surface[i].stands, b \in surface[j].stands : a < b

(* A checkpoint replaces what its summary was made from, and nothing else. *)
SummaryFaithful == \A i \in DOMAIN surface : surface[i].from = surface[i].read

(* The newest node is never summarised, and pressure leaves the retained tail. *)
TailKept ==
  [][\A i \in DOMAIN surface' : surface'[i].read # {} /\ surface'[i].seq \notin Seqs(surface) =>
       /\ i < Len(surface')
       /\ mode = "pressure" => Tokens(SubSeq(surface', i + 1, Len(surface'))) >= Retain]_surface

(* The lock is held by the operation at work, or left by a close that failed in *)
(* this process; nothing else is turned away.                                     *)
LockExplained ==
  /\ bracket = "open" => pc = "summary" \/ orphan
  /\ pc = "summary" => bracket = "open"
  /\ outcome = "busy" => orphan

(* No turn begins or ends inside a bracket that is at work. *)
TurnsOutside == [][(phase = "turn") # (phase' = "turn") => pc = "off" \/ crashes' # crashes]_phase

(* What any compaction, however it is triggered, fails or is cut short, keeps. *)
SurfaceSafe == TypeOK /\ PairsWhole /\ HistoryWhole /\ SummaryFaithful /\ LockExplained
================================================================================
