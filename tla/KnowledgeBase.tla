----------------------------- MODULE KnowledgeBase -----------------------------
(***************************************************************************)
(* The memory plugin's knowledge base: importing a folder adds a document  *)
(* for each file and then, one embedding at a time, its chunks.  Imports   *)
(* overlap each other and the panel's deletions, a file or an embedding    *)
(* may fail, the process may die, and the embedding model is loaded once.  *)
(***************************************************************************)
EXTENDS Naturals, FiniteSets

CONSTANTS Imports,     \* import requests
          Files,       \* the files of the folder, in order: 1..n
          Parts,       \* file -> number of its chunks
          MaxCrashes   \* bound on crashes

(* Assumed by the modules that instantiate this one. *)
KnowledgeBaseAssumption ==
  /\ Files \subseteq Nat \ {0} /\ IsFiniteSet(Files)
  /\ Parts \in [Files -> Nat] /\ MaxCrashes \in Nat

Docs == Imports \X Files   \* every import of a file is a document of its own

VARIABLES
  model,      \* the model's files are in place
  extractor,  \* the memoized pipeline: none, loading, ready, failed
  pc,         \* import -> new, embed, count, done, failed, dead
  file,       \* import -> the file it is at
  seq,        \* import -> chunks of it added so far
  documents,  \* rows of documents
  chunks,     \* document -> its rows of chunks
  count,      \* document -> chunk_count
  crashes,    \* for the bound
  deleted     \* observed by the properties: documents the user asked to delete

tables == <<documents, chunks, count>>
vars == <<model, extractor, pc, file, seq, tables, crashes, deleted>>

Init ==
  /\ model \in BOOLEAN /\ extractor = "none"
  /\ pc = [i \in Imports |-> "new"]
  /\ file = [i \in Imports |-> 0] /\ seq = [i \in Imports |-> 0]
  /\ documents = {} /\ chunks = [d \in Docs |-> {}] /\ count = [d \in Docs |-> 0]
  /\ crashes = 0 /\ deleted = {}

--------------------------------------------------------------------------------
(* A plausible bug: a mutated form of the definition it is named after. *)

CountedBug(d) == count[d] + 1                   \* counted before it is inserted

--------------------------------------------------------------------------------
Doc(i) == <<i, file[i]>>

(* The files after the one at hand that have any text. *)
Left(i) == {f \in Files : f > file[i] /\ Parts[f] > 0}

(* The next document and its first embedding, or the end of the import. *)
NextFile(i) ==
  IF Left(i) = {}
    THEN /\ pc' = [pc EXCEPT ![i] = "done"] /\ UNCHANGED <<file, seq, documents, extractor>>
    ELSE LET f == CHOOSE f \in Left(i) : \A g \in Left(i) : f <= g
         IN /\ pc' = [pc EXCEPT ![i] = "embed"]
            /\ file' = [file EXCEPT ![i] = f] /\ seq' = [seq EXCEPT ![i] = 0]
            /\ documents' = documents \cup {<<i, f>>}
            /\ extractor' = IF extractor = "none" THEN "loading" ELSE extractor

Fails(i) ==
  /\ pc' = [pc EXCEPT ![i] = "failed"] /\ UNCHANGED <<file, seq, documents, extractor>>

(* All chunks of the file are in. *)
LastPart(i) == seq[i] >= Parts[file[i]]

(* What the count is while the new chunk's row is not there yet. *)
Counted(d) == count[d]

--------------------------------------------------------------------------------
(* A request arrives; its path may be unreadable. *)
Import(i) ==
  /\ pc[i] = "new" /\ (NextFile(i) \/ Fails(i))
  /\ UNCHANGED <<model, chunks, count, crashes, deleted>>

(* The pipeline is loaded by whoever needs it first. *)
Outcome == IF model THEN "ready" ELSE "failed"

Loads ==
  /\ extractor = "loading" /\ extractor' = Outcome
  /\ UNCHANGED <<model, pc, file, seq, tables, crashes, deleted>>

(* An embedding arrives: its row is inserted... *)
Embeds(i) ==
  /\ pc[i] = "embed" /\ extractor = "ready"
  /\ chunks' = [chunks EXCEPT ![Doc(i)] = @ \cup {seq[i]}]
  /\ count' = [count EXCEPT ![Doc(i)] = IF Doc(i) \in documents THEN Counted(Doc(i)) ELSE @]
  /\ seq' = [seq EXCEPT ![i] = @ + 1] /\ pc' = [pc EXCEPT ![i] = "count"]
  /\ UNCHANGED <<model, extractor, file, documents, crashes, deleted>>

(* ...then counted, and the import goes on: to the next embedding, the next *)
(* file, or a file it cannot read.                                          *)
Counts(i) ==
  /\ pc[i] = "count"
  /\ count' = [count EXCEPT ![Doc(i)] = IF Doc(i) \in documents THEN @ + 1 ELSE @]
  /\ IF LastPart(i)
       THEN NextFile(i) \/ (Left(i) # {} /\ Fails(i))
       ELSE pc' = [pc EXCEPT ![i] = "embed"] /\ UNCHANGED <<file, seq, documents, extractor>>
  /\ UNCHANGED <<model, chunks, crashes, deleted>>

(* The pipeline did not load, or an inference throws. *)
EmbedFails(i) ==
  /\ pc[i] = "embed" /\ extractor \in {"ready", "failed"} /\ Fails(i)
  /\ UNCHANGED <<model, chunks, count, crashes, deleted>>

--------------------------------------------------------------------------------
(* Two SQL statements are one step for everybody but a crash. *)
Settled == \A i \in Imports : pc[i] # "count"

(* What the end of the process does to the imports under way. *)
Stop == pc' = [i \in Imports |-> IF pc[i] \in {"embed", "count"} THEN "dead" ELSE pc[i]]

(* A deletion takes the chunks first; the process may die before the document. *)
Delete(d) ==
  /\ Settled /\ d \in documents
  /\ chunks' = [chunks EXCEPT ![d] = {}] /\ deleted' = deleted \cup {d}
  /\ \/ documents' = documents \ {d} /\ UNCHANGED <<pc, extractor, crashes>>
     \/ /\ crashes < MaxCrashes /\ crashes' = crashes + 1
        /\ Stop /\ extractor' = "none" /\ UNCHANGED documents
  /\ UNCHANGED <<model, file, seq, count>>

(* A search embeds its query; it changes nothing else. *)
Search ==
  /\ Settled /\ extractor = "none" /\ extractor' = "loading"
  /\ UNCHANGED <<model, pc, file, seq, tables, crashes, deleted>>

(* The desktop puts the model in place. *)
Provide ==
  /\ ~model /\ model' = TRUE
  /\ UNCHANGED <<extractor, pc, file, seq, tables, crashes, deleted>>

Crash ==
  /\ crashes < MaxCrashes /\ crashes' = crashes + 1
  /\ Stop /\ extractor' = "none"
  /\ UNCHANGED <<model, file, seq, tables, deleted>>

--------------------------------------------------------------------------------
Continues(i) == Counts(i) \/ (Settled /\ (Embeds(i) \/ EmbedFails(i)))

Next ==
  \/ \E i \in Imports : (Settled /\ Import(i)) \/ Continues(i)
  \/ \E d \in Docs : Delete(d)
  \/ Search \/ Loads \/ Provide \/ Crash

Spec == Init /\ [][Next]_vars

(* The pipeline's promise settles, and so does every inference. *)
Fairness == WF_vars(Loads) /\ \A i \in Imports : WF_vars(Continues(i))

FairSpec == Spec /\ Fairness

--------------------------------------------------------------------------------
(* Properties *)

Whole(d) == chunks[d] = 0..(Parts[d[2]] - 1)

TypeOK ==
  /\ model \in BOOLEAN /\ extractor \in {"none", "loading", "ready", "failed"}
  /\ pc \in [Imports -> {"new", "embed", "count", "done", "failed", "dead"}]
  /\ file \in [Imports -> Files \cup {0}] /\ seq \in [Imports -> Nat]
  /\ documents \subseteq Docs /\ deleted \subseteq Docs
  /\ \A d \in Docs : chunks[d] \subseteq 0..(Parts[d[2]] - 1)
  /\ crashes \in 0..MaxCrashes

(* An import that reports success has stored every chunk of every file, except *)
(* in documents that were deleted under it.                                     *)
DoneIsWhole ==
  \A d \in Docs : pc[d[1]] = "done" /\ Parts[d[2]] > 0 => d \in deleted \/ (d \in documents /\ Whole(d))

(* The listed count of a document is the number of its chunks, short of one at *)
(* most where the process died between the two statements.                     *)
CountsAgree ==
  \A d \in documents \ deleted :
    LET n == Cardinality(chunks[d])
    IN count[d] = n \/ (count[d] + 1 = n /\ (~Settled \/ crashes > 0))

(* Every import that has begun ends. *)
ImportsEnd == \A i \in Imports : pc[i] \in {"embed", "count"} ~> pc[i] \in {"done", "failed", "dead"}

(* A listed document nobody is importing any more has all its chunks: its status *)
(* reads indexed.                                                                *)
IndexedIsWhole ==
  \A d \in documents \ deleted : (pc[d[1]] \in {"embed", "count"} /\ file[d[1]] = d[2]) \/ Whole(d)

(* Once the model is in place the pipeline gets to load it. *)
ModelGetsLoaded == model /\ extractor = "failed" ~> extractor # "failed"

(* What concurrent imports, deletions, failures and a crash keep. *)
KnowledgeSafe == TypeOK /\ DoneIsWhole /\ CountsAgree
================================================================================
