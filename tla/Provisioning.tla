------------------------------ MODULE Provisioning ------------------------------
(***************************************************************************)
(* What DSH Desktop puts on disk before it starts its backend: the built-in *)
(* plugins and the built-in skill market, each a directory replaced when    *)
(* the fingerprint it carries is not the shipped one; the bundle list of    *)
(* the web profile; and the embedding model.  The process may die between   *)
(* any two file operations, and the next start finds what it left.          *)
(*                                                                         *)
(* A fingerprint covers only a part of a directory: the code of a plugin,   *)
(* and the manifest and SKILL.md files of the market.  Two releases may     *)
(* therefore ship different directories under one fingerprint.              *)
(***************************************************************************)
EXTENDS Naturals, FiniteSets

CONSTANTS Plugins,     \* the built-in plugins
          Market,      \* the built-in skill market
          Custom,      \* bundles a user may add to the profile
          None,        \* no directory
          MaxVersion,  \* bound on the versions shipped
          Prints,      \* the fingerprint each version ships for each directory
          MaxCrashes,  \* bound on crashes
          Rollbacks    \* older versions may be installed again

ASSUME ProvisioningAssumption ==
  /\ Market \notin Plugins /\ None \notin Plugins \cup {Market}
  /\ Custom \cap Plugins = {}
  /\ MaxVersion \in Nat \ {0}
  /\ Prints \in [Plugins \cup {Market} -> [1..MaxVersion -> Nat \ {0}]]
  /\ MaxCrashes \in Nat /\ Rollbacks \in BOOLEAN

Targets == Plugins \cup {Market}

(* A fingerprint that a release has replaced is not shipped again. *)
NothingReturns ==
  \A t \in Targets : \A u, v, w \in 1..MaxVersion :
    u <= v /\ v <= w /\ Prints[t][u] = Prints[t][w] => Prints[t][u] = Prints[t][v]

VARIABLES
  version,   \* the version the installed application ships
  pc,        \* off, plugins, manifest, write, model, copying, market, ready
  todo,      \* directories still to be looked at
  at,        \* the directory being replaced
  io,        \* what is done to it: none, remove, copy, mark
  dir,       \* directory -> its content, whose it is, and its fingerprint (0: none)
  manifest,  \* the profile's bundle list
  torn,      \* the manifest does not parse
  bundles,   \* the list being written
  model,     \* the embedding model: absent, part, full
  crashes,   \* for the bound
  added      \* observed by the properties: the bundles the user has added

walk == <<pc, todo, at, io>>
profile == <<manifest, torn, bundles>>
disk == <<dir, profile, model>>
vars == <<version, walk, disk, crashes, added>>

Absent == [content |-> "absent", of |-> 0, mark |-> 0]

Init ==
  /\ version = 1 /\ pc = "off" /\ todo = {} /\ at = None /\ io = "none"
  /\ dir \in [Targets -> {Absent, [content |-> "full", of |-> 0, mark |-> 0]}]
  /\ manifest \in SUBSET Custom /\ torn = FALSE /\ bundles = {} /\ added = manifest
  /\ model = "absent" /\ crashes = 0

--------------------------------------------------------------------------------
(* The fingerprint of the code, or of the manifest and the SKILL.md files, in *)
(* the directory the installed application ships.                             *)
Shipped(t) == Prints[t][version]

(* A plausible bug: a mutated form of the definition it is named after. *)

UnmarkedBug(m) == Shipped(at)                   \* marked before the copy is complete

--------------------------------------------------------------------------------
(* A directory is replaced when it is missing or carries another fingerprint. *)
Stale(t) == dir[t].content = "absent" \/ dir[t].mark # Shipped(t)

Changed(t, d) == dir' = [dir EXCEPT ![t] = d]

(* The fingerprint a directory carries while it is copied. *)
Unmarked(m) == m

(* The bundle list with the built-in ones in it. *)
Listed(known) == known \cup Plugins

(* A manifest that does not parse counts as an empty one. *)
Parsed == IF torn THEN {} ELSE manifest

(* What does not parse stops nothing. *)
Readable == TRUE

(* The desktop starts its backend. *)
Boot ==
  /\ pc = "off" /\ pc' = "plugins" /\ todo' = Plugins
  /\ UNCHANGED <<version, at, io, disk, crashes, added>>

Looks(t) ==
  /\ io = "none" /\ t \in todo
  /\ IF Stale(t)
       THEN at' = t /\ io' = "remove" /\ UNCHANGED todo
       ELSE todo' = todo \ {t} /\ UNCHANGED <<at, io>>
  /\ UNCHANGED <<version, pc, disk, crashes, added>>

(* A directory goes and comes file by file. *)
Removes ==
  /\ io = "remove"
  /\ IF dir[at].content = "full"
       THEN /\ \E m \in {0, dir[at].mark} :
                 Changed(at, [content |-> "part", of |-> dir[at].of, mark |-> m])
            /\ UNCHANGED io
       ELSE Changed(at, Absent) /\ io' = "copy"
  /\ UNCHANGED <<version, pc, todo, at, profile, model, crashes, added>>

Copies ==
  /\ io = "copy"
  /\ IF dir[at].of # version \/ dir[at].content = "absent"
       THEN Changed(at, [content |-> "part", of |-> version, mark |-> Unmarked(0)]) /\ UNCHANGED io
       ELSE Changed(at, [dir[at] EXCEPT !.content = "full"]) /\ io' = "mark"
  /\ UNCHANGED <<version, pc, todo, at, profile, model, crashes, added>>

(* The fingerprint is the last file written. *)
Marks ==
  /\ io = "mark" /\ io' = "none"
  /\ Changed(at, [dir[at] EXCEPT !.mark = Shipped(at)])
  /\ todo' = todo \ {at} /\ at' = None
  /\ UNCHANGED <<version, pc, profile, model, crashes, added>>

PluginsDone ==
  /\ pc = "plugins" /\ todo = {} /\ pc' = "manifest"
  /\ UNCHANGED <<version, todo, at, io, disk, crashes, added>>

(* The manifest is rewritten in place, if a built-in bundle is missing. *)
Lists ==
  /\ pc = "manifest" /\ Readable
  /\ IF Plugins \subseteq Parsed
       THEN pc' = "model" /\ UNCHANGED profile
       ELSE pc' = "write" /\ torn' = TRUE /\ bundles' = Listed(Parsed) /\ UNCHANGED manifest
  /\ UNCHANGED <<version, todo, at, io, dir, model, crashes, added>>

Writes ==
  /\ pc = "write" /\ pc' = "model" /\ manifest' = bundles /\ torn' = FALSE /\ bundles' = {}
  /\ UNCHANGED <<version, todo, at, io, dir, model, crashes, added>>

(* The model is copied where there is none. *)
Models ==
  /\ pc \in {"model", "copying"}
  /\ IF pc = "model" /\ model = "absent"
       THEN model' = "part" /\ pc' = "copying" /\ UNCHANGED todo
       ELSE /\ model' = IF pc = "copying" THEN "full" ELSE model
            /\ pc' = "market" /\ todo' = {Market}
  /\ UNCHANGED <<version, at, io, dir, profile, crashes, added>>

MarketDone ==
  /\ pc = "market" /\ todo = {} /\ pc' = "ready"
  /\ UNCHANGED <<version, todo, at, io, disk, crashes, added>>

--------------------------------------------------------------------------------
(* The process dies, or a file operation fails and the start is given up. *)
Crash ==
  /\ pc # "off" /\ crashes < MaxCrashes /\ crashes' = crashes + 1
  /\ pc' = "off" /\ todo' = {} /\ at' = None /\ io' = "none"
  /\ bundles' = {}
  /\ UNCHANGED <<version, dir, manifest, torn, model, added>>

Quit ==
  /\ pc = "ready" /\ pc' = "off"
  /\ UNCHANGED <<version, todo, at, io, disk, crashes, added>>

(* Another version of the application is installed. *)
Install(v) ==
  /\ pc = "off" /\ v # version /\ (v > version \/ Rollbacks)
  /\ version' = v
  /\ UNCHANGED <<walk, disk, crashes, added>>

(* The user adds a plugin of theirs to the profile. *)
Add(b) ==
  /\ pc = "ready" /\ b \notin manifest
  /\ manifest' = manifest \cup {b} /\ added' = added \cup {b}
  /\ UNCHANGED <<version, walk, dir, torn, bundles, model, crashes>>

--------------------------------------------------------------------------------
Provisions ==
  \/ \E t \in Targets : Looks(t)
  \/ Removes \/ Copies \/ Marks \/ PluginsDone \/ Lists \/ Writes \/ Models \/ MarketDone

Next ==
  \/ Boot \/ Provisions \/ Crash \/ Quit
  \/ \E v \in 1..MaxVersion : Install(v)
  \/ \E b \in Custom : Add(b)

Spec == Init /\ [][Next]_vars

Fairness == WF_vars(Provisions)

FairSpec == Spec /\ Fairness

--------------------------------------------------------------------------------
(* Properties *)

TypeOK ==
  /\ version \in 1..MaxVersion /\ crashes \in 0..MaxCrashes
  /\ pc \in {"off", "plugins", "manifest", "write", "model", "copying", "market", "ready"}
  /\ todo \subseteq Targets /\ at \in Targets \cup {None}
  /\ io \in {"none", "remove", "copy", "mark"} /\ (at = None <=> io = "none")
  /\ io \in {"copy", "mark"} => dir[at].mark = 0
  /\ dir \in [Targets -> [content : {"absent", "part", "full"}, of : 0..MaxVersion, mark : Nat]]
  /\ manifest \subseteq Plugins \cup Custom /\ bundles \subseteq Plugins \cup Custom
  /\ torn \in BOOLEAN
  /\ model \in {"absent", "part", "full"} /\ added \subseteq Custom

(* A whole copy of what one release shipped, with the code (or the manifest  *)
(* and the skills' texts) of the release that is installed.                  *)
WholeAndCurrent(t) ==
  dir[t].content = "full" /\ dir[t].of # 0 /\ Prints[t][dir[t].of] = Shipped(t)

(* A directory that carries the shipped fingerprint is a whole copy of one   *)
(* release and its fingerprint is true of it, at every point a crash may     *)
(* leave it at.                                                              *)
MarkedIsWhole == \A t \in Targets : dir[t].mark = Shipped(t) => WholeAndCurrent(t)

(* The backend starts on whole directories with the code that is shipped,    *)
(* all of them listed; what no fingerprint covers may be an earlier one's.   *)
ReadyIsCurrent ==
  pc = "ready" =>
    /\ \A t \in Targets : dir[t].mark = Shipped(t) /\ WholeAndCurrent(t)
    /\ ~torn /\ Plugins \subseteq manifest

(* The backend starts on the very directories that are shipped, assets and   *)
(* skill files included.                                                     *)
ReadyIsShipped == pc = "ready" => \A t \in Targets : dir[t].of = version

(* The backend starts on a whole embedding model. *)
ModelIsWhole == pc = "ready" => model = "full"

(* The bundles a user has added are still listed when the backend starts. *)
BundlesKept == pc = "ready" => added \subseteq Parsed

(* Without a crash the bundle list never loses what the user has added. *)
BundlesSafe == crashes = 0 /\ pc # "write" => added \subseteq Parsed

(* Whatever earlier starts left behind, a start that is not cut short succeeds. *)
StartsUp == pc = "plugins" ~> pc \in {"ready", "off"}

(* What provisioning keeps at every point a crash may leave it at. *)
ProvisionSafe == TypeOK /\ MarkedIsWhole /\ ReadyIsCurrent /\ BundlesSafe
================================================================================
