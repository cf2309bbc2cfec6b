----------------------------- MODULE DesktopProofs -----------------------------
(***************************************************************************)
(* Proofs about the four parts of the desktop application, for any bounds:  *)
(* Provisioning, for any plugins, any bundles of the user's and any number  *)
(* of versions and crashes; the shell; the knowledge base; and the skill    *)
(* market.                                                                  *)
(*                                                                         *)
(* What the backend starts on does not follow from the last file operation *)
(* but from the whole walk: a directory already looked at is not touched    *)
(* again, one that is being replaced carries no fingerprint, and no         *)
(* directory carries a fingerprint that only later versions ship.  The      *)
(* inductive invariant says so in three parts: Marking (what a fingerprint  *)
(* means), Walking (what has been looked at) and Listing (the bundles).     *)
(***************************************************************************)
EXTENDS MCDesktop, FiniteSetTheorems, TLAPS

(* A directory whose copy is complete is whole before it is marked, and one  *)
(* that is removed carries another fingerprint than the shipped one.         *)
Marking ==
  /\ MarkedIsWhole
  /\ \A t \in Targets : dir[t].mark # 0 => \E u \in 1..version : Prints[t][u] = dir[t].mark
  /\ io = "remove" => dir[at].mark # Shipped(at)
  /\ io = "mark" => dir[at].content = "full" /\ dir[at].of = version

(* What the walk has left behind it carries the shipped fingerprint. *)
Walking ==
  /\ io # "none" => at \in todo
  /\ pc \notin {"plugins", "market"} => todo = {}
  /\ pc = "plugins" => todo \subseteq Plugins /\ \A p \in Plugins \ todo : dir[p].mark = Shipped(p)
  /\ pc \notin {"off", "plugins"} => \A p \in Plugins : dir[p].mark = Shipped(p)
  /\ pc = "market" => todo \subseteq {Market} /\ (todo = {} => dir[Market].mark = Shipped(Market))
  /\ pc = "ready" => dir[Market].mark = Shipped(Market)

(* The manifest is torn only between the two halves of a write, or after a   *)
(* crash; then the built-in bundles are missing, which makes the next start  *)
(* write it again.                                                           *)
Listing ==
  /\ torn => Plugins # {}
  /\ pc \in {"model", "copying", "market", "ready"} => ~torn /\ Plugins \subseteq manifest
  /\ pc = "write" => Plugins \subseteq bundles
  /\ crashes = 0 => /\ torn => pc = "write"
                    /\ IF pc = "write" THEN added \subseteq bundles ELSE added \subseteq manifest


(* Every step of Next, named. *)
LEMMA Steps ==
  ASSUME [Next]_vars
  PROVE  \/ Boot \/ (\E t \in Targets : Looks(t)) \/ Removes \/ Copies \/ Marks \/ PluginsDone
         \/ Lists \/ Writes \/ Models \/ MarketDone \/ Crash \/ Quit
         \/ (\E v \in 1..MaxVersion : Install(v)) \/ (\E b \in Custom : Add(b))
         \/ UNCHANGED vars
BY DEF Next, Provisions

--------------------------------------------------------------------------------
(* Types *)

LEMMA ShippedIsOne ==
  ASSUME version \in 1..MaxVersion, NEW t \in Targets
  PROVE  Shipped(t) \in Nat \ {0}
BY ProvisioningAssumption DEF Shipped, Targets

LEMMA TypeInit == Init => TypeOK
<1> SUFFICES ASSUME Init PROVE TypeOK
  OBVIOUS
<1>1. \A t \in Targets : dir[t] \in [content : {"absent", "part", "full"}, of : 0..MaxVersion,
                                     mark : Nat]
  BY ProvisioningAssumption DEF Init, Absent
<1>2. dir \in [Targets -> [content : {"absent", "part", "full"}, of : 0..MaxVersion,
                          mark : Nat]]
  BY <1>1 DEF Init
<1>3. manifest \subseteq Custom /\ added \subseteq Custom /\ bundles = {} /\ todo = {}
  BY DEF Init
<1>4. /\ version = 1 /\ crashes = 0 /\ torn = FALSE
      /\ pc = "off" /\ at = None /\ io = "none" /\ model = "absent"
  BY DEF Init
<1>5. version \in 1..MaxVersion /\ crashes \in 0..MaxCrashes
  BY <1>4, ProvisioningAssumption
<1>6. /\ todo \subseteq Targets /\ at \in Targets \cup {None} /\ model \in {"absent", "part", "full"}
      /\ (at = None <=> io = "none") /\ io \notin {"copy", "mark"}
      /\ manifest \subseteq Plugins \cup Custom /\ bundles \subseteq Plugins \cup Custom
  BY <1>3, <1>4
<1> QED
  BY <1>2, <1>3, <1>4, <1>5, <1>6 DEF TypeOK

LEMMA TypeStep == TypeOK /\ [Next]_vars => TypeOK'
<1> SUFFICES ASSUME TypeOK, [Next]_vars PROVE TypeOK'
  OBVIOUS
<1>0. /\ None \notin Plugins \cup {Market} /\ MaxVersion \in Nat /\ MaxCrashes \in Nat
      /\ Market \notin Plugins
  BY ProvisioningAssumption
<1> USE <1>0 DEF TypeOK, walk, disk, profile
<1>1. ASSUME Boot PROVE TypeOK'
  BY <1>1 DEF Boot, Targets
<1>2. ASSUME NEW t \in Targets, Looks(t) PROVE TypeOK'
  BY <1>2 DEF Looks, Targets
<1>3. ASSUME Removes PROVE TypeOK'
  <2>1. at \in Targets /\ dir[at].of \in 0..MaxVersion /\ dir[at].mark \in Nat
    BY <1>3 DEF Removes
  <2> QED
    BY <1>3, <2>1 DEF Removes, Changed, Absent
<1>4. ASSUME Copies PROVE TypeOK'
  BY <1>4 DEF Copies, Changed, Unmarked
<1>5. ASSUME Marks PROVE TypeOK'
  <2>1. at \in Targets /\ version \in 1..MaxVersion
    BY <1>5 DEF Marks
  <2>2. Shipped(at) \in Nat
    BY <2>1, ShippedIsOne
  <2>3. dir' \in [Targets -> [content : {"absent", "part", "full"}, of : 0..MaxVersion,
                             mark : Nat]]
    BY <1>5, <2>1, <2>2 DEF Marks, Changed
  <2> QED
    BY <1>5, <2>3 DEF Marks
<1>6. ASSUME PluginsDone \/ MarketDone PROVE TypeOK'
  BY <1>6 DEF PluginsDone, MarketDone
<1>7. ASSUME Lists PROVE TypeOK'
  BY <1>7 DEF Lists, Listed, Parsed
<1>8. ASSUME Writes PROVE TypeOK'
  BY <1>8 DEF Writes
<1>9. ASSUME Models PROVE TypeOK'
  BY <1>9 DEF Models, Targets
<1>10. ASSUME Crash PROVE TypeOK'
  BY <1>10 DEF Crash
<1>11. ASSUME Quit PROVE TypeOK'
  BY <1>11 DEF Quit
<1>12. ASSUME NEW v \in 1..MaxVersion, Install(v) PROVE TypeOK'
  BY <1>12 DEF Install
<1>13. ASSUME NEW b \in Custom, Add(b) PROVE TypeOK'
  BY <1>13 DEF Add
<1>14. CASE UNCHANGED vars
  BY <1>14 DEF vars
<1> QED
  BY <1>1, <1>2, <1>3, <1>4, <1>5, <1>6, <1>7, <1>8, <1>9, <1>10, <1>11, <1>12, <1>13, <1>14, Steps

--------------------------------------------------------------------------------
(* Fingerprints *)

LEMMA MarkingInit == Init => Marking
<1> SUFFICES ASSUME Init PROVE Marking
  OBVIOUS
<1>1. version \in 1..MaxVersion
  BY ProvisioningAssumption DEF Init
<1>2. \A t \in Targets : dir[t].mark = 0 /\ Shipped(t) # 0
  BY <1>1, ShippedIsOne DEF Init, Absent
<1> QED
  BY <1>2 DEF Init, Marking, MarkedIsWhole

(* What is done to the directory being replaced leaves the others as they     *)
(* are: the fingerprint of it has to be none, the one it had, or true.        *)
LEMMA MarkingAt ==
  ASSUME TypeOK, Marking, at \in Targets, version' = version,
         \A t \in Targets \ {at} : dir'[t] = dir[t],
         \/ dir'[at].mark = 0
         \/ dir'[at].mark = dir[at].mark /\ dir[at].mark # Shipped(at)
         \/ /\ dir'[at].mark = Shipped(at) /\ dir'[at].content = "full"
            /\ dir'[at].of = version
  PROVE  /\ MarkedIsWhole'
         /\ \A t \in Targets : dir'[t].mark # 0 =>
              \E u \in 1..version' : Prints[t][u] = dir'[t].mark
<1>1. \A t \in Targets : Shipped(t) \in Nat \ {0} /\ Shipped(t)' = Shipped(t)
  BY ShippedIsOne DEF TypeOK, Shipped
<1>2. version \in 1..version /\ version # 0
  BY DEF TypeOK
<1>3. ASSUME NEW t \in Targets, dir'[t].mark = Shipped(t)' PROVE WholeAndCurrent(t)'
  <2>1. CASE t = at
    <3>1. dir'[at].content = "full" /\ dir'[at].of = version
      BY <1>1, <1>3, <2>1
    <3> QED
      BY <1>2, <2>1, <3>1 DEF WholeAndCurrent, Shipped
  <2>2. CASE t # at
    BY <1>1, <1>3, <2>2 DEF Marking, MarkedIsWhole, WholeAndCurrent
  <2> QED
    BY <2>1, <2>2
<1>4. ASSUME NEW t \in Targets, dir'[t].mark # 0
      PROVE  \E u \in 1..version : Prints[t][u] = dir'[t].mark
  <2>1. CASE t = at /\ dir'[at].mark = Shipped(at)
    BY <1>2, <2>1 DEF Shipped
  <2>2. CASE dir'[t].mark = dir[t].mark
    BY <1>4, <2>2 DEF Marking
  <2> QED
    BY <1>4, <2>1, <2>2
<1> QED
  BY <1>3, <1>4 DEF MarkedIsWhole

(* A directory may already carry the fingerprint of the version that is now   *)
(* installed: then every version between shipped it, the last one included,   *)
(* and the directory was whole under it.                                      *)
LEMMA MarkingStep ==
  ASSUME ~Rollbacks, NothingReturns
  PROVE  TypeOK /\ Walking /\ Marking /\ [Next]_vars => Marking'
<1> SUFFICES ASSUME TypeOK, Walking, Marking, [Next]_vars PROVE Marking'
  OBVIOUS
<1> USE DEF TypeOK, Marking, disk, walk
<1>0. \A t \in Targets : Shipped(t) \in Nat \ {0}
  BY ShippedIsOne
<1>1. ASSUME NEW t \in Targets, Looks(t) PROVE Marking'
  BY <1>1 DEF Looks, Stale, Shipped, MarkedIsWhole, WholeAndCurrent
<1>2. ASSUME Removes PROVE Marking'
  <2>1. /\ at \in Targets /\ dir[at].mark # Shipped(at) /\ UNCHANGED <<version, at>>
        /\ dir'[at].mark \in {0, dir[at].mark} /\ io' \in {"remove", "copy"}
        /\ \A t \in Targets \ {at} : dir'[t] = dir[t]
    BY <1>2 DEF Removes, Changed, Absent
  <2>2. /\ MarkedIsWhole'
        /\ \A t \in Targets : dir'[t].mark # 0 =>
             \E u \in 1..version' : Prints[t][u] = dir'[t].mark
    BY <2>1, MarkingAt
  <2>3. Shipped(at)' = Shipped(at) /\ Shipped(at) # 0
    BY <1>0, <2>1 DEF Shipped
  <2> QED
    BY <2>1, <2>2, <2>3
<1>3. ASSUME Copies PROVE Marking'
  <2>1. /\ at \in Targets /\ UNCHANGED <<version, at>>
        /\ dir'[at].mark = 0 /\ io' \in {"copy", "mark"}
        /\ io' = "mark" => dir'[at].content = "full" /\ dir'[at].of = version
        /\ \A t \in Targets \ {at} : dir'[t] = dir[t]
    BY <1>3 DEF Copies, Changed, Unmarked
  <2>2. /\ MarkedIsWhole'
        /\ \A t \in Targets : dir'[t].mark # 0 =>
             \E u \in 1..version' : Prints[t][u] = dir'[t].mark
    BY <2>1, MarkingAt
  <2> QED
    BY <2>1, <2>2
<1>4. ASSUME Marks PROVE Marking'
  <2>1. /\ at \in Targets /\ UNCHANGED version /\ io' = "none"
        /\ dir'[at].mark = Shipped(at) /\ dir'[at].content = "full" /\ dir'[at].of = version
        /\ \A t \in Targets \ {at} : dir'[t] = dir[t]
    BY <1>4 DEF Marks, Changed
  <2>2. /\ MarkedIsWhole'
        /\ \A t \in Targets : dir'[t].mark # 0 =>
             \E u \in 1..version' : Prints[t][u] = dir'[t].mark
    BY <2>1, MarkingAt
  <2> QED
    BY <2>1, <2>2
<1>5. ASSUME NEW v \in 1..MaxVersion, Install(v) PROVE Marking'
  <2>1. io = "none" /\ UNCHANGED <<dir, io>> /\ version' = v /\ v > version
    BY <1>5 DEF Install, Walking
  <2>2. ASSUME NEW t \in Targets, dir[t].mark = Prints[t][v] PROVE Prints[t][v] = Prints[t][version]
    <3>1. Prints[t][v] # 0
      BY ProvisioningAssumption DEF Targets
    <3>2. PICK u \in 1..version : Prints[t][u] = Prints[t][v]
      BY <2>2, <3>1
    <3>3. u \in 1..MaxVersion /\ u <= version /\ version <= v
      BY <2>1, ProvisioningAssumption
    <3> QED
      BY <3>2, <3>3 DEF NothingReturns
  <2>3. MarkedIsWhole'
    BY <2>1, <2>2 DEF MarkedIsWhole, WholeAndCurrent, Shipped
  <2>4. 1..version \subseteq 1..v
    BY <2>1
  <2> QED
    BY <2>1, <2>3, <2>4
<1>6. ASSUME \/ Boot \/ PluginsDone \/ MarketDone \/ Lists \/ Writes \/ Models \/ Crash \/ Quit
             \/ (\E b \in Custom : Add(b)) \/ UNCHANGED vars
      PROVE  Marking'
  <2>1. UNCHANGED <<version, dir>> /\ (UNCHANGED <<at, io>> \/ io' = "none")
    BY <1>6 DEF Boot, PluginsDone, MarketDone, Lists, Writes, Models, Crash, Quit, Add, vars
  <2> QED
    BY <2>1 DEF MarkedIsWhole, WholeAndCurrent, Shipped
<1> QED
  BY <1>1, <1>2, <1>3, <1>4, <1>5, <1>6, Steps

--------------------------------------------------------------------------------
(* The walk over the directories *)

LEMMA WalkingInit == Init => Walking
BY DEF Init, Walking

(* A step on the disk changes the one directory being replaced, which is     *)
(* still on the list.                                                        *)
LEMMA WalkingStep == TypeOK /\ Walking /\ [Next]_vars => Walking'
<1> SUFFICES ASSUME TypeOK, Walking, [Next]_vars PROVE Walking'
  OBVIOUS
<1> USE ProvisioningAssumption DEF Walking, TypeOK, Shipped, walk, disk
<1>1. ASSUME Boot PROVE Walking'
  BY <1>1 DEF Boot
<1>2. ASSUME NEW t \in Targets, Looks(t) PROVE Walking'
  BY <1>2 DEF Looks, Stale
<1>3. ASSUME Removes \/ Copies PROVE Walking'
  <2>1. /\ at \in todo /\ UNCHANGED <<pc, todo, at>>
        /\ \A t \in Targets \ {at} : dir'[t] = dir[t]
    BY <1>3 DEF Removes, Copies, Changed
  <2>2. CASE pc = "plugins"
    <3>1. \A p \in Plugins \ todo : dir'[p] = dir[p]
      BY <2>1 DEF Targets
    <3> QED
      BY <1>3, <2>1, <2>2, <3>1 DEF Removes, Copies
  <2>3. CASE pc = "market"
    <3>1. \A p \in Plugins : dir'[p] = dir[p]
      BY <2>1, <2>3 DEF Targets
    <3> QED
      BY <1>3, <2>1, <2>3, <3>1 DEF Removes, Copies
  <2> QED
    BY <2>1, <2>2, <2>3
<1>4. ASSUME Marks PROVE Walking'
  <2>1. /\ at \in todo /\ UNCHANGED <<version, pc>> /\ todo' = todo \ {at} /\ io' = "none"
        /\ dir'[at].mark = Prints[at][version]
        /\ \A t \in Targets \ {at} : dir'[t] = dir[t]
    BY <1>4 DEF Marks, Changed
  <2>2. CASE pc = "plugins"
    BY <2>1, <2>2 DEF Targets
  <2>3. CASE pc = "market"
    BY <2>1, <2>3 DEF Targets
  <2> QED
    BY <2>1, <2>2, <2>3
<1>5. ASSUME PluginsDone \/ MarketDone PROVE Walking'
  BY <1>5 DEF PluginsDone, MarketDone
<1>6. ASSUME Lists \/ Writes PROVE Walking'
  BY <1>6 DEF Lists, Writes
<1>7. ASSUME Models PROVE Walking'
  BY <1>7 DEF Models
<1>8. ASSUME Crash \/ Quit PROVE Walking'
  BY <1>8 DEF Crash, Quit
<1>9. ASSUME NEW v \in 1..MaxVersion, Install(v) PROVE Walking'
  BY <1>9 DEF Install
<1>10. ASSUME NEW b \in Custom, Add(b) PROVE Walking'
  BY <1>10 DEF Add
<1>11. CASE UNCHANGED vars
  BY <1>11 DEF vars
<1> QED
  BY <1>1, <1>2, <1>3, <1>4, <1>5, <1>6, <1>7, <1>8, <1>9, <1>10, <1>11, Steps

--------------------------------------------------------------------------------
(* The bundle list *)

LEMMA ListingInit == Init => Listing
<1> SUFFICES ASSUME Init PROVE Listing
  OBVIOUS
<1>1. pc = "off" /\ torn = FALSE /\ added = manifest
  BY DEF Init
<1> QED
  BY <1>1 DEF Listing

LEMMA ListingStep == TypeOK /\ Listing /\ [Next]_vars => Listing'
<1> SUFFICES ASSUME TypeOK, Listing, [Next]_vars PROVE Listing'
  OBVIOUS
<1> USE DEF Listing
<1>1. ASSUME Lists PROVE Listing'
  <2>1. CASE Plugins \subseteq Parsed
    <3>1. ~torn
      BY <2>1 DEF Parsed
    <3> QED
      BY <1>1, <2>1, <3>1 DEF Lists, Parsed, profile
  <2>2. CASE ~(Plugins \subseteq Parsed)
    BY <1>1, <2>2 DEF Lists, Listed, Parsed
  <2> QED
    BY <2>1, <2>2
<1>2. ASSUME Writes PROVE Listing'
  BY <1>2 DEF Writes
<1>3. ASSUME Models PROVE Listing'
  BY <1>3 DEF Models, profile
<1>4. ASSUME Crash PROVE Listing'
  <2>1. crashes \in Nat /\ crashes' = crashes + 1 /\ pc' = "off" /\ UNCHANGED torn
    BY <1>4, ProvisioningAssumption DEF Crash, TypeOK
  <2>2. crashes' # 0
    BY <2>1
  <2> QED
    BY <2>1, <2>2
<1>5. ASSUME NEW b \in Custom, Add(b) PROVE Listing'
  BY <1>5 DEF Add, walk
<1>6. ASSUME \/ Boot \/ PluginsDone \/ MarketDone \/ Quit \/ (\E v \in 1..MaxVersion : Install(v))
      PROVE  Listing'
  BY <1>6 DEF Boot, PluginsDone, MarketDone, Quit, Install, walk, disk, profile
<1>7. ASSUME \/ (\E t \in Targets : Looks(t)) \/ Removes \/ Copies \/ Marks \/ UNCHANGED vars
      PROVE  Listing'
  BY <1>7 DEF Looks, Removes, Copies, Marks, vars, walk, disk, profile
<1> QED
  BY <1>1, <1>2, <1>3, <1>4, <1>5, <1>6, <1>7, Steps

--------------------------------------------------------------------------------
(* Theorems *)

(* What a start works out does not depend on the versions that were here     *)
(* before it.                                                                *)
LEMMA Walked == Spec => [](TypeOK /\ Walking /\ Listing)
BY TypeInit, TypeStep, WalkingInit, WalkingStep, ListingInit, ListingStep, PTL DEF Spec

(* Without a crash no start loses a bundle the user has added to the web     *)
(* profile, whatever versions are installed and in whatever order            *)
(* (ensureBuiltinPlugins in backend.js).                                  *)
THEOREM UserBundlesSafe == Spec => []BundlesSafe
<1>1. Listing => BundlesSafe
  BY DEF Listing, BundlesSafe, Parsed
<1> QED
  BY <1>1, Walked, PTL

(* As long as versions only go up and no fingerprint comes back, a directory *)
(* that carries the shipped fingerprint is a whole copy of a release with    *)
(* that fingerprint at every point a crash may leave it at, the backend      *)
(* starts on such directories only, with every built-in bundle listed, and   *)
(* nothing the user has listed is lost without a crash.  What a fingerprint  *)
(* covers is left open: two versions may ship different files under one.     *)
THEOREM ProvisioningIsSafe ==
  ASSUME ~Rollbacks, NothingReturns
  PROVE  Spec => []ProvisionSafe
<1>1. TypeOK /\ Walking /\ Marking /\ [Next]_vars => Marking'
  BY MarkingStep
<1>2. Walking /\ Marking /\ Listing => ReadyIsCurrent
  <2> SUFFICES ASSUME Walking, Marking, Listing, pc = "ready"
               PROVE  /\ \A t \in Targets : dir[t].mark = Shipped(t) /\ WholeAndCurrent(t)
                      /\ ~torn /\ Plugins \subseteq manifest
    BY DEF ReadyIsCurrent
  <2>1. ~torn /\ Plugins \subseteq manifest
    BY DEF Listing
  <2>2. \A t \in Targets : dir[t].mark = Shipped(t)
    BY DEF Walking, Targets
  <2> QED
    BY <2>1, <2>2 DEF Marking, MarkedIsWhole
<1>3. Marking => MarkedIsWhole
  BY DEF Marking
<1>4. Spec => []Marking
  BY <1>1, MarkingInit, Walked, PTL DEF Spec
<1> QED
  BY <1>2, <1>3, <1>4, Walked, UserBundlesSafe, PTL DEF ProvisionSafe
--------------------------------------------------------------------------------
(* The shell *)

(* A process is spawned at the start and for each restart that has fired. *)
Numbered ==
  /\ child \in Nat /\ spawned \in Nat /\ restartCount \in Nat /\ child <= spawned
  /\ restartCount <= MaxRestarts /\ spawned <= restartCount + 1
  /\ timer => spawned <= restartCount
  /\ \A p \in alive \union exited \union killed : p \in 1..spawned
  /\ app = "off" => spawned = 0 /\ ~timer

Flagged ==
  /\ app \in {"off", "starting", "up", "quitting", "gone"}
  /\ stopping \in BOOLEAN /\ timer \in BOOLEAN /\ stopped \in BOOLEAN
  /\ window \in BOOLEAN /\ abnormal \in BOOLEAN /\ rebuild \in BOOLEAN
  /\ unopened \in BOOLEAN /\ failures \in 0..MaxAbnormal

(* No process but the last one spawned is left, and none while a restart is *)
(* pending: its exit event is what arms the restart.                        *)
Alone ==
  /\ alive \union exited \subseteq {spawned}
  /\ alive \intersect exited = {}
  /\ timer => alive = {} /\ exited = {}

Tracked == app # "gone" => \A p \in alive : p = child \/ p \in killed

ShellInv == Numbered /\ Flagged /\ Alone /\ Tracked

LEMMA ShellSteps ==
  ASSUME Shell!Next \/ UNCHANGED shellVars
  PROVE  \/ Shell!Start \/ Shell!Restart
         \/ \E p \in Shell!Processes : Shell!ProcessEnds(p)
         \/ \E p \in Shell!Processes : Shell!OnExit(p)
         \/ Shell!Ready \/ Shell!RendererFails \/ Shell!AbnormalExpires \/ Shell!RebuildWindow
         \/ Shell!RebuildFails \/ Shell!ReadyFails \/ Shell!WindowCloses \/ Shell!Quit
         \/ Shell!AppExits
         \/ UNCHANGED shellVars
BY DEF Shell!Next

LEMMA FlaggedStep ==
  ASSUME Flagged, Shell!Next \/ UNCHANGED shellVars
  PROVE  Flagged'
<1>1. CASE Shell!Start \/ Shell!Restart
  BY <1>1 DEF Flagged, Shell!Start, Shell!Restart, Shell!Boot, Shell!TimerLeft, Shell!windowVars
<1>2. CASE \E p \in Shell!Processes : Shell!ProcessEnds(p)
  BY <1>2 DEF Flagged, Shell!ProcessEnds, Shell!windowVars
<1>3. CASE \E p \in Shell!Processes : Shell!OnExit(p)
  BY <1>3 DEF Flagged, Shell!OnExit, Shell!windowVars
<1>4. CASE \/ Shell!Ready \/ Shell!RendererFails \/ Shell!AbnormalExpires \/ Shell!RebuildWindow
           \/ Shell!RebuildFails
  <2>1. failures' \in 0..MaxAbnormal
    BY <1>4, ShellBounds DEF Flagged, Shell!Ready, Shell!RendererFails, Shell!AbnormalExpires,
                             Shell!RebuildWindow, Shell!RebuildFails, Shell!ShellAssumption
  <2> QED
    BY <1>4, <2>1 DEF Flagged, Shell!Ready, Shell!RendererFails, Shell!AbnormalExpires,
                      Shell!RebuildWindow, Shell!RebuildFails, Shell!backendVars
<1>5. CASE Shell!ReadyFails \/ Shell!WindowCloses \/ Shell!Quit
  BY <1>5 DEF Flagged, Shell!ReadyFails, Shell!WindowCloses, Shell!Quit, Shell!QuitAndStop,
              Shell!Reopens, Shell!windowVars, Shell!backendVars
<1>6. CASE Shell!AppExits
  BY <1>6 DEF Flagged, Shell!AppExits
<1>7. CASE UNCHANGED shellVars
  BY <1>7 DEF Flagged, shellVars
<1> QED
  BY ShellSteps, <1>1, <1>2, <1>3, <1>4, <1>5, <1>6, <1>7

LEMMA ShellInvStep ==
  ASSUME ShellInv, Shell!Next \/ UNCHANGED shellVars
  PROVE  ShellInv'
<1> USE DEF ShellInv
<1>0. /\ spawned \in Nat /\ restartCount \in Nat /\ child \in Nat
      /\ app \in {"off", "starting", "up", "quitting", "gone"} /\ MaxRestarts \in Nat
  BY ShellBounds DEF Shell!ShellAssumption, Numbered, Flagged
<1>1. CASE Shell!Start \/ Shell!Restart
  <2>1. /\ app' \in {"starting", "up", "quitting"} /\ ~timer' /\ restartCount' = restartCount
        /\ spawned' = spawned + 1 /\ child' = spawned + 1
        /\ alive' = alive \union {spawned + 1} /\ exited' = exited /\ killed' = killed
        /\ timer \/ app = "off"
    BY <1>0, <1>1 DEF Shell!Start, Shell!Restart, Shell!Boot, Shell!TimerLeft, Shell!Running,
                      Shell!windowVars, Numbered
  <2>2. alive = {} /\ exited = {} /\ spawned <= restartCount
    <3>1. CASE timer
      BY <3>1 DEF Numbered, Alone
    <3>2. CASE app = "off"
      <4>1. spawned = 0
        BY <3>2 DEF Numbered
      <4>2. \A p \in alive \union exited : FALSE
        BY <4>1 DEF Numbered
      <4> QED
        BY <1>0, <4>1, <4>2
    <3> QED
      BY <2>1, <3>1, <3>2
  <2>3. Numbered'
    <3>1. \A p \in alive' \union exited' \union killed' : p \in 1..spawned'
      BY <1>0, <2>1, <2>2 DEF Numbered
    <3> QED
      BY <1>0, <2>1, <2>2, <3>1 DEF Numbered
  <2> QED
    BY <2>1, <2>2, <2>3, FlaggedStep DEF Alone, Tracked
<1>2. ASSUME NEW p \in Shell!Processes, Shell!ProcessEnds(p)
      PROVE  ShellInv'
  <2>1. /\ p \in alive /\ alive' = alive \ {p} /\ exited' = exited \union {p}
        /\ UNCHANGED <<app, child, restartCount, timer, spawned, killed>>
    BY <1>2 DEF Shell!ProcessEnds
  <2>2. alive' \union exited' = alive \union exited
    BY <2>1
  <2>3. Numbered'
    BY <2>1, <2>2 DEF Numbered
  <2> QED
    BY <2>1, <2>3, FlaggedStep DEF Alone, Tracked
<1>3. ASSUME NEW p \in Shell!Processes, Shell!OnExit(p)
      PROVE  ShellInv'
  <2>1. /\ app' = app /\ app # "off" /\ app # "gone" /\ p \in exited /\ exited' = exited \ {p}
        /\ child' = 0 /\ UNCHANGED <<spawned, alive, killed>>
        /\ \/ restartCount < MaxRestarts /\ restartCount' = restartCount + 1 /\ timer' = TRUE
           \/ restartCount' = restartCount /\ timer' = timer
    BY <1>3 DEF Shell!OnExit, Shell!MayRestart, Shell!Running, Shell!Null
  <2>2. alive = {} /\ exited' = {} /\ ~timer
    BY <2>1 DEF Alone
  <2>3. Numbered'
    BY <1>0, <2>1, <2>2 DEF Numbered
  <2> QED
    BY <2>1, <2>2, <2>3, FlaggedStep DEF Alone, Tracked
<1>4. CASE \/ Shell!Ready \/ Shell!RendererFails \/ Shell!AbnormalExpires \/ Shell!RebuildWindow
           \/ Shell!RebuildFails \/ Shell!AppExits \/ UNCHANGED shellVars
  <2>1. /\ UNCHANGED <<child, restartCount, spawned, alive, exited, killed>>
        /\ timer' = timer \/ ~timer'
        /\ app' = app \/ app' = "gone" \/ (app = "starting" /\ app' = "up")
    BY <1>4 DEF Shell!Ready, Shell!RendererFails, Shell!AbnormalExpires, Shell!RebuildWindow,
                Shell!RebuildFails, Shell!AppExits, Shell!backendVars, shellVars
  <2> QED
    BY <2>1, FlaggedStep DEF Numbered, Alone, Tracked
<1>5. CASE Shell!ReadyFails \/ Shell!WindowCloses \/ Shell!Quit
  <2>1. /\ app \in {"starting", "up"} /\ app' \in {app, "quitting"}
        /\ UNCHANGED <<spawned, alive, restartCount, timer, exited>>
        /\ \/ child' = child /\ killed' = killed
           \/ child' = 0 /\ killed' = killed \union ({child} \ {0})
    BY <1>5 DEF Shell!ReadyFails, Shell!WindowCloses, Shell!Quit, Shell!QuitAndStop, Shell!Up,
                Shell!Kills, Shell!Null, Shell!backendVars
  <2>2. Numbered'
    <3>1. \A p \in killed' : p \in 1..spawned
      BY <1>0, <2>1 DEF Numbered
    <3> QED
      BY <1>0, <2>1, <3>1 DEF Numbered
  <2>3. Tracked'
    <3>1. \A p \in alive : p # 0
      BY <1>0 DEF Numbered
    <3> QED
      BY <2>1, <3>1 DEF Tracked
  <2> QED
    BY <2>1, <2>2, <2>3, FlaggedStep DEF Alone
<1> QED
  BY ShellSteps, <1>1, <1>2, <1>3, <1>4, <1>5

LEMMA ShellInit == Shell!Init => ShellInv
<1> SUFFICES ASSUME Shell!Init PROVE ShellInv
  OBVIOUS
<1>1. Numbered /\ Alone /\ Tracked
  BY ShellBounds DEF Shell!Init, Shell!Null, Shell!ShellAssumption, Numbered, Alone, Tracked
<1>2. Flagged
  <2>1. 0 \in 0..MaxAbnormal
    BY ShellBounds DEF Shell!ShellAssumption
  <2>2. FALSE \in BOOLEAN
    OBVIOUS
  <2> QED
    BY <2>1, <2>2, Zenon DEF Shell!Init, Flagged
<1> QED
  BY <1>1, <1>2 DEF ShellInv

LEMMA ShellCounts == \A S : Shell!Cardinality(S) = Cardinality(S)
BY DEF Shell!Cardinality, Cardinality, Shell!IsFiniteSet, IsFiniteSet

LEMMA ShellIsSafe == ShellInv => Shell!ShellSafe
<1> SUFFICES ASSUME ShellInv PROVE Shell!ShellSafe
  OBVIOUS
<1>1. Shell!OneBackend
  <2>1. IsFiniteSet({spawned}) /\ Cardinality({spawned}) = 1
    BY FS_Singleton
  <2>2. alive \subseteq {spawned}
    BY DEF ShellInv, Alone
  <2>3. Cardinality(alive) <= 1
    BY <2>1, <2>2, FS_Subset
  <2> QED
    BY <2>3, ShellCounts DEF Shell!OneBackend
<1>2. Shell!NoUntrackedBackend
  BY DEF ShellInv, Tracked, Shell!NoUntrackedBackend, Shell!Running
<1>3. Shell!TypeOK
  <2>1. /\ child \in 0..spawned /\ spawned \in 0..(MaxRestarts + 1)
        /\ restartCount \in 0..MaxRestarts
    BY ShellBounds DEF ShellInv, Numbered, Shell!ShellAssumption
  <2>2. alive \subseteq 1..spawned /\ exited \subseteq 1..spawned /\ killed \subseteq 1..spawned
    BY DEF ShellInv, Numbered
  <2> QED
    BY <2>1, <2>2 DEF ShellInv, Flagged, Shell!TypeOK
<1> QED
  BY <1>1, <1>2, <1>3 DEF Shell!ShellSafe

(* Whatever crashes, exits, restarts, renderer failures and quits interleave: *)
(* two backends never share a port and a $DSH_HOME, and the shell holds or    *)
(* has killed every backend that runs: the run's ShellHolds, for any number   *)
(* of restarts and failures.                                                  *)
THEOREM ShellAlwaysHolds == MCSpec => []ShellHolds
<1>1. MCInit => ShellInv
  BY ShellInit DEF MCInit
<1>2. ShellInv /\ [MCNext]_<<part, vars, shellVars, knowledgeVars, skillVars>> => ShellInv'
  BY ShellInvStep DEF MCNext
<1>3. ShellInv => ShellHolds
  BY ShellIsSafe DEF ShellHolds
<1> QED
  BY <1>1, <1>2, <1>3, PTL DEF MCSpec

--------------------------------------------------------------------------------
(* The skill market *)

(* The calls under way or ended: an install or an uninstall of a skill. *)
CallsOf(v) == [kind : Skills!Kinds, name : Names, stage : Skills!Stages, from : 1..v]

MarketTyping ==
  /\ market \in 1..MarketVersions /\ skillDir \in [Names -> SUBSET Skills!Files]
  /\ stops \in 0..MaxStops
  /\ op \in CallsOf(market) \union {Skills!Idle} /\ done \in CallsOf(market) \union {Skills!Idle}
  /\ op # Skills!Idle => done = Skills!Idle

(* A call works from what its removal left: nothing of what was there before *)
(* is left once the copy begins, and a folder of the user's is theirs alone. *)
Replacing ==
  /\ op # Skills!Idle /\ op.stage = "copy" => skillDir[op.name] \subseteq Skills!Package(op.from)
  /\ op # Skills!Idle /\ op.stage = "mark" => skillDir[op.name] = Skills!Package(op.from)
  /\ op # Skills!Idle /\ op.kind = "uninstall" =>
       op.stage = "remove" /\ Skills!Own \notin skillDir[op.name]
  /\ \A n \in Names : Skills!Own \in skillDir[n] => skillDir[n] = {Skills!Own}

MarketInv == MarketTyping /\ Replacing /\ Skills!InstallReplaces

(* No call is the absence of one, and a later edition knows the earlier ones. *)
LEMMA CallShapes ==
  /\ \A v : \A c \in CallsOf(v) :
       /\ c # Skills!Idle /\ c.kind \in Skills!Kinds /\ c.name \in Names
       /\ c.stage \in Skills!Stages /\ c.from \in 1..v
  /\ market \in Nat => CallsOf(market) \subseteq CallsOf(market + 1)
<1>1. ASSUME NEW v, NEW c \in CallsOf(v)
      PROVE  /\ c # Skills!Idle /\ c.kind \in Skills!Kinds /\ c.name \in Names
             /\ c.stage \in Skills!Stages /\ c.from \in 1..v
  <2>1. /\ c.kind \in Skills!Kinds /\ c.name \in Names
        /\ c.stage \in Skills!Stages /\ c.from \in 1..v
    BY DEF CallsOf
  <2>2. Skills!Idle.kind = "none" /\ "none" \notin Skills!Kinds
    BY DEF Skills!Idle, Skills!Kinds
  <2> QED
    BY <2>1, <2>2
<1>2. market \in Nat => CallsOf(market) \subseteq CallsOf(market + 1)
  BY DEF CallsOf
<1> QED
  BY <1>1, <1>2

(* The user's file is in no package, and packages and marker are files. *)
LEMMA FileShapes ==
  /\ \A v : Skills!Own \notin Skills!Package(v) /\ Skills!Own # Skills!Marker
  /\ \A v \in 1..MarketVersions : Skills!Package(v) \subseteq Skills!Files
  /\ Skills!Own \in Skills!Files /\ Skills!Marker \in Skills!Files
BY DEF Skills!Own, Skills!Marker, Skills!Package, Skills!SkillFile, Skills!Files

LEMMA MarketSteps ==
  ASSUME Skills!Next \/ UNCHANGED skillVars
  PROVE  \/ \E n \in Names : Skills!Install(n)
         \/ \E n \in Names : Skills!Uninstall(n)
         \/ \E n \in Names : Skills!UserMakes(n)
         \/ Skills!RemoveFile \/ Skills!Removed \/ Skills!CopyFile \/ Skills!Copied
         \/ Skills!Mark \/ Skills!Stopped \/ Skills!Refreshed \/ UNCHANGED skillVars
BY DEF Skills!Next

LEMMA MarketInvStep ==
  ASSUME MarketInv, Skills!Next \/ UNCHANGED skillVars
  PROVE  MarketInv'
<1> USE DEF MarketInv
<1>0. /\ market \in Nat /\ market \in 1..MarketVersions /\ MarketVersions \in Nat
      /\ MaxStops \in Nat /\ stops \in 0..MaxStops
      /\ skillDir \in [Names -> SUBSET Skills!Files]
      /\ op # Skills!Idle => /\ op \in CallsOf(market) /\ op.kind \in Skills!Kinds
                             /\ op.name \in Names /\ op.stage \in Skills!Stages
                             /\ op.from \in 1..market /\ done = Skills!Idle
      /\ done # Skills!Idle => done \in CallsOf(market) /\ done.name \in Names
  BY SkillBounds, CallShapes DEF MarketTyping, Skills!BoundsAssumption
<1>1. ASSUME NEW n \in Names, Skills!Install(n) \/ Skills!Uninstall(n)
      PROVE  MarketInv'
  <2>1. PICK kind \in Skills!Kinds :
          /\ op' = [kind |-> kind, name |-> n, stage |-> "remove", from |-> market]
          /\ kind = "uninstall" => Skills!Managed(n)
    BY <1>1 DEF Skills!Install, Skills!Uninstall, Skills!Kinds
  <2>2. /\ op = Skills!Idle /\ done' = Skills!Idle /\ market' = market /\ skillDir' = skillDir
        /\ stops' = stops
    BY <1>1 DEF Skills!Install, Skills!Uninstall
  <2>3. op' \in CallsOf(market)
    BY <1>0, <2>1 DEF CallsOf, Skills!Stages
  <2>4. /\ op'.kind = kind /\ op'.name = n /\ op'.stage = "remove"
        /\ op' # Skills!Idle
    BY <2>1, <2>3, CallShapes
  <2>5. kind = "uninstall" => Skills!Own \notin skillDir[n]
    BY <2>1, FileShapes DEF Replacing, Skills!Managed
  <2>6. MarketTyping'
    BY <2>2, <2>3 DEF MarketTyping
  <2>7. Replacing'
    BY <2>2, <2>4, <2>5 DEF Replacing
  <2> QED
    BY <2>2, <2>6, <2>7 DEF Skills!InstallReplaces
<1>2. ASSUME NEW n \in Names, Skills!UserMakes(n)
      PROVE  MarketInv'
  <2>1. /\ op = Skills!Idle /\ done' = Skills!Idle /\ UNCHANGED <<market, op, stops>>
        /\ skillDir' = [skillDir EXCEPT ![n] = {Skills!Own}] \/ skillDir' = [skillDir EXCEPT ![n] = {}]
    BY <1>2 DEF Skills!UserMakes
  <2>2. skillDir' \in [Names -> SUBSET Skills!Files]
    BY <1>0, <2>1, FileShapes
  <2>3. \A m \in Names : Skills!Own \in skillDir'[m] => skillDir'[m] = {Skills!Own}
    BY <1>0, <2>1 DEF Replacing
  <2> QED
    BY <2>1, <2>2, <2>3 DEF MarketTyping, Replacing, Skills!InstallReplaces
<1>3. CASE Skills!RemoveFile
  <2>1. PICK f \in skillDir[op.name] : skillDir' = [skillDir EXCEPT ![op.name] = @ \ {f}]
    BY <1>3 DEF Skills!RemoveFile
  <2>2. op # Skills!Idle /\ op.stage = "remove" /\ UNCHANGED <<market, op, done, stops>>
    BY <1>3 DEF Skills!RemoveFile
  <2>3. skillDir' \in [Names -> SUBSET Skills!Files]
    BY <1>0, <2>1, <2>2
  <2>4. \A m \in Names : Skills!Own \in skillDir'[m] => skillDir'[m] = {Skills!Own}
    BY <1>0, <2>1, <2>2 DEF Replacing
  <2>5. op.kind = "uninstall" => Skills!Own \notin skillDir'[op.name]
    BY <1>0, <2>1, <2>2 DEF Replacing
  <2>6. MarketTyping'
    BY <2>2, <2>3 DEF MarketTyping
  <2>7. Replacing'
    BY <2>2, <2>4, <2>5 DEF Replacing
  <2> QED
    BY <1>0, <2>2, <2>6, <2>7 DEF Skills!InstallReplaces
<1>4. CASE Skills!Removed
  <2>1. /\ op # Skills!Idle /\ op.stage = "remove" /\ skillDir[op.name] = {}
        /\ UNCHANGED <<market, skillDir, stops>>
        /\ \/ op.kind = "install" /\ op' = [op EXCEPT !.stage = "copy"] /\ done' = done
           \/ op.kind # "install" /\ op' = Skills!Idle /\ done' = op
    BY <1>4 DEF Skills!Removed
  <2>2. CASE op.kind = "install"
    <3>1. op' \in CallsOf(market) /\ op'.stage = "copy" /\ op'.name = op.name
          /\ op'.kind = "install"
      BY <1>0, <2>1, <2>2 DEF CallsOf, Skills!Stages
    <3>2. MarketTyping'
      BY <1>0, <2>1, <2>2, <3>1 DEF MarketTyping
    <3>3. Replacing'
      BY <2>1, <3>1 DEF Replacing
    <3> QED
      BY <1>0, <2>1, <2>2, <3>2, <3>3 DEF Skills!InstallReplaces
  <2>3. CASE op.kind # "install"
    <3>1. MarketTyping'
      BY <1>0, <2>1, <2>3 DEF MarketTyping
    <3>2. Replacing'
      BY <2>1, <2>3 DEF Replacing
    <3> QED
      BY <2>1, <2>3, <3>1, <3>2 DEF Skills!InstallReplaces
  <2> QED
    BY <2>2, <2>3
<1>5. CASE Skills!CopyFile
  <2>1. PICK f \in Skills!Package(op.from) : skillDir' = [skillDir EXCEPT ![op.name] = @ \union {f}]
    BY <1>5 DEF Skills!CopyFile
  <2>2. op # Skills!Idle /\ op.stage = "copy" /\ UNCHANGED <<market, op, done, stops>>
    BY <1>5 DEF Skills!CopyFile
  <2>3. f \in Skills!Files /\ f # Skills!Own
    <3>1. op.from \in 1..MarketVersions
      BY <1>0, <2>2
    <3> QED
      BY <2>1, <3>1, FileShapes
  <2>4. skillDir' \in [Names -> SUBSET Skills!Files]
    BY <1>0, <2>1, <2>2, <2>3
  <2>5. skillDir'[op.name] \subseteq Skills!Package(op.from)
    BY <1>0, <2>1, <2>2 DEF Replacing
  <2>6. \A m \in Names : Skills!Own \in skillDir'[m] => skillDir'[m] = {Skills!Own}
    <3> SUFFICES ASSUME NEW m \in Names, Skills!Own \in skillDir'[m]
                 PROVE  skillDir'[m] = {Skills!Own}
      OBVIOUS
    <3>1. m # op.name
      BY <2>5, FileShapes
    <3> QED
      BY <1>0, <2>1, <3>1 DEF Replacing
  <2>7. op.kind # "uninstall"
    BY <2>2 DEF Replacing
  <2>8. MarketTyping'
    BY <2>2, <2>4 DEF MarketTyping
  <2>9. Replacing'
    BY <2>2, <2>5, <2>6, <2>7 DEF Replacing
  <2> QED
    BY <1>0, <2>2, <2>8, <2>9 DEF Skills!InstallReplaces
<1>6. CASE Skills!Copied
  <2>1. /\ op # Skills!Idle /\ op.stage = "copy" /\ Skills!Package(op.from) \subseteq skillDir[op.name]
        /\ op' = [op EXCEPT !.stage = "mark"] /\ UNCHANGED <<market, skillDir, done, stops>>
    BY <1>6 DEF Skills!Copied
  <2>2. /\ op' \in CallsOf(market) /\ op'.stage = "mark" /\ op'.name = op.name
        /\ op'.kind = op.kind /\ op'.from = op.from
    BY <1>0, <2>1 DEF CallsOf, Skills!Stages
  <2>3. skillDir[op.name] = Skills!Package(op.from) /\ op.kind # "uninstall"
    BY <2>1 DEF Replacing
  <2>4. MarketTyping'
    BY <1>0, <2>1, <2>2 DEF MarketTyping
  <2>5. Replacing'
    BY <2>1, <2>2, <2>3 DEF Replacing
  <2> QED
    BY <1>0, <2>1, <2>4, <2>5 DEF Skills!InstallReplaces
<1>7. CASE Skills!Mark
  <2>1. /\ op # Skills!Idle /\ op.stage = "mark" /\ op' = Skills!Idle /\ done' = op
        /\ skillDir' = [skillDir EXCEPT ![op.name] = @ \union {Skills!Marker}]
        /\ UNCHANGED <<market, stops>>
    BY <1>7 DEF Skills!Mark
  <2>2. skillDir' \in [Names -> SUBSET Skills!Files]
    BY <1>0, <2>1, FileShapes
  <2>3. skillDir'[op.name] = Skills!Package(op.from) \union {Skills!Marker}
    BY <1>0, <2>1 DEF Replacing
  <2>4. \A m \in Names : Skills!Own \in skillDir'[m] => skillDir'[m] = {Skills!Own}
    <3> SUFFICES ASSUME NEW m \in Names, Skills!Own \in skillDir'[m]
                 PROVE  skillDir'[m] = {Skills!Own}
      OBVIOUS
    <3>1. m # op.name
      BY <2>3, FileShapes
    <3> QED
      BY <1>0, <2>1, <3>1 DEF Replacing
  <2>5. MarketTyping'
    BY <1>0, <2>1, <2>2 DEF MarketTyping
  <2>6. Replacing'
    BY <2>1, <2>4 DEF Replacing
  <2> QED
    BY <2>1, <2>3, <2>5, <2>6 DEF Skills!InstallReplaces
<1>8. CASE Skills!Stopped
  <2>1. /\ op' = Skills!Idle /\ stops' = stops + 1 /\ stops < MaxStops
        /\ UNCHANGED <<market, skillDir, done>>
    BY <1>8 DEF Skills!Stopped
  <2> QED
    BY <1>0, <2>1 DEF MarketTyping, Replacing, Skills!InstallReplaces
<1>9. CASE Skills!Refreshed
  <2>1. /\ op = Skills!Idle /\ market < MarketVersions /\ market' = market + 1
        /\ UNCHANGED <<skillDir, op, done, stops>>
    BY <1>9 DEF Skills!Refreshed
  <2>2. CallsOf(market) \subseteq CallsOf(market') /\ market' \in 1..MarketVersions
    BY <1>0, <2>1, CallShapes
  <2> QED
    BY <2>1, <2>2 DEF MarketTyping, Replacing, Skills!InstallReplaces
<1>10. CASE UNCHANGED skillVars
  BY <1>10 DEF skillVars, MarketTyping, Replacing, Skills!InstallReplaces
<1> QED
  BY MarketSteps, <1>1, <1>2, <1>3, <1>4, <1>5, <1>6, <1>7, <1>8, <1>9, <1>10

LEMMA MarketInit == Skills!Init => MarketInv
<1> SUFFICES ASSUME Skills!Init PROVE MarketInv
  OBVIOUS
<1>1. /\ market = 1 /\ skillDir \in [Names -> {{}, {Skills!Own}}] /\ op = Skills!Idle
      /\ done = Skills!Idle /\ stops = 0
  BY DEF Skills!Init
<1>2. 1 \in 1..MarketVersions /\ 0 \in 0..MaxStops
  BY SkillBounds DEF Skills!BoundsAssumption
<1>3. skillDir \in [Names -> SUBSET Skills!Files]
  BY <1>1, FileShapes
<1> QED
  BY <1>1, <1>2, <1>3 DEF MarketInv, MarketTyping, Replacing, Skills!InstallReplaces

LEMMA MarketIsSafe == MarketInv => Skills!MarketSafe
<1> SUFFICES ASSUME MarketInv PROVE Skills!MarketSafe
  OBVIOUS
<1>1. Skills!TypeOK
  <2>1. \A c \in {op, done} : c # Skills!Idle =>
          /\ c.kind \in Skills!Kinds /\ c.name \in Names
          /\ c.stage \in Skills!Stages /\ c.from \in 1..market
    BY CallShapes DEF MarketInv, MarketTyping
  <2> QED
    BY <2>1 DEF MarketInv, MarketTyping, Skills!TypeOK
<1> QED
  BY <1>1 DEF MarketInv, Skills!MarketSafe

LEMMA OwnSkillsKept ==
  ASSUME MarketInv, Skills!Next \/ UNCHANGED skillVars, NEW n \in Names,
         Skills!Own \in skillDir[n], Skills!Own \notin skillDir'[n], op # Skills!Idle
  PROVE  op.kind = "install"
<1>1. CASE Skills!RemoveFile
  <2>1. n = op.name
    BY <1>1 DEF Skills!RemoveFile, MarketInv, MarketTyping
  <2> QED
    BY <2>1, CallShapes DEF MarketInv, MarketTyping, Replacing, Skills!Kinds
<1>2. CASE Skills!CopyFile \/ Skills!Mark
  <2>1. n \in DOMAIN skillDir
    BY DEF MarketInv, MarketTyping
  <2> QED
    BY <1>2, <2>1 DEF Skills!CopyFile, Skills!Mark
<1>3. CASE \/ \E m \in Names : Skills!Install(m) \/ Skills!Uninstall(m) \/ Skills!UserMakes(m)
           \/ Skills!Removed \/ Skills!Copied \/ Skills!Stopped \/ Skills!Refreshed
           \/ UNCHANGED skillVars
  BY <1>3 DEF Skills!Install, Skills!Uninstall, Skills!UserMakes, Skills!Removed, Skills!Copied,
              Skills!Stopped, Skills!Refreshed, skillVars
<1> QED
  BY MarketSteps, <1>1, <1>2, <1>3

LEMMA StopStands ==
  ASSUME Shell!Next \/ UNCHANGED shellVars, stopping, ~timer
  PROVE  ~timer' /\ (spawned' = spawned \/ app = "off")
<1>1. CASE Shell!Start \/ Shell!Restart
  BY <1>1 DEF Shell!Start, Shell!Restart
<1>2. CASE \E p \in Shell!Processes : Shell!ProcessEnds(p) \/ Shell!OnExit(p)
  BY <1>2 DEF Shell!ProcessEnds, Shell!OnExit, Shell!MayRestart
<1>3. CASE \/ Shell!Ready \/ Shell!RendererFails \/ Shell!AbnormalExpires \/ Shell!RebuildWindow
           \/ Shell!RebuildFails
  <2>1. timer' = timer /\ spawned' = spawned
    BY <1>3 DEF Shell!Ready, Shell!RendererFails, Shell!AbnormalExpires, Shell!RebuildWindow,
                Shell!RebuildFails, Shell!backendVars
  <2> QED
    BY <2>1, Zenon
<1>4. CASE Shell!ReadyFails \/ Shell!WindowCloses \/ Shell!Quit
  <2>1. timer' = timer /\ spawned' = spawned
    BY <1>4 DEF Shell!ReadyFails, Shell!WindowCloses, Shell!Quit, Shell!QuitAndStop,
                Shell!backendVars
  <2> QED
    BY <2>1, Zenon
<1>5. CASE UNCHANGED shellVars
  <2>1. timer' = timer /\ spawned' = spawned
    BY <1>5 DEF shellVars
  <2> QED
    BY <2>1, Zenon
<1>6. CASE Shell!AppExits
  <2>1. timer' = FALSE /\ spawned' = spawned
    BY <1>6 DEF Shell!AppExits
  <2> QED
    BY <2>1, Zenon
<1> QED
  BY ShellSteps, <1>1, <1>2, <1>3, <1>4, <1>5, <1>6

(* While the shell's stop stands no exit arms a restart, and no uninstall,   *)
(* finished or cut short, takes a skill the user made: the run's             *)
(* DesktopSteps, for any skills, editions and interrupted calls.             *)
THEOREM DesktopStepsHold == MCSpec => DesktopSteps
<1> DEFINE Stands == stopping /\ ~timer => ~timer' /\ (spawned' = spawned \/ app = "off")
           Kept == \A n \in Names :
                     Skills!Own \in skillDir[n] /\ Skills!Own \notin skillDir'[n] /\ op # Skills!Idle =>
                       op.kind = "install"
<1>1. MCInit => MarketInv
  BY MarketInit DEF MCInit
<1>2. ASSUME MarketInv, [MCNext]_<<part, vars, shellVars, knowledgeVars, skillVars>>
      PROVE  MarketInv' /\ Stands /\ Kept
  <2>1. /\ Shell!Next \/ UNCHANGED shellVars
        /\ Skills!Next \/ UNCHANGED skillVars
    BY <1>2 DEF MCNext
  <2>2. MarketInv'
    BY <1>2, <2>1, MarketInvStep
  <2>3. Stands
    BY <2>1, StopStands
  <2>4. Kept
    BY <1>2, <2>1, OwnSkillsKept
  <2> QED
    BY <2>2, <2>3, <2>4
<1>3. MCSpec => [][Stands]_Shell!vars /\ [][Kept]_Skills!vars
  BY <1>1, <1>2, PTL DEF MCSpec
<1> QED
  BY <1>3 DEF DesktopSteps, Shell!StoppedStaysDown, Skills!OwnSkillsStay

--------------------------------------------------------------------------------
(* The knowledge base                                                       *)

(* An import walks the folder in order.  Of a document ahead of it there is  *)
(* nothing; the one it is at holds the chunks embedded so far; one behind it *)
(* holds them all, unless it was deleted, then and there or since.           *)
DocTyping ==
  /\ kbModel \in BOOLEAN /\ extractor \in {"none", "loading", "ready", "failed"}
  /\ kbPc \in [Imports -> {"new", "embed", "count", "done", "failed", "dead"}]
  /\ file \in [Imports -> Folder \cup {0}] /\ seq \in [Imports -> Nat]
  /\ documents \subseteq Imports \X Folder /\ deleted \subseteq Imports \X Folder
  /\ chunks \in [Imports \X Folder -> SUBSET Nat] /\ count \in [Imports \X Folder -> Nat]
  /\ kbCrashes \in 0..ImportCrashes

AtFile(i) == kbPc[i] \in {"embed", "count"}

UnderWay ==
  \A i \in Imports :
    /\ kbPc[i] = "new" => file[i] = 0
    /\ kbPc[i] = "done" => \A f \in Folder : f > file[i] => Parts[f] = 0
    /\ kbPc[i] = "dead" => kbCrashes > 0
    /\ AtFile(i) => file[i] \in Folder /\ seq[i] <= Parts[file[i]]
    /\ kbPc[i] = "embed" => seq[i] < Parts[file[i]]
    /\ kbPc[i] = "count" => seq[i] > 0

Bounded == \A i \in Imports, f \in Folder : chunks[<<i, f>>] \subseteq 0..(Parts[f] - 1)

Ahead ==
  \A i \in Imports, f \in Folder : f > file[i] =>
    /\ <<i, f>> \notin documents /\ <<i, f>> \notin deleted
    /\ chunks[<<i, f>>] = {} /\ count[<<i, f>>] = 0

Behind ==
  \A i \in Imports, f \in Folder :
    /\ Parts[f] > 0
    /\ f < file[i] \/ (f = file[i] /\ kbPc[i] = "done")
    => \/ <<i, f>> \in deleted
       \/ <<i, f>> \in documents /\ chunks[<<i, f>>] = 0..(Parts[f] - 1)

Current ==
  \A i \in Imports : AtFile(i) =>
    \/ <<i, file[i]>> \in deleted
    \/ <<i, file[i]>> \in documents /\ chunks[<<i, file[i]>>] = 0..(seq[i] - 1)

(* A count is short of its chunks by one only while the import is between    *)
(* the two statements, or if it died there.                                  *)
Counting ==
  \A i \in Imports, f \in Folder : <<i, f>> \in documents \ deleted =>
    IF kbPc[i] = "count" /\ file[i] = f
      THEN count[<<i, f>>] + 1 = Cardinality(chunks[<<i, f>>])
      ELSE \/ count[<<i, f>>] = Cardinality(chunks[<<i, f>>])
           \/ /\ count[<<i, f>>] + 1 = Cardinality(chunks[<<i, f>>])
              /\ kbPc[i] = "dead" /\ file[i] = f

DocInv == DocTyping /\ UnderWay /\ Bounded /\ Ahead /\ Behind /\ Current /\ Counting

(* A set of natural numbers that is not empty has a least element. *)
LEMMA Least ==
  ASSUME NEW S \in SUBSET Nat, S # {}
  PROVE  \E x \in S : \A y \in S : x <= y
<1>1. \E x \in S : \A y \in S : ~ (<<y, x>> \in OpToRel(<, Nat))
  BY NatLessThanWellFounded, WFMin
<1>2. PICK x \in S : \A y \in S : ~ (<<y, x>> \in OpToRel(<, Nat))
  BY <1>1
<1>3. \A y \in S : ~ (y < x)
  BY <1>2 DEF OpToRel
<1> QED
  BY <1>3

LEMMA FolderShapes ==
  /\ \A f \in Folder : f \in Nat /\ f > 0 /\ Parts[f] \in Nat
  /\ ImportCrashes \in Nat
BY KnowledgeBounds DEF Knowledge!KnowledgeBaseAssumption

(* Every step of the knowledge base, named. *)
LEMMA DocSteps ==
  ASSUME Knowledge!Next \/ UNCHANGED knowledgeVars
  PROVE  \/ \E i \in Imports : Knowledge!Import(i) \/ Knowledge!Counts(i)
         \/ \E i \in Imports : Knowledge!Embeds(i)
         \/ \E i \in Imports : Knowledge!EmbedFails(i)
         \/ \E d \in Imports \X Folder : Knowledge!Delete(d)
         \/ Knowledge!Search \/ Knowledge!Loads \/ Knowledge!Provide
         \/ Knowledge!Crash
         \/ UNCHANGED knowledgeVars
BY DEF Knowledge!Next, Knowledge!Continues, Knowledge!Docs

(* Where an import goes once a file is done with: it ends there, takes up    *)
(* the next chunk, or the next file that has text.                           *)
Rests(i) == file' = file /\ seq' = seq /\ documents' = documents
Through(i) == kbPc[i] = "count" => seq[i] = Parts[file[i]]

Moved(i) ==
  \/ Rests(i) /\ kbPc' = [kbPc EXCEPT ![i] = "failed"]
  \/ /\ Rests(i) /\ kbPc' = [kbPc EXCEPT ![i] = "done"]
     /\ Through(i) /\ \A f \in Folder : f > file[i] => Parts[f] = 0
  \/ /\ Rests(i) /\ kbPc' = [kbPc EXCEPT ![i] = "embed"]
     /\ kbPc[i] = "count" /\ seq[i] < Parts[file[i]]
  \/ \E f \in Folder :
       /\ f > file[i] /\ Parts[f] > 0
       /\ \A g \in Folder : g > file[i] /\ Parts[g] > 0 => f <= g
       /\ Through(i)
       /\ kbPc' = [kbPc EXCEPT ![i] = "embed"]
       /\ file' = [file EXCEPT ![i] = f] /\ seq' = [seq EXCEPT ![i] = 0]
       /\ documents' = documents \cup {<<i, f>>}

LEMMA NextFileMoves ==
  ASSUME DocTyping, NEW i \in Imports, Knowledge!NextFile(i), Through(i)
  PROVE  Moved(i) /\ extractor' \in {"none", "loading", "ready", "failed"}
<1>1. CASE Knowledge!Left(i) = {}
  <2>1. \A f \in Folder : f > file[i] => Parts[f] = 0
    BY <1>1, FolderShapes DEF Knowledge!Left
  <2>2. Rests(i) /\ kbPc' = [kbPc EXCEPT ![i] = "done"] /\ extractor' = extractor
    BY <1>1 DEF Knowledge!NextFile, Rests
  <2> QED
    BY <2>1, <2>2 DEF Moved, DocTyping
<1>2. CASE Knowledge!Left(i) # {}
  <2>1. PICK L : L = Knowledge!Left(i)
    OBVIOUS
  <2>2. L \in SUBSET Nat /\ L # {} /\ L \subseteq Folder
        /\ \A g \in Folder : g \in L <=> g > file[i] /\ Parts[g] > 0
    BY <1>2, <2>1, FolderShapes DEF Knowledge!Left
  <2>3. \E f \in L : \A g \in L : f <= g
    BY <2>2, Least
  <2>4. PICK f : f = CHOOSE n \in L : \A g \in L : n <= g
    OBVIOUS
  <2>5. f \in L /\ \A g \in L : f <= g
    BY <2>3, <2>4, Zenon
  <2>6. /\ kbPc' = [kbPc EXCEPT ![i] = "embed"]
        /\ file' = [file EXCEPT ![i] = f] /\ seq' = [seq EXCEPT ![i] = 0]
        /\ documents' = documents \cup {<<i, f>>}
        /\ extractor' = IF extractor = "none" THEN "loading" ELSE extractor
    BY <1>2, <2>1, <2>4 DEF Knowledge!NextFile
  <2> QED
    BY <2>2, <2>5, <2>6 DEF Moved, DocTyping
<1> QED
  BY <1>1, <1>2

LEMMA ImportMoves ==
  ASSUME DocTyping, UnderWay, NEW i \in Imports, Knowledge!Import(i) \/ Knowledge!Counts(i)
  PROVE  /\ Moved(i) /\ extractor' \in {"none", "loading", "ready", "failed"}
         /\ kbPc[i] \in {"new", "count"}
         /\ kbModel' = kbModel /\ chunks' = chunks /\ deleted' = deleted /\ kbCrashes' = kbCrashes
         /\ kbPc[i] = "new" => count' = count
         /\ kbPc[i] = "count" =>
              count' = [count EXCEPT ![<<i, file[i]>>] =
                          IF <<i, file[i]>> \in documents THEN @ + 1 ELSE @]
<1> DEFINE Fine == extractor' \in {"none", "loading", "ready", "failed"}
<1>1. ASSUME Knowledge!Fails(i) PROVE Moved(i) /\ Fine
  BY <1>1 DEF Knowledge!Fails, Moved, Rests, DocTyping
<1>2. CASE Knowledge!Import(i)
  <2>1. Through(i)
    BY <1>2 DEF Knowledge!Import, Through
  <2>2. Moved(i) /\ Fine
    BY <1>1, <1>2, <2>1, NextFileMoves DEF Knowledge!Import
  <2> QED
    BY <1>2, <2>2 DEF Knowledge!Import
<1>3. CASE Knowledge!Counts(i)
  <2>1. kbPc[i] = "count" /\ file[i] \in Folder /\ seq[i] \in Nat /\ seq[i] <= Parts[file[i]]
    BY <1>3 DEF Knowledge!Counts, UnderWay, AtFile, DocTyping
  <2>2. Parts[file[i]] \in Nat
    BY <2>1, FolderShapes
  <2>3. CASE Knowledge!LastPart(i)
    <3>1. Through(i)
      BY <2>1, <2>2, <2>3 DEF Knowledge!LastPart, Through
    <3>2. Moved(i) /\ Fine
      BY <1>1, <1>3, <2>3, <3>1, NextFileMoves DEF Knowledge!Counts
    <3> QED
      BY <1>3, <2>1, <3>2 DEF Knowledge!Counts, Knowledge!Doc
  <2>4. CASE ~Knowledge!LastPart(i)
    <3>1. seq[i] < Parts[file[i]]
      BY <2>1, <2>2, <2>4 DEF Knowledge!LastPart
    <3>2. Rests(i) /\ kbPc' = [kbPc EXCEPT ![i] = "embed"] /\ extractor' = extractor
      BY <1>3, <2>4 DEF Knowledge!Counts, Rests
    <3>3. Moved(i) /\ Fine
      BY <2>1, <3>1, <3>2 DEF Moved, DocTyping
    <3> QED
      BY <1>3, <2>1, <3>3 DEF Knowledge!Counts, Knowledge!Doc
  <2> QED
    BY <2>3, <2>4
<1> QED
  BY <1>2, <1>3

LEMMA MoveTyping ==
  ASSUME DocInv, NEW i \in Imports, Knowledge!Import(i) \/ Knowledge!Counts(i)
  PROVE  DocTyping'
<1> USE DEF DocInv
<1>1. /\ Moved(i) /\ extractor' \in {"none", "loading", "ready", "failed"}
      /\ kbModel' = kbModel /\ chunks' = chunks /\ deleted' = deleted /\ kbCrashes' = kbCrashes
  BY ImportMoves
<1>2. count' \in [Imports \X Folder -> Nat]
  <2>1. CASE kbPc[i] = "new"
    BY <2>1, ImportMoves DEF DocTyping
  <2>2. CASE kbPc[i] = "count"
    <3>1. count' = [count EXCEPT ![<<i, file[i]>>] =
                      IF <<i, file[i]>> \in documents THEN @ + 1 ELSE @]
      BY <2>2, ImportMoves
    <3>2. PICK q : q = <<i, file[i]>>
      OBVIOUS
    <3>3. PICK v : v = IF q \in documents THEN count[q] + 1 ELSE count[q]
      OBVIOUS
    <3>4. PICK D : D = Imports \X Folder
      OBVIOUS
    <3>5. count \in [D -> Nat]
      BY <3>4 DEF DocTyping
    <3>6. count' \in [D -> Nat]
      <4>1. count' = [count EXCEPT ![q] = v]
        BY <3>1, <3>2, <3>3
      <4>2. q \in D => v \in Nat
        BY <3>3, <3>5
      <4>3. CASE q \in D
        BY <3>5, <4>1, <4>2, <4>3
      <4>4. CASE q \notin D
        BY <3>5, <4>1, <4>4
      <4> QED
        BY <4>3, <4>4
    <3> QED
      BY <3>4, <3>6
  <2> QED
    BY <2>1, <2>2, ImportMoves
<1>3. /\ kbPc' \in [Imports -> {"new", "embed", "count", "done", "failed", "dead"}]
      /\ file' \in [Imports -> Folder \cup {0}] /\ seq' \in [Imports -> Nat]
      /\ documents' \subseteq Imports \X Folder
  BY <1>1 DEF Moved, Rests, DocTyping
<1>4. chunks' \in [Imports \X Folder -> SUBSET Nat] /\ kbCrashes' \in 0..ImportCrashes
      /\ deleted' \subseteq Imports \X Folder
  BY <1>1 DEF DocTyping
<1>5. kbModel' \in BOOLEAN
  BY <1>1, Zenon DEF DocTyping
<1> QED
  BY <1>1, <1>2, <1>3, <1>4, <1>5, Zenon DEF DocTyping

(* What a move leaves alone, import by import and document by document. *)
LEMMA MoveApart ==
  ASSUME DocInv, NEW i \in Imports, Knowledge!Import(i) \/ Knowledge!Counts(i),
         NEW j \in Imports, NEW f \in Folder
  PROVE  /\ j # i => kbPc'[j] = kbPc[j] /\ file'[j] = file[j] /\ seq'[j] = seq[j]
         /\ j # i => (<<j, f>> \in documents' <=> <<j, f>> \in documents)
         /\ <<j, f>> \in documents => <<j, f>> \in documents'
         /\ ~(kbPc[i] = "count" /\ j = i /\ f = file[i]) => count'[<<j, f>>] = count[<<j, f>>]
         /\ kbPc[i] = "count" /\ <<i, file[i]>> \in documents =>
              count'[<<i, file[i]>>] = count[<<i, file[i]>>] + 1
         /\ file[j] \in Nat /\ file'[j] \in Nat /\ seq[j] \in Nat
         /\ file'[j] >= file[j]
         /\ kbPc'[i] \in {"failed", "done", "embed"}
<1> USE DEF DocInv
<1>1. Moved(i) /\ DocTyping'
  BY ImportMoves, MoveTyping
<1>2. \A k \in Imports : file[k] \in Nat /\ file'[k] \in Nat /\ seq[k] \in Nat
  BY <1>1, FolderShapes DEF DocTyping
<1>3. /\ j # i => kbPc'[j] = kbPc[j] /\ file'[j] = file[j] /\ seq'[j] = seq[j]
      /\ j # i => (<<j, f>> \in documents' <=> <<j, f>> \in documents)
      /\ <<j, f>> \in documents => <<j, f>> \in documents'
      /\ kbPc'[i] \in {"failed", "done", "embed"}
  BY <1>1 DEF Moved, Rests, DocTyping
<1>4. file'[j] >= file[j]
  BY <1>1, <1>2, FolderShapes DEF Moved, Rests, DocTyping
<1>5. ~(kbPc[i] = "count" /\ j = i /\ f = file[i]) => count'[<<j, f>>] = count[<<j, f>>]
  <2>1. CASE kbPc[i] = "new"
    BY <2>1, ImportMoves
  <2>2. CASE kbPc[i] = "count"
    <3>1. count' = [count EXCEPT ![<<i, file[i]>>] =
                      IF <<i, file[i]>> \in documents THEN @ + 1 ELSE @]
      BY <2>2, ImportMoves
    <3>2. <<j, f>> \in DOMAIN count
      BY DEF DocTyping
    <3> QED
      BY <2>2, <3>1, <3>2
  <2> QED
    BY <2>1, <2>2, ImportMoves
<1>6. kbPc[i] = "count" /\ <<i, file[i]>> \in documents =>
        count'[<<i, file[i]>>] = count[<<i, file[i]>>] + 1
  BY ImportMoves DEF DocTyping
<1> QED
  BY <1>2, <1>3, <1>4, <1>5, <1>6

LEMMA MoveUnderWay ==
  ASSUME DocInv, NEW i \in Imports, Knowledge!Import(i) \/ Knowledge!Counts(i)
  PROVE  UnderWay'
<1> USE DEF DocInv
<1>1. Moved(i) /\ kbCrashes' = kbCrashes /\ kbPc[i] \in {"new", "count"}
  BY ImportMoves
<1>2. SUFFICES ASSUME NEW j \in Imports
               PROVE  /\ kbPc'[j] = "new" => file'[j] = 0
                      /\ kbPc'[j] = "done" => \A f \in Folder : f > file'[j] => Parts[f] = 0
                      /\ kbPc'[j] = "dead" => kbCrashes' > 0
                      /\ AtFile(j)' => file'[j] \in Folder /\ seq'[j] <= Parts[file'[j]]
                      /\ kbPc'[j] = "embed" => seq'[j] < Parts[file'[j]]
                      /\ kbPc'[j] = "count" => seq'[j] > 0
  BY DEF UnderWay
<1>3. CASE j # i
  <2>1. kbPc'[j] = kbPc[j] /\ file'[j] = file[j] /\ seq'[j] = seq[j]
    BY <1>1, <1>3 DEF Moved, Rests, DocTyping
  <2> QED
    BY <1>1, <2>1 DEF UnderWay, AtFile
<1>4. CASE j = i
  <2>1. CASE Rests(i) /\ kbPc' = [kbPc EXCEPT ![i] = "failed"]
    BY <1>4, <2>1 DEF AtFile, DocTyping
  <2>2. CASE /\ Rests(i) /\ kbPc' = [kbPc EXCEPT ![i] = "done"]
             /\ \A f \in Folder : f > file[i] => Parts[f] = 0
    BY <1>4, <2>2 DEF Rests, AtFile, DocTyping
  <2>3. CASE /\ Rests(i) /\ kbPc' = [kbPc EXCEPT ![i] = "embed"]
             /\ kbPc[i] = "count" /\ seq[i] < Parts[file[i]]
    <3>1. file[i] \in Folder /\ seq[i] <= Parts[file[i]]
      BY <2>3 DEF UnderWay, AtFile
    <3> QED
      BY <1>4, <2>3, <3>1 DEF Rests, AtFile, DocTyping
  <2>4. CASE \E f \in Folder :
               /\ Parts[f] > 0 /\ kbPc' = [kbPc EXCEPT ![i] = "embed"]
               /\ file' = [file EXCEPT ![i] = f] /\ seq' = [seq EXCEPT ![i] = 0]
    <3>1. PICK f \in Folder : Parts[f] > 0 /\ kbPc'[i] = "embed" /\ file'[i] = f /\ seq'[i] = 0
      BY <2>4 DEF DocTyping
    <3>2. Parts[f] \in Nat
      BY FolderShapes
    <3> QED
      BY <1>4, <3>1, <3>2 DEF AtFile
  <2> QED
    BY <1>1, <2>1, <2>2, <2>3, <2>4 DEF Moved
<1> QED
  BY <1>3, <1>4

LEMMA MoveAhead ==
  ASSUME DocInv, NEW i \in Imports, Knowledge!Import(i) \/ Knowledge!Counts(i)
  PROVE  Ahead' /\ Bounded'
<1> USE DEF DocInv
<1>1. Moved(i) /\ deleted' = deleted /\ chunks' = chunks
  BY ImportMoves
<1>2. Bounded'
  BY <1>1 DEF Bounded
<1>3. SUFFICES ASSUME NEW j \in Imports, NEW f \in Folder, f > file'[j]
               PROVE  /\ <<j, f>> \notin documents' /\ <<j, f>> \notin deleted'
                      /\ chunks'[<<j, f>>] = {} /\ count'[<<j, f>>] = 0
  BY <1>2 DEF Ahead
<1>4. f > file[j] /\ (j = i => f # file[i])
  <2>1. file'[j] >= file[j] /\ file[j] \in Nat /\ file'[j] \in Nat
    BY MoveApart
  <2>2. f \in Nat
    BY FolderShapes
  <2> QED
    BY <1>3, <2>1, <2>2
<1>5. <<j, f>> \notin documents /\ <<j, f>> \notin deleted
      /\ chunks[<<j, f>>] = {} /\ count[<<j, f>>] = 0
  BY <1>4 DEF Ahead
<1>6. <<j, f>> \notin documents'
  <2>1. CASE documents' = documents
    BY <1>5, <2>1
  <2>2. CASE \E g \in Folder : file' = [file EXCEPT ![i] = g] /\ documents' = documents \cup {<<i, g>>}
    <3>1. PICK g \in Folder : file'[i] = g /\ documents' = documents \cup {<<i, g>>}
      BY <2>2 DEF DocTyping
    <3>2. <<j, f>> # <<i, g>>
      BY <1>3, <3>1, FolderShapes
    <3> QED
      BY <1>5, <3>1, <3>2
  <2> QED
    BY <1>1, <2>1, <2>2 DEF Moved, Rests
<1>7. count'[<<j, f>>] = count[<<j, f>>]
  BY <1>4, MoveApart
<1> QED
  BY <1>1, <1>5, <1>6, <1>7

(* A file that is done with is behind its import, and whole. *)
LEMMA MoveBehind ==
  ASSUME DocInv, NEW i \in Imports, Knowledge!Import(i) \/ Knowledge!Counts(i)
  PROVE  Behind'
<1> USE DEF DocInv
<1>1. Moved(i) /\ deleted' = deleted /\ chunks' = chunks /\ kbPc[i] \in {"new", "count"}
  BY ImportMoves
<1>2. SUFFICES ASSUME NEW j \in Imports, NEW f \in Folder, Parts[f] > 0,
                      f < file'[j] \/ (f = file'[j] /\ kbPc'[j] = "done")
               PROVE  \/ <<j, f>> \in deleted'
                      \/ <<j, f>> \in documents' /\ chunks'[<<j, f>>] = 0..(Parts[f] - 1)
  BY DEF Behind
<1>3. <<j, f>> \in documents => <<j, f>> \in documents'
  BY MoveApart
<1>4. ASSUME \/ f < file[j]
             \/ f = file[j] /\ kbPc[j] = "done"
             \/ j = i /\ f = file[i] /\ kbPc[i] = "count" /\ seq[i] = Parts[f]
      PROVE  \/ <<j, f>> \in deleted
             \/ <<j, f>> \in documents /\ chunks[<<j, f>>] = 0..(Parts[f] - 1)
  BY <1>2, <1>4 DEF Behind, Current, AtFile
<1>5. CASE j # i
  <2>1. kbPc'[j] = kbPc[j] /\ file'[j] = file[j]
    BY <1>5, MoveApart
  <2> QED
    BY <1>1, <1>2, <1>3, <1>4, <2>1
<1>6. CASE j = i
  <2> DEFINE Done == f < file[i] \/ (f = file[i] /\ kbPc[i] = "count" /\ seq[i] = Parts[f])
  <2>1. ASSUME Rests(i), kbPc'[i] \in {"failed", "embed"} PROVE Done
    BY <1>2, <1>6, <2>1 DEF Rests
  <2>2. f \in Nat /\ file[i] \in Nat /\ file[i] \in Folder \cup {0}
    BY FolderShapes DEF DocTyping
  <2>3. ASSUME Rests(i), kbPc'[i] = "done", Through(i), kbPc[i] = "new" => file[i] = 0 PROVE Done
    BY <1>1, <1>2, <1>6, <2>2, <2>3, FolderShapes DEF Rests, Through
  <2>4. ASSUME NEW g \in Folder, file'[i] = g, Through(i), kbPc'[i] = "embed",
               \A h \in Folder : h > file[i] /\ Parts[h] > 0 => g <= h,
               kbPc[i] = "new" => file[i] = 0
        PROVE  Done
    <3>1. f < g
      BY <1>2, <1>6, <2>4
    <3>2. g \in Nat /\ f <= file[i]
      BY <1>2, <2>2, <2>4, <3>1, FolderShapes
    <3> QED
      BY <1>1, <2>2, <2>4, <3>2, FolderShapes DEF Through
  <2>5. kbPc[i] = "new" => file[i] = 0
    BY DEF UnderWay
  <2>6. \A v : kbPc' = [kbPc EXCEPT ![i] = v] => kbPc'[i] = v
    BY DEF DocTyping
  <2>7. \A g : file' = [file EXCEPT ![i] = g] => file'[i] = g
    BY DEF DocTyping
  <2>8. Done
    BY <1>1, <2>1, <2>3, <2>4, <2>5, <2>6, <2>7 DEF Moved
  <2>9. \/ <<j, f>> \in deleted
        \/ <<j, f>> \in documents /\ chunks[<<j, f>>] = 0..(Parts[f] - 1)
    BY <1>4, <1>6, <2>8
  <2> QED
    BY <1>1, <1>3, <2>9
<1> QED
  BY <1>5, <1>6

LEMMA MoveCurrent ==
  ASSUME DocInv, NEW i \in Imports, Knowledge!Import(i) \/ Knowledge!Counts(i)
  PROVE  Current'
<1> USE DEF DocInv
<1>1. /\ Moved(i) /\ deleted' = deleted /\ chunks' = chunks /\ kbPc[i] \in {"new", "count"}
      /\ UnderWay'
  BY ImportMoves, MoveUnderWay
<1>2. SUFFICES ASSUME NEW j \in Imports, AtFile(j)'
               PROVE  \/ <<j, file'[j]>> \in deleted'
                      \/ /\ <<j, file'[j]>> \in documents'
                         /\ chunks'[<<j, file'[j]>>] = 0..(seq'[j] - 1)
  BY DEF Current
<1>3. file'[j] \in Folder
  BY <1>1, <1>2 DEF UnderWay
<1>4. CASE j # i
  <2>1. kbPc'[j] = kbPc[j] /\ file'[j] = file[j] /\ seq'[j] = seq[j]
    BY <1>1, <1>4 DEF Moved, Rests, DocTyping
  <2>2. \/ <<j, file[j]>> \in deleted
        \/ <<j, file[j]>> \in documents /\ chunks[<<j, file[j]>>] = 0..(seq[j] - 1)
    BY <1>2, <2>1 DEF Current, AtFile
  <2>3. <<j, file[j]>> \in documents => <<j, file[j]>> \in documents'
    BY <1>3, <2>1, MoveApart
  <2> QED
    BY <1>1, <2>1, <2>2, <2>3
<1>5. CASE j = i
  <2>1. kbPc'[i] = "embed"
    BY <1>2, <1>5, MoveApart, <1>3 DEF AtFile
  <2>2. CASE Rests(i) /\ kbPc[i] = "count"
    BY <1>1, <1>5, <2>2 DEF Rests, Current, AtFile
  <2>3. CASE \E f \in Folder :
               /\ f > file[i] /\ file' = [file EXCEPT ![i] = f] /\ seq' = [seq EXCEPT ![i] = 0]
               /\ documents' = documents \cup {<<i, f>>}
    <3>1. PICK f \in Folder : /\ f > file[i] /\ file'[i] = f /\ seq'[i] = 0
                             /\ documents' = documents \cup {<<i, f>>}
      BY <2>3 DEF DocTyping
    <3>2. chunks[<<i, f>>] = {}
      BY <3>1 DEF Ahead
    <3>3. 0..(0 - 1) = {}
      OBVIOUS
    <3> QED
      BY <1>1, <1>5, <3>1, <3>2, <3>3
  <2>4. \A v : kbPc' = [kbPc EXCEPT ![i] = v] => kbPc'[i] = v
    BY DEF DocTyping
  <2> QED
    BY <1>1, <2>1, <2>2, <2>3, <2>4 DEF Moved
<1> QED
  BY <1>4, <1>5

LEMMA MoveCounting ==
  ASSUME DocInv, NEW i \in Imports, Knowledge!Import(i) \/ Knowledge!Counts(i)
  PROVE  Counting'
<1> USE DEF DocInv
<1>1. /\ Moved(i) /\ deleted' = deleted /\ chunks' = chunks /\ kbPc[i] \in {"new", "count"}
  BY ImportMoves
<1>2. SUFFICES ASSUME NEW j \in Imports, NEW f \in Folder, <<j, f>> \in documents' \ deleted'
               PROVE  IF kbPc'[j] = "count" /\ file'[j] = f
                        THEN count'[<<j, f>>] + 1 = Cardinality(chunks'[<<j, f>>])
                        ELSE \/ count'[<<j, f>>] = Cardinality(chunks'[<<j, f>>])
                             \/ /\ count'[<<j, f>>] + 1 = Cardinality(chunks'[<<j, f>>])
                                /\ kbPc'[j] = "dead" /\ file'[j] = f
  BY DEF Counting
<1>3. chunks'[<<j, f>>] = chunks[<<j, f>>] /\ <<j, f>> \notin deleted
  BY <1>1, <1>2
<1>4. CASE j # i
  <2>1. /\ kbPc'[j] = kbPc[j] /\ file'[j] = file[j] /\ count'[<<j, f>>] = count[<<j, f>>]
        /\ <<j, f>> \in documents
    BY <1>2, <1>4, MoveApart
  <2>2. IF kbPc[j] = "count" /\ file[j] = f
          THEN count[<<j, f>>] + 1 = Cardinality(chunks[<<j, f>>])
          ELSE \/ count[<<j, f>>] = Cardinality(chunks[<<j, f>>])
               \/ /\ count[<<j, f>>] + 1 = Cardinality(chunks[<<j, f>>])
                  /\ kbPc[j] = "dead" /\ file[j] = f
    BY <1>3, <2>1 DEF Counting
  <2> QED
    BY <1>3, <2>1, <2>2
<1>5. CASE j = i
  <2>1. kbPc'[i] \in {"failed", "done", "embed"}
    BY MoveApart
  <2>2. count'[<<i, f>>] = Cardinality(chunks[<<i, f>>])
    <3>1. CASE <<i, f>> \in documents /\ kbPc[i] = "count" /\ f = file[i]
      <4>1. count[<<i, f>>] + 1 = Cardinality(chunks[<<i, f>>])
        BY <1>3, <1>5, <3>1 DEF Counting
      <4>2. count'[<<i, f>>] = count[<<i, f>>] + 1
        BY <3>1, MoveApart
      <4> QED
        BY <4>1, <4>2
    <3>2. CASE <<i, f>> \in documents /\ ~(kbPc[i] = "count" /\ f = file[i])
      <4>1. count[<<i, f>>] = Cardinality(chunks[<<i, f>>])
        BY <1>1, <1>3, <1>5, <3>2 DEF Counting
      <4>2. count'[<<i, f>>] = count[<<i, f>>]
        BY <3>2, MoveApart
      <4> QED
        BY <4>1, <4>2
    <3>3. CASE <<i, f>> \notin documents
      <4>1. PICK g \in Folder : g > file[i] /\ documents' = documents \cup {<<i, g>>}
        BY <1>1, <1>2, <1>5, <3>3 DEF Moved, Rests
      <4>2. f = g /\ f > file[i]
        BY <1>2, <1>5, <3>3, <4>1
      <4>3. chunks[<<i, f>>] = {} /\ count[<<i, f>>] = 0
        BY <4>2 DEF Ahead
      <4>4. f # file[i]
        BY <4>2, FolderShapes DEF DocTyping
      <4>5. count'[<<i, f>>] = count[<<i, f>>]
        BY <4>4, MoveApart
      <4> QED
        BY <4>3, <4>5, FS_EmptySet
    <3> QED
      BY <3>1, <3>2, <3>3
  <2> QED
    BY <1>3, <1>5, <2>1, <2>2
<1> QED
  BY <1>4, <1>5

(* Every other step but an embedding: imports stay or are cut short, and     *)
(* some listed documents lose their chunks and are marked deleted.           *)
Halts(X) ==
  /\ X \subseteq documents
  /\ file' = file /\ seq' = seq /\ count' = count /\ deleted' = deleted \cup X
  /\ \A i \in Imports, f \in Folder :
       /\ <<i, f>> \notin X =>
            /\ chunks'[<<i, f>>] = chunks[<<i, f>>]
            /\ <<i, f>> \in documents' <=> <<i, f>> \in documents
       /\ <<i, f>> \in X => chunks'[<<i, f>>] = {}
  /\ \A i \in Imports :
       \/ kbPc'[i] = kbPc[i]
       \/ kbPc[i] = "embed" /\ kbPc'[i] = "failed"
       \/ AtFile(i) /\ kbPc'[i] = "dead" /\ kbCrashes' > 0
  /\ kbCrashes > 0 => kbCrashes' > 0

LEMMA HaltStep ==
  ASSUME DocInv, DocTyping', NEW X, Halts(X)
  PROVE  DocInv'
<1>0. /\ X \subseteq documents
      /\ file' = file /\ seq' = seq /\ count' = count /\ deleted' = deleted \cup X
      /\ \A i \in Imports, f \in Folder :
           /\ <<i, f>> \notin X =>
                /\ chunks'[<<i, f>>] = chunks[<<i, f>>]
                /\ <<i, f>> \in documents' <=> <<i, f>> \in documents
           /\ <<i, f>> \in X => chunks'[<<i, f>>] = {}
      /\ \A i \in Imports :
           \/ kbPc'[i] = kbPc[i]
           \/ kbPc[i] = "embed" /\ kbPc'[i] = "failed"
           \/ AtFile(i) /\ kbPc'[i] = "dead" /\ kbCrashes' > 0
      /\ kbCrashes > 0 => kbCrashes' > 0
  BY DEF Halts
<1> USE <1>0
<1> USE DEF DocInv
<1>1. UnderWay'
  <2>1. SUFFICES ASSUME NEW i \in Imports
                 PROVE  /\ kbPc'[i] = "new" => file[i] = 0
                        /\ kbPc'[i] = "done" => \A f \in Folder : f > file[i] => Parts[f] = 0
                        /\ kbPc'[i] = "dead" => kbCrashes' > 0
                        /\ AtFile(i)' => file[i] \in Folder /\ seq[i] <= Parts[file[i]]
                        /\ kbPc'[i] = "embed" => seq[i] < Parts[file[i]]
                        /\ kbPc'[i] = "count" => seq[i] > 0
    BY DEF UnderWay
  <2>2. CASE kbPc'[i] = kbPc[i]
    BY <2>2 DEF UnderWay, AtFile
  <2>3. CASE \/ kbPc'[i] = "failed"
             \/ kbPc'[i] = "dead" /\ kbCrashes' > 0
    BY <2>3 DEF AtFile
  <2> QED
    BY <2>2, <2>3
<1>2. Bounded'
  <2>1. SUFFICES ASSUME NEW i \in Imports, NEW f \in Folder
                 PROVE  chunks'[<<i, f>>] \subseteq 0..(Parts[f] - 1)
    BY DEF Bounded
  <2>2. chunks[<<i, f>>] \subseteq 0..(Parts[f] - 1)
    BY DEF Bounded
  <2>3. chunks'[<<i, f>>] = chunks[<<i, f>>] \/ chunks'[<<i, f>>] = {}
    OBVIOUS
  <2> QED
    BY <2>2, <2>3
<1>3. Ahead'
  <2>1. SUFFICES ASSUME NEW i \in Imports, NEW f \in Folder, f > file[i]
                 PROVE  /\ <<i, f>> \notin documents' /\ <<i, f>> \notin deleted'
                        /\ chunks'[<<i, f>>] = {} /\ count[<<i, f>>] = 0
    BY DEF Ahead
  <2>2. /\ <<i, f>> \notin documents /\ <<i, f>> \notin deleted
        /\ chunks[<<i, f>>] = {} /\ count[<<i, f>>] = 0
    BY <2>1 DEF Ahead
  <2> QED
    BY <2>2
<1>4. Behind'
  <2>1. SUFFICES ASSUME NEW i \in Imports, NEW f \in Folder, Parts[f] > 0,
                        f < file[i] \/ (f = file[i] /\ kbPc'[i] = "done")
                 PROVE  \/ <<i, f>> \in deleted'
                        \/ <<i, f>> \in documents' /\ chunks'[<<i, f>>] = 0..(Parts[f] - 1)
    BY DEF Behind
  <2>2. f < file[i] \/ (f = file[i] /\ kbPc[i] = "done")
    BY <2>1
  <2>3. \/ <<i, f>> \in deleted
        \/ <<i, f>> \in documents /\ chunks[<<i, f>>] = 0..(Parts[f] - 1)
    BY <2>1, <2>2 DEF Behind
  <2> QED
    BY <2>3
<1>5. Current'
  <2>1. SUFFICES ASSUME NEW i \in Imports, AtFile(i)'
                 PROVE  \/ <<i, file[i]>> \in deleted'
                        \/ /\ <<i, file[i]>> \in documents'
                           /\ chunks'[<<i, file[i]>>] = 0..(seq[i] - 1)
    BY DEF Current
  <2>2. AtFile(i)
    BY <2>1 DEF AtFile
  <2>3. file[i] \in Folder
    BY <2>2 DEF UnderWay
  <2>4. \/ <<i, file[i]>> \in deleted
        \/ <<i, file[i]>> \in documents /\ chunks[<<i, file[i]>>] = 0..(seq[i] - 1)
    BY <2>2 DEF Current
  <2> QED
    BY <2>3, <2>4
<1>6. Counting'
  <2>1. SUFFICES ASSUME NEW i \in Imports, NEW f \in Folder, <<i, f>> \in documents' \ deleted'
                 PROVE  IF kbPc'[i] = "count" /\ file'[i] = f
                          THEN count'[<<i, f>>] + 1 = Cardinality(chunks'[<<i, f>>])
                          ELSE \/ count'[<<i, f>>] = Cardinality(chunks'[<<i, f>>])
                               \/ /\ count'[<<i, f>>] + 1 = Cardinality(chunks'[<<i, f>>])
                                  /\ kbPc'[i] = "dead" /\ file'[i] = f
    BY DEF Counting
  <2>2. <<i, f>> \in documents \ deleted /\ chunks'[<<i, f>>] = chunks[<<i, f>>]
    BY <2>1
  <2>3. IF kbPc[i] = "count" /\ file[i] = f
          THEN count[<<i, f>>] + 1 = Cardinality(chunks[<<i, f>>])
          ELSE \/ count[<<i, f>>] = Cardinality(chunks[<<i, f>>])
               \/ /\ count[<<i, f>>] + 1 = Cardinality(chunks[<<i, f>>])
                  /\ kbPc[i] = "dead" /\ file[i] = f
    BY <2>2 DEF Counting
  <2>4. count'[<<i, f>>] = count[<<i, f>>] /\ file'[i] = file[i]
    OBVIOUS
  <2> QED
    BY <2>2, <2>3, <2>4 DEF AtFile
<1> QED
  BY <1>1, <1>2, <1>3, <1>4, <1>5, <1>6

(* An embedding adds the chunk after those that are there. *)
LEMMA EmbedStep ==
  ASSUME DocInv, NEW i \in Imports, Knowledge!Embeds(i)
  PROVE  DocInv'
<1> USE DEF DocInv
<1> DEFINE q == <<i, file[i]>>
<1>1. /\ kbPc[i] = "embed"
      /\ chunks' = [chunks EXCEPT ![q] = chunks[q] \cup {seq[i]}]
      /\ count' = [count EXCEPT ![q] = count[q]]
      /\ seq' = [seq EXCEPT ![i] = seq[i] + 1] /\ kbPc' = [kbPc EXCEPT ![i] = "count"]
      /\ kbModel' = kbModel /\ extractor' = extractor /\ file' = file /\ documents' = documents
      /\ kbCrashes' = kbCrashes /\ deleted' = deleted
  BY DEF Knowledge!Embeds, Knowledge!Doc, Knowledge!Counted
<1>2. /\ AtFile(i) /\ file[i] \in Folder /\ seq[i] \in Nat /\ seq[i] < Parts[file[i]]
      /\ Parts[file[i]] \in Nat
  BY <1>1, FolderShapes DEF UnderWay, AtFile, DocTyping
<1>3. count' = count
  BY <1>1 DEF DocTyping
<1>4. \A j \in Imports, f \in Folder :
        chunks'[<<j, f>>] = IF j = i /\ f = file[i] THEN chunks[q] \cup {seq[i]}
                                                     ELSE chunks[<<j, f>>]
  BY <1>1 DEF DocTyping
<1>5. \A j \in Imports : /\ j # i => kbPc'[j] = kbPc[j] /\ seq'[j] = seq[j]
                         /\ j = i => kbPc'[j] = "count" /\ seq'[j] = seq[i] + 1
  BY <1>1 DEF DocTyping
<1>6. DocTyping'
  <2>1. chunks[q] \cup {seq[i]} \in SUBSET Nat /\ q \in Imports \X Folder
    BY <1>2 DEF DocTyping
  <2>2. chunks' \in [Imports \X Folder -> SUBSET Nat]
    <3>1. PICK D : D = Imports \X Folder
      OBVIOUS
    <3>2. PICK v : v = chunks[q] \cup {seq[i]}
      OBVIOUS
    <3>3. chunks \in [D -> SUBSET Nat] /\ v \in SUBSET Nat /\ q \in D
      BY <2>1, <3>1, <3>2 DEF DocTyping
    <3>4. chunks' = [chunks EXCEPT ![q] = v]
      BY <1>1, <3>2
    <3>5. chunks' \in [D -> SUBSET Nat]
      BY <3>3, <3>4
    <3> QED
      BY <3>1, <3>5
  <2>3. seq' \in [Imports -> Nat]
        /\ kbPc' \in [Imports -> {"new", "embed", "count", "done", "failed", "dead"}]
    BY <1>1, <1>2 DEF DocTyping
  <2>4. kbModel' \in BOOLEAN
    BY <1>1, Zenon DEF DocTyping
  <2> QED
    BY <1>1, <1>3, <2>2, <2>3, <2>4, Zenon DEF DocTyping
<1>7. UnderWay'
  <2>1. SUFFICES ASSUME NEW j \in Imports
                 PROVE  /\ kbPc'[j] = "new" => file[j] = 0
                        /\ kbPc'[j] = "done" => \A f \in Folder : f > file[j] => Parts[f] = 0
                        /\ kbPc'[j] = "dead" => kbCrashes > 0
                        /\ AtFile(j)' => file[j] \in Folder /\ seq'[j] <= Parts[file[j]]
                        /\ kbPc'[j] = "embed" => seq'[j] < Parts[file[j]]
                        /\ kbPc'[j] = "count" => seq'[j] > 0
    BY <1>1 DEF UnderWay
  <2>2. CASE j # i
    BY <1>5, <2>2 DEF UnderWay, AtFile
  <2>3. CASE j = i
    BY <1>2, <1>5, <2>3
  <2> QED
    BY <2>2, <2>3
<1>8. Bounded'
  <2>1. seq[i] \in 0..(Parts[file[i]] - 1)
    BY <1>2
  <2>2. chunks[q] \subseteq 0..(Parts[file[i]] - 1)
    BY <1>2 DEF Bounded
  <2>3. SUFFICES ASSUME NEW j \in Imports, NEW f \in Folder
                 PROVE  chunks'[<<j, f>>] \subseteq 0..(Parts[f] - 1)
    BY DEF Bounded
  <2>4. CASE j = i /\ f = file[i]
    BY <1>4, <2>1, <2>2, <2>4
  <2>5. CASE ~(j = i /\ f = file[i])
    BY <1>4, <2>5 DEF Bounded
  <2> QED
    BY <2>4, <2>5
<1>9. Ahead'
  <2>1. SUFFICES ASSUME NEW j \in Imports, NEW f \in Folder, f > file[j]
                 PROVE  /\ <<j, f>> \notin documents /\ <<j, f>> \notin deleted
                        /\ chunks'[<<j, f>>] = {} /\ count[<<j, f>>] = 0
    BY <1>1, <1>3 DEF Ahead
  <2>2. ~(j = i /\ f = file[i])
    BY <1>2, <2>1, FolderShapes
  <2> QED
    BY <1>4, <2>1, <2>2 DEF Ahead
<1>10. Behind'
  <2>1. SUFFICES ASSUME NEW j \in Imports, NEW f \in Folder, Parts[f] > 0,
                        f < file[j] \/ (f = file[j] /\ kbPc'[j] = "done")
                 PROVE  \/ <<j, f>> \in deleted
                        \/ <<j, f>> \in documents /\ chunks'[<<j, f>>] = 0..(Parts[f] - 1)
    BY <1>1 DEF Behind
  <2>2. ~(j = i /\ f = file[i])
    BY <1>2, <1>5, <2>1, FolderShapes
  <2>3. f < file[j] \/ (f = file[j] /\ kbPc[j] = "done")
    BY <1>5, <2>1, <2>2
  <2>4. \/ <<j, f>> \in deleted
        \/ <<j, f>> \in documents /\ chunks[<<j, f>>] = 0..(Parts[f] - 1)
    BY <2>1, <2>3 DEF Behind
  <2> QED
    BY <1>4, <2>2, <2>4
<1>11. Current'
  <2>1. SUFFICES ASSUME NEW j \in Imports, AtFile(j)'
                 PROVE  \/ <<j, file[j]>> \in deleted
                        \/ /\ <<j, file[j]>> \in documents
                           /\ chunks'[<<j, file[j]>>] = 0..(seq'[j] - 1)
    BY <1>1 DEF Current
  <2>2. file[j] \in Folder
    BY <1>1, <1>7, <2>1 DEF UnderWay
  <2>3. CASE j # i
    <3>1. AtFile(j)
      BY <1>5, <2>1, <2>3 DEF AtFile
    <3>2. \/ <<j, file[j]>> \in deleted
          \/ <<j, file[j]>> \in documents /\ chunks[<<j, file[j]>>] = 0..(seq[j] - 1)
      BY <3>1 DEF Current
    <3> QED
      BY <1>4, <1>5, <2>2, <2>3, <3>2
  <2>4. CASE j = i
    <3>1. q \in deleted \/ (q \in documents /\ chunks[q] = 0..(seq[i] - 1))
      BY <1>2 DEF Current
    <3>2. (0..(seq[i] - 1)) \cup {seq[i]} = 0..seq[i]
      BY <1>2
    <3>3. chunks'[q] = chunks[q] \cup {seq[i]}
      BY <1>2, <1>4
    <3>4. seq'[i] - 1 = seq[i]
      BY <1>2, <1>5
    <3>5. q \in deleted \/ (q \in documents /\ chunks'[q] = 0..(seq'[i] - 1))
      BY <3>1, <3>2, <3>3, <3>4
    <3> QED
      BY <2>4, <3>5
  <2> QED
    BY <2>3, <2>4
<1>12. Counting'
  <2> SUFFICES ASSUME NEW j \in Imports, NEW f \in Folder, <<j, f>> \in documents' \ deleted'
               PROVE  IF kbPc'[j] = "count" /\ file'[j] = f
                        THEN count'[<<j, f>>] + 1 = Cardinality(chunks'[<<j, f>>])
                        ELSE \/ count'[<<j, f>>] = Cardinality(chunks'[<<j, f>>])
                             \/ /\ count'[<<j, f>>] + 1 = Cardinality(chunks'[<<j, f>>])
                                /\ kbPc'[j] = "dead" /\ file'[j] = f
    BY DEF Counting
  <2>1. /\ <<j, f>> \in documents \ deleted
        /\ file'[j] = file[j] /\ count'[<<j, f>>] = count[<<j, f>>]
    BY <1>1, <1>3
  <2>2. IF kbPc[j] = "count" /\ file[j] = f
          THEN count[<<j, f>>] + 1 = Cardinality(chunks[<<j, f>>])
          ELSE \/ count[<<j, f>>] = Cardinality(chunks[<<j, f>>])
               \/ /\ count[<<j, f>>] + 1 = Cardinality(chunks[<<j, f>>])
                  /\ kbPc[j] = "dead" /\ file[j] = f
    BY <2>1 DEF Counting
  <2>3. CASE j # i
    BY <1>4, <1>5, <2>1, <2>2, <2>3
  <2>4. CASE j = i /\ f # file[i]
    BY <1>1, <1>4, <1>5, <2>1, <2>2, <2>4
  <2>5. CASE j = i /\ f = file[i]
    <3>1. count[q] = Cardinality(chunks[q])
      BY <1>1, <2>2, <2>5
    <3>2. chunks[q] = 0..(seq[i] - 1) /\ seq[i] \notin chunks[q]
      BY <1>2, <2>1, <2>5 DEF Current
    <3>3. IsFiniteSet(chunks[q])
      <4>1. seq[i] - 1 \in Int /\ 0 \in Int
        BY <1>2
      <4> QED
        BY <3>2, <4>1, FS_Interval
    <3>4. Cardinality(chunks[q] \cup {seq[i]}) = Cardinality(chunks[q]) + 1
      BY <3>2, <3>3, FS_AddElement
    <3>5. chunks'[q] = chunks[q] \cup {seq[i]} /\ kbPc'[i] = "count"
      BY <1>2, <1>4, <1>5
    <3> QED
      BY <2>1, <2>5, <3>1, <3>4, <3>5
  <2> QED
    BY <2>3, <2>4, <2>5
<1> QED
  BY <1>6, <1>7, <1>8, <1>9, <1>10, <1>11, <1>12

LEMMA DocInvStep ==
  ASSUME DocInv, Knowledge!Next \/ UNCHANGED knowledgeVars
  PROVE  DocInv'
<1> USE DEF DocInv
<1>0. kbCrashes \in Nat
  BY FolderShapes DEF DocTyping
<1>1. ASSUME NEW i \in Imports, Knowledge!Import(i) \/ Knowledge!Counts(i)
      PROVE  DocInv'
  BY <1>1, MoveTyping, MoveUnderWay, MoveAhead, MoveBehind, MoveCurrent, MoveCounting
<1>2. ASSUME NEW i \in Imports, Knowledge!Embeds(i) PROVE DocInv'
  BY <1>2, EmbedStep
<1>3. ASSUME NEW i \in Imports, Knowledge!EmbedFails(i) PROVE DocInv'
  <2>1. /\ kbPc[i] = "embed" /\ kbPc' = [kbPc EXCEPT ![i] = "failed"]
        /\ file' = file /\ seq' = seq /\ documents' = documents /\ extractor' = extractor
        /\ kbModel' = kbModel /\ chunks' = chunks /\ count' = count /\ kbCrashes' = kbCrashes
        /\ deleted' = deleted
    BY <1>3 DEF Knowledge!EmbedFails, Knowledge!Fails
  <2>2. kbPc' \in [Imports -> {"new", "embed", "count", "done", "failed", "dead"}]
        /\ \A j \in Imports : kbPc'[j] = kbPc[j] \/ (kbPc[j] = "embed" /\ kbPc'[j] = "failed")
    BY <2>1 DEF DocTyping
  <2>3. DocTyping'
    BY <2>1, <2>2, Zenon DEF DocTyping
  <2>4. Halts({})
    BY <2>1, <2>2 DEF Halts
  <2> QED
    BY <2>3, <2>4, HaltStep
<1>4. ASSUME Knowledge!Stop
      PROVE  /\ kbPc' \in [Imports -> {"new", "embed", "count", "done", "failed", "dead"}]
             /\ \A j \in Imports : kbPc'[j] = kbPc[j] \/ (AtFile(j) /\ kbPc'[j] = "dead")
  BY <1>4 DEF Knowledge!Stop, DocTyping, AtFile
<1>5. ASSUME NEW d \in Imports \X Folder, Knowledge!Delete(d) PROVE DocInv'
  <2>1. /\ d \in documents /\ chunks' = [chunks EXCEPT ![d] = {}] /\ deleted' = deleted \cup {d}
        /\ kbModel' = kbModel /\ file' = file /\ seq' = seq /\ count' = count
    BY <1>5 DEF Knowledge!Delete
  <2>2. \/ /\ documents' = documents \ {d} /\ kbPc' = kbPc /\ extractor' = extractor
           /\ kbCrashes' = kbCrashes
        \/ /\ kbCrashes < ImportCrashes /\ kbCrashes' = kbCrashes + 1
           /\ Knowledge!Stop /\ extractor' = "none" /\ documents' = documents
    BY <1>5 DEF Knowledge!Delete
  <2>3. /\ kbPc' \in [Imports -> {"new", "embed", "count", "done", "failed", "dead"}]
        /\ \A j \in Imports : \/ kbPc'[j] = kbPc[j]
                              \/ AtFile(j) /\ kbPc'[j] = "dead" /\ kbCrashes' > 0
        /\ kbCrashes > 0 => kbCrashes' > 0
        /\ kbCrashes' \in 0..ImportCrashes
        /\ documents' \subseteq Imports \X Folder
        /\ extractor' \in {"none", "loading", "ready", "failed"}
    <3>1. CASE documents' = documents \ {d} /\ kbPc' = kbPc /\ kbCrashes' = kbCrashes
               /\ extractor' = extractor
      BY <3>1 DEF DocTyping
    <3>2. CASE /\ kbCrashes < ImportCrashes /\ kbCrashes' = kbCrashes + 1
               /\ Knowledge!Stop /\ extractor' = "none" /\ documents' = documents
      BY <1>0, <1>4, <3>2, FolderShapes DEF DocTyping
    <3> QED
      BY <2>2, <3>1, <3>2
  <2>4. \A j \in Imports, f \in Folder :
          /\ <<j, f>> \notin {d} =>
               /\ chunks'[<<j, f>>] = chunks[<<j, f>>]
               /\ <<j, f>> \in documents' <=> <<j, f>> \in documents
          /\ <<j, f>> \in {d} => chunks'[<<j, f>>] = {}
    BY <2>1, <2>2 DEF DocTyping
  <2>5. chunks' \in [Imports \X Folder -> SUBSET Nat] /\ deleted' \subseteq Imports \X Folder
    BY <2>1 DEF DocTyping
  <2>6. DocTyping'
    BY <2>1, <2>3, <2>5, Zenon DEF DocTyping
  <2>7. {d} \subseteq documents
    BY <2>1
  <2>8. Halts({d})
    BY <2>1, <2>3, <2>4, <2>7 DEF Halts
  <2> QED
    BY <2>6, <2>8, HaltStep
<1>6. ASSUME Knowledge!Crash PROVE DocInv'
  <2>1. /\ kbCrashes < ImportCrashes /\ kbCrashes' = kbCrashes + 1
        /\ Knowledge!Stop /\ extractor' = "none"
        /\ kbModel' = kbModel /\ file' = file /\ seq' = seq /\ documents' = documents
        /\ chunks' = chunks /\ count' = count /\ deleted' = deleted
    BY <1>6 DEF Knowledge!Crash, Knowledge!tables
  <2>2. /\ kbPc' \in [Imports -> {"new", "embed", "count", "done", "failed", "dead"}]
        /\ \A j \in Imports : kbPc'[j] = kbPc[j] \/ (AtFile(j) /\ kbPc'[j] = "dead")
    BY <1>4, <2>1
  <2>3. kbCrashes' \in 0..ImportCrashes /\ kbCrashes' > 0
    BY <1>0, <2>1, FolderShapes
  <2>4. DocTyping'
    BY <2>1, <2>2, <2>3, Zenon DEF DocTyping
  <2>5. Halts({})
    BY <2>1, <2>2, <2>3 DEF Halts
  <2> QED
    BY <2>4, <2>5, HaltStep
<1>7. ASSUME Knowledge!Search \/ Knowledge!Loads \/ Knowledge!Provide \/ UNCHANGED knowledgeVars
      PROVE  DocInv'
  <2>1. /\ kbPc' = kbPc /\ file' = file /\ seq' = seq /\ documents' = documents
        /\ chunks' = chunks /\ count' = count /\ kbCrashes' = kbCrashes /\ deleted' = deleted
    BY <1>7 DEF Knowledge!Search, Knowledge!Loads, Knowledge!Provide, Knowledge!tables,
                knowledgeVars
  <2>2. extractor' \in {"none", "loading", "ready", "failed"}
    BY <1>7 DEF Knowledge!Search, Knowledge!Loads, Knowledge!Provide, Knowledge!Outcome,
                knowledgeVars, DocTyping
  <2>3. kbModel' = kbModel \/ kbModel' = TRUE
    BY <1>7 DEF Knowledge!Search, Knowledge!Loads, Knowledge!Provide, knowledgeVars
  <2>4. kbModel' \in BOOLEAN
    BY <2>3, Zenon DEF DocTyping
  <2>5. DocTyping'
    BY <2>1, <2>2, <2>4, Zenon DEF DocTyping
  <2>6. Halts({})
    BY <2>1 DEF Halts
  <2> QED
    BY <2>5, <2>6, HaltStep
<1> QED
  BY DocSteps, <1>1, <1>2, <1>3, <1>5, <1>6, <1>7

LEMMA DocInit == Knowledge!Init => DocInv
<1> SUFFICES ASSUME Knowledge!Init PROVE DocInv
  OBVIOUS
<1>1. /\ extractor = "none" /\ kbPc = [i \in Imports |-> "new"]
      /\ file = [i \in Imports |-> 0] /\ seq = [i \in Imports |-> 0]
      /\ documents = {} /\ chunks = [d \in Imports \X Folder |-> {}]
      /\ count = [d \in Imports \X Folder |-> 0] /\ kbCrashes = 0 /\ deleted = {}
  BY DEF Knowledge!Init, Knowledge!Docs
<1>2. kbModel \in BOOLEAN
  BY DEF Knowledge!Init
<1>3. kbCrashes \in 0..ImportCrashes
  BY <1>1, FolderShapes
<1>4. /\ kbPc \in [Imports -> {"new", "embed", "count", "done", "failed", "dead"}]
      /\ file \in [Imports -> Folder \cup {0}] /\ seq \in [Imports -> Nat]
      /\ chunks \in [Imports \X Folder -> SUBSET Nat] /\ count \in [Imports \X Folder -> Nat]
      /\ extractor \in {"none", "loading", "ready", "failed"}
      /\ documents \subseteq Imports \X Folder /\ deleted \subseteq Imports \X Folder
  BY <1>1
<1>5. DocTyping
  BY <1>2, <1>3, <1>4, Zenon DEF DocTyping
<1>6. UnderWay /\ Current
  BY <1>1 DEF UnderWay, Current, AtFile
<1>7. Bounded /\ Ahead /\ Counting
  BY <1>1 DEF Bounded, Ahead, Counting
<1>8. Behind
  BY <1>1, FolderShapes DEF Behind
<1> QED
  BY <1>5, <1>6, <1>7, <1>8 DEF DocInv

LEMMA FolderCounts == \A S : Knowledge!Cardinality(S) = Cardinality(S)
BY DEF Knowledge!Cardinality, Cardinality, Knowledge!IsFiniteSet, IsFiniteSet

LEMMA KnowledgeIsSafe == DocInv => Knowledge!KnowledgeSafe
<1> SUFFICES ASSUME DocInv PROVE Knowledge!KnowledgeSafe
  OBVIOUS
<1> USE DEF DocInv
<1>1. Knowledge!TypeOK
  <2>1. \A d \in Knowledge!Docs : chunks[d] \subseteq 0..(Parts[d[2]] - 1)
    BY DEF Bounded, Knowledge!Docs
  <2> QED
    BY <2>1, Zenon DEF DocTyping, Knowledge!TypeOK, Knowledge!Docs
<1>2. Knowledge!DoneIsWhole
  <2>1. SUFFICES ASSUME NEW d \in Knowledge!Docs, kbPc[d[1]] = "done", Parts[d[2]] > 0
                 PROVE  \/ d \in deleted
                        \/ d \in documents /\ chunks[d] = 0..(Parts[d[2]] - 1)
    BY DEF Knowledge!DoneIsWhole, Knowledge!Whole
  <2>2. PICK i \in Imports, f \in Folder : d = <<i, f>>
    BY DEF Knowledge!Docs
  <2>3. ~(f > file[i])
    BY <2>1, <2>2 DEF UnderWay
  <2>4. f < file[i] \/ f = file[i]
    BY <2>3, FolderShapes DEF DocTyping
  <2> QED
    BY <2>1, <2>2, <2>4 DEF Behind
<1>3. Knowledge!CountsAgree
  <2>1. SUFFICES ASSUME NEW d \in documents \ deleted
                 PROVE  LET n == Cardinality(chunks[d])
                        IN \/ count[d] = n
                           \/ count[d] + 1 = n /\ (~Knowledge!Settled \/ kbCrashes > 0)
    BY FolderCounts DEF Knowledge!CountsAgree
  <2>2. PICK i \in Imports, f \in Folder : d = <<i, f>>
    BY DEF DocTyping
  <2>3. IF kbPc[i] = "count" /\ file[i] = f
          THEN count[<<i, f>>] + 1 = Cardinality(chunks[<<i, f>>])
          ELSE \/ count[<<i, f>>] = Cardinality(chunks[<<i, f>>])
               \/ /\ count[<<i, f>>] + 1 = Cardinality(chunks[<<i, f>>])
                  /\ kbPc[i] = "dead" /\ file[i] = f
    BY <2>1, <2>2 DEF Counting
  <2>4. kbPc[i] = "dead" => kbCrashes > 0
    BY DEF UnderWay
  <2>5. kbPc[i] = "count" => ~Knowledge!Settled
    BY DEF Knowledge!Settled
  <2> QED
    BY <2>2, <2>3, <2>4, <2>5
<1> QED
  BY <1>1, <1>2, <1>3 DEF Knowledge!KnowledgeSafe

(* An import that reports success has stored every chunk of every file, bar   *)
(* the documents deleted under it, and a listed count is the number of chunks *)
(* or, where the process died between the two statements, one less; a market  *)
(* call that ended left its package and nothing else: the run's               *)
(* LibrariesHold, for any imports, folder, skills, editions, crashes and      *)
(* interrupted calls.                                                         *)
THEOREM LibrariesAlwaysHold == MCSpec => []LibrariesHold
<1>1. MCInit => DocInv /\ MarketInv
  BY DocInit, MarketInit DEF MCInit
<1>2. DocInv /\ MarketInv /\ [MCNext]_<<part, vars, shellVars, knowledgeVars, skillVars>>
        => (DocInv /\ MarketInv)'
  BY DocInvStep, MarketInvStep DEF MCNext
<1>3. DocInv /\ MarketInv => LibrariesHold
  BY KnowledgeIsSafe, MarketIsSafe DEF LibrariesHold
<1> QED
  BY <1>1, <1>2, <1>3, PTL DEF MCSpec

================================================================================
