------------------------------- MODULE MCDesktop -------------------------------
(***************************************************************************)
(* Four parts of the desktop application, which share no state: the        *)
(* provisioning of $DSH_HOME at its start, the shell that keeps one        *)
(* backend and one window, the knowledge base and the skill market.  They  *)
(* are checked side by side: the initial state picks the part that runs,   *)
(* the others stand still.                                                 *)
(***************************************************************************)
EXTENDS Provisioning, Sequences

CONSTANTS
  MaxRestarts, MaxAbnormal,              \* the shell's bounds
  Imports, Folder, Parts, ImportCrashes, \* the knowledge base's
  Names, MarketVersions, MaxStops        \* the skill market's

PartsOf == <<2, 0, 2>>   \* the chunks of each file: the second has no text

(* The second release changes the code of every plugin and of the market only *)
(* files no fingerprint covers; the third the market, and of one plugin only  *)
(* such files.                                                                *)
PrintsOf ==
  [t \in Targets |-> CASE t = Market -> <<1, 1, 2>>
                       [] t = (CHOOSE p \in Plugins : TRUE) -> <<1, 2, 2>>
                       [] OTHER -> <<1, 2, 3>>]

VARIABLES
  part,
  app, child, stopping, restartCount, timer, spawned, alive, exited, killed, window, abnormal,
  rebuild, unopened, failures, stopped,
  kbModel, extractor, kbPc, file, seq, documents, chunks, count, kbCrashes, deleted,
  market, skillDir, op, done, stops

Shell == INSTANCE DesktopShell
Knowledge == INSTANCE KnowledgeBase WITH
               model <- kbModel, pc <- kbPc, crashes <- kbCrashes, MaxCrashes <- ImportCrashes,
               Files <- Folder
Skills == INSTANCE SkillMarket WITH dir <- skillDir, MaxVersion <- MarketVersions

ASSUME ShellBounds == Shell!ShellAssumption
ASSUME KnowledgeBounds == Knowledge!KnowledgeBaseAssumption
ASSUME SkillBounds == Skills!BoundsAssumption

shellVars == <<app, child, stopping, restartCount, timer, spawned, alive, exited, killed, window,
               abnormal, rebuild, unopened, failures, stopped>>
knowledgeVars == <<kbModel, extractor, kbPc, file, seq, documents, chunks, count, kbCrashes,
                   deleted>>
skillVars == <<market, skillDir, op, done, stops>>

(* The initial state of a part that does not run is one of its initial states. *)
MCInit ==
  /\ part \in {"provisioning", "shell", "knowledge", "skills"}
  /\ Init /\ Shell!Init /\ Knowledge!Init /\ Skills!Init
  /\ part # "provisioning" => manifest = {} /\ dir = [t \in Targets |-> Absent]
  /\ part # "knowledge" => kbModel
  /\ part # "skills" => skillDir = [n \in Names |-> {}]

MCNext ==
  \/ part = "provisioning" /\ Next /\ UNCHANGED <<part, shellVars, knowledgeVars, skillVars>>
  \/ part = "shell" /\ Shell!Next /\ UNCHANGED <<part, vars, knowledgeVars, skillVars>>
  \/ part = "knowledge" /\ Knowledge!Next /\ UNCHANGED <<part, vars, shellVars, skillVars>>
  \/ part = "skills" /\ Skills!Next /\ UNCHANGED <<part, vars, shellVars, knowledgeVars>>

MCSpec == MCInit /\ [][MCNext]_<<part, vars, shellVars, knowledgeVars, skillVars>>

--------------------------------------------------------------------------------
(* Properties *)

(* Two backends never share a port and a $DSH_HOME, and none is lost track of. *)
ShellHolds == part = "shell" => Shell!ShellSafe

(* A reported import is whole and counts agree with rows; a market install   *)
(* that ended left its package and nothing else.                             *)
LibrariesHold ==
  /\ part = "knowledge" => Knowledge!KnowledgeSafe
  /\ part = "skills" => Skills!MarketSafe

(* A stopped backend stays down, and no uninstall takes a skill of the user's. *)
DesktopSteps == Shell!StoppedStaysDown /\ Skills!OwnSkillsStay

(* Files are copied, processes that are killed end, inferences settle: a     *)
(* start that is not cut short succeeds, a lost window comes back unless it  *)
(* cannot be opened, an import ends.                                         *)
DesktopRecovers ==
  /\ part = "provisioning" /\ Fairness => StartsUp
  /\ part = "shell" /\ Shell!Fairness => Shell!WindowComesBack
  /\ part = "knowledge" /\ Knowledge!Fairness => Knowledge!ImportsEnd
================================================================================
