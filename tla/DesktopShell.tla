------------------------------ MODULE DesktopShell ------------------------------
(***************************************************************************)
(* The Electron main process of DSH Desktop: it spawns the dsh backend,    *)
(* restarts it after a crash, keeps one window and stops the backend when  *)
(* the application quits.  Process exits, their exit events, the restart   *)
(* and rebuild timers and the user's actions interleave freely.            *)
(***************************************************************************)
EXTENDS Naturals, FiniteSets

CONSTANTS MaxRestarts,  \* MAX_RESTARTS
          MaxAbnormal   \* bound on renderer failures

(* Assumed by the modules that instantiate this one. *)
ShellAssumption == MaxRestarts \in Nat /\ MaxAbnormal \in Nat

VARIABLES
  app,           \* off, starting (startBackend pending), up, quitting, gone
  child,         \* the backend process the module holds, 0 for null
  stopping,      \* the stopping flag
  restartCount,
  timer,         \* a restart timeout is pending
  spawned,       \* processes spawned so far: they are numbered from 1
  alive,         \* processes running
  exited,        \* processes that ended and whose exit event is still to come
  killed,        \* processes sent a kill by stopBackend
  window,        \* the main window exists
  abnormal,      \* a renderer failure is recent (abnormalAt)
  rebuild,       \* a rebuild timeout is pending
  unopened,      \* observed by the properties: a rebuild has failed
  failures,      \* renderer failures so far, for the bound
  stopped        \* observed by the properties: stopBackend has been called

backendVars == <<child, stopping, restartCount, timer, spawned, alive, exited, killed>>
windowVars  == <<window, abnormal, rebuild, unopened, failures>>
vars == <<app, backendVars, windowVars, stopped>>

Null == 0

Init ==
  /\ app = "off"
  /\ child = Null /\ stopping = FALSE /\ restartCount = 0 /\ timer = FALSE
  /\ spawned = 0 /\ alive = {} /\ exited = {} /\ killed = {}
  /\ window = FALSE /\ abnormal = FALSE /\ rebuild = FALSE /\ failures = 0
  /\ unopened = FALSE
  /\ stopped = FALSE

--------------------------------------------------------------------------------
(* Plausible bugs: each is a mutated form of the definition it is named after *)

TimerLeftBug == TRUE                                       \* an interval, not a timeout
ReopensBug == ~window                                      \* tested before the window is gone

--------------------------------------------------------------------------------
(* Helpers *)

(* The exit handler's test. *)
MayRestart == ~stopping /\ restartCount < MaxRestarts

(* The process stopBackend sends a kill to. *)
Kills == {child} \ {Null}

(* The restart timeout fires once. *)
TimerLeft == FALSE

(* Whether reopenWindow arms its timeout: no window is left. *)
Reopens == ~window'

Boot ==
  /\ stopping' = FALSE
  /\ spawned' = spawned + 1
  /\ child' = spawned + 1
  /\ alive' = alive \union {spawned + 1}

(* app.quit(): before-quit calls stopBackend. *)
QuitAndStop ==
  /\ app' = "quitting"
  /\ stopping' = TRUE /\ stopped' = TRUE
  /\ killed' = killed \union Kills
  /\ child' = Null
  /\ UNCHANGED <<restartCount, timer, spawned, alive, exited>>

Up == app \in {"starting", "up"}
Running == app \in {"starting", "up", "quitting"}

--------------------------------------------------------------------------------
(* The backend process *)

Start ==
  /\ app = "off"
  /\ app' = "starting"
  /\ Boot
  /\ UNCHANGED <<restartCount, timer, exited, killed, windowVars, stopped>>

(* The backend answers on its port: create the window. *)
Ready ==
  /\ app = "starting" /\ alive # {}
  /\ app' = "up" /\ window' = TRUE
  /\ UNCHANGED <<backendVars, abnormal, rebuild, unopened, failures, stopped>>

(* READY_TIMEOUT_MS passed: the application reports it and quits. *)
ReadyFails ==
  /\ app = "starting"
  /\ QuitAndStop
  /\ UNCHANGED windowVars

(* A backend process crashes, exits, or dies of its kill, even after the shell. *)
ProcessEnds(p) ==
  /\ p \in alive
  /\ alive' = alive \ {p}
  /\ exited' = exited \union {p}
  /\ UNCHANGED <<app, child, stopping, restartCount, timer, spawned, killed, windowVars, stopped>>

(* Its exit event. *)
OnExit(p) ==
  /\ Running
  /\ p \in exited
  /\ exited' = exited \ {p}
  /\ child' = Null
  /\ IF MayRestart
     THEN restartCount' = restartCount + 1 /\ timer' = TRUE
     ELSE UNCHANGED <<restartCount, timer>>
  /\ UNCHANGED <<app, stopping, spawned, alive, killed, windowVars, stopped>>

(* The restart timeout fires: the shell has not exited yet. *)
Restart ==
  /\ Running
  /\ timer
  /\ timer' = TimerLeft
  /\ Boot
  /\ UNCHANGED <<app, restartCount, exited, killed, windowVars, stopped>>

--------------------------------------------------------------------------------
(* The window and the application *)

(* The renderer crashed, or hung and was forced to. *)
RendererFails ==
  /\ app = "up" /\ window
  /\ failures < MaxAbnormal
  /\ failures' = failures + 1
  /\ abnormal' = TRUE
  /\ UNCHANGED <<app, backendVars, window, rebuild, unopened, stopped>>

AbnormalExpires ==
  /\ abnormal
  /\ abnormal' = FALSE
  /\ UNCHANGED <<app, backendVars, window, rebuild, unopened, failures, stopped>>

(* The window closed, by the user or by a failure: window-all-closed. *)
WindowCloses ==
  /\ app = "up" /\ window
  /\ window' = FALSE
  /\ abnormal' = FALSE
  /\ IF abnormal
     THEN rebuild' = (rebuild \/ Reopens) /\ UNCHANGED <<app, backendVars, stopped>>
     ELSE QuitAndStop /\ UNCHANGED rebuild
  /\ UNCHANGED <<unopened, failures>>

(* The rebuild timeout fires: createWindow succeeds, *)
RebuildWindow ==
  /\ app = "up"
  /\ rebuild
  /\ rebuild' = FALSE /\ window' = TRUE
  /\ UNCHANGED <<app, backendVars, abnormal, unopened, failures, stopped>>

(* or fails, which is logged: nothing tries again and nothing quits. *)
RebuildFails ==
  /\ app = "up"
  /\ rebuild
  /\ rebuild' = FALSE /\ unopened' = TRUE
  /\ UNCHANGED <<app, backendVars, window, abnormal, failures, stopped>>

(* The menu's quit. *)
Quit ==
  /\ Up
  /\ QuitAndStop
  /\ UNCHANGED windowVars

(* Electron has quit: the shell's timers and handlers are gone. *)
AppExits ==
  /\ app = "quitting"
  /\ app' = "gone" /\ timer' = FALSE /\ rebuild' = FALSE /\ window' = FALSE
  /\ UNCHANGED <<child, stopping, restartCount, spawned, alive, exited, killed, abnormal,
                 unopened, failures, stopped>>

--------------------------------------------------------------------------------
Processes == 1..(MaxRestarts + 1)

Next ==
  \/ Start \/ Ready \/ ReadyFails \/ Restart
  \/ \E p \in Processes : ProcessEnds(p) \/ OnExit(p)
  \/ RendererFails \/ AbnormalExpires \/ WindowCloses \/ RebuildWindow \/ RebuildFails
  \/ Quit \/ AppExits

Spec == Init /\ [][Next]_vars

(* Events are delivered and timeouts fire; a killed process dies; Electron quits. *)
Fairness ==
  /\ WF_vars(Restart) /\ WF_vars(RebuildWindow \/ RebuildFails) /\ WF_vars(AppExits)
  /\ \A p \in Processes : WF_vars(OnExit(p)) /\ WF_vars(p \in killed /\ ProcessEnds(p))

FairSpec == Spec /\ Fairness

--------------------------------------------------------------------------------
(* Properties *)

TypeOK ==
  /\ app \in {"off", "starting", "up", "quitting", "gone"}
  /\ child \in 0..spawned /\ spawned \in 0..(MaxRestarts + 1)
  /\ restartCount \in 0..MaxRestarts
  /\ alive \subseteq 1..spawned /\ exited \subseteq 1..spawned /\ killed \subseteq 1..spawned
  /\ stopping \in BOOLEAN /\ timer \in BOOLEAN /\ stopped \in BOOLEAN
  /\ window \in BOOLEAN /\ abnormal \in BOOLEAN /\ rebuild \in BOOLEAN
  /\ unopened \in BOOLEAN /\ failures \in 0..MaxAbnormal

(* Two backends never run on the same port and $DSH_HOME: a restart waits for *)
(* the exit of the process it replaces, whatever crash or quit interleaves.   *)
OneBackend == Cardinality(alive) <= 1

(* The shell never loses a running backend: it holds it or has killed it. *)
NoUntrackedBackend == Running => \A p \in alive : p = child \/ p \in killed

(* Stopping the backend is final: once the application has called stopBackend *)
(* it spawns no other, which would outlive it.                               *)
StopIsFinal == [][stopped => spawned' = spawned]_vars

(* While the stop stands, no exit of the killed process arms a restart: only *)
(* one that was already pending can undo it.                                *)
StoppedStaysDown == [][stopping /\ ~timer => ~timer' /\ (spawned' = spawned \/ app = "off")]_vars

(* A window lost to a renderer failure comes back, or the application quits, *)
(* as long as no rebuild has failed.                                         *)
WindowComesBack == app = "up" /\ ~window ~> window \/ app # "up" \/ unopened

(* It comes back whatever happens to the rebuild. *)
WindowAlwaysBack == app = "up" /\ ~window ~> window \/ app # "up"

(* What any mix of crashes, stops, quits and renderer failures keeps. *)
ShellSafe == TypeOK /\ OneBackend /\ NoUntrackedBackend
================================================================================
