-------------------------------- MODULE MCRounds -------------------------------
(***************************************************************************)
(* Two parts that open turns nobody typed, which share no state: the       *)
(* driver of goal rounds and the schedule of a session.  They are checked  *)
(* side by side: the initial state picks the part that runs, the other     *)
(* stands still.  The rounds run with a bare driver, and with listeners    *)
(* that await behind its checks and cancels that keep the inbox.  The      *)
(* schedule runs with one reminder and every fault but a crash (Alone),    *)
(* with a pair of one-shots over a crash and restart (Pair), and with one  *)
(* over a restart and an agent that takes up turns of its own (Working).   *)
(***************************************************************************)
EXTENDS GoalRounds

CONSTANTS Horizon, Delays, MaxDelay, Setups

VARIABLES
  part, setup,
  now, log, stored, host, phase, latched, queue, drive, tool, again, timer, idleWait, stopping,
  faulted, missed, faults, setBacks, restarts, turns

Reminders == INSTANCE Schedule WITH requested <- again, wake <- latched

ASSUME ScheduleInstance == Reminders!ScheduleBounds

(* The two compositions of the driver that are checked. *)
BareAndCrowded == {{}, {"outer", "keep"}}

scheduleVars == <<setup, now, log, stored, host, phase, latched, queue, drive, tool, again, timer, idleWait,
                  stopping, faulted, missed, faults, setBacks, restarts, turns>>

(* The three setups that are checked: one reminder and every fault but a     *)
(* crash, two one-shots over a crash and restart, and one over a restart     *)
(* beside turns of the agent.                                                *)
Alone == [intervals |-> {2}, ids |-> 1, time |-> 3, faults |-> 1, setBacks |-> 1, restarts |-> 0, turns |-> 1]
Pair == [Alone EXCEPT !.intervals = {}, !.ids = 2, !.time = 2, !.faults = 0, !.setBacks = 0, !.restarts = 1]
Working == [Alone EXCEPT !.intervals = {}, !.faults = 0, !.setBacks = 0, !.restarts = 1, !.turns = 2]
AlonePairWorking == {Alone, Pair, Working}

(* The part that does not run is in an initial state. *)
MCInit ==
  /\ part \in {"rounds", "reminders"}
  /\ Init /\ Reminders!Init
  /\ part = "rounds" => setup = CHOOSE s \in Setups : TRUE
  /\ part = "reminders" => goal.phase = "none" /\ features = {}

MCNext ==
  \/ part = "rounds" /\ Next /\ UNCHANGED <<part, scheduleVars>>
  \/ part = "reminders" /\ Reminders!Next /\ UNCHANGED <<part, vars>>

MCSpec == MCInit /\ [][MCNext]_<<part, vars, scheduleVars>>

--------------------------------------------------------------------------------
(* Properties *)

(* No reminder is lost by a crash, sent early, repeated without a restart or *)
(* left unwatched, and a fixed rate keeps to its grid.                       *)
RemindersHold == part = "reminders" => Reminders!ScheduleSafe

(* With no listener behind its checks, a round that enters the log is the    *)
(* next round of the goal's revision; with some, types are still kept.       *)
RoundsHold == part = "rounds" => RoundsSafe

(* A round yields to people, follows a checkpoint and stays away after a     *)
(* cancel and while the driver unloads.                                      *)
RoundSteps ==
  /\ [][(Fenced => YieldStep) /\ CheckpointStep]_vars
  /\ StopSteps

(* Promises settle, timers fire and time passes: what is due is served,      *)
(* disposals end, and the armed goal of a bare driver gets its next round or *)
(* is stopped.                                                               *)
RoundsMove ==
  /\ part = "reminders" /\ setup # Pair /\ Reminders!Fairness =>
       Reminders!OverdueIsServed /\ Reminders!DisposeEnds
  /\ part = "rounds" /\ features = {} /\ Fairness => GoalMoves
================================================================================
