------------------------------ MODULE MCCompaction -----------------------------
(***************************************************************************)
(* The compaction of what a session has said, on a conversation of up to   *)
(* six records: the window takes four, two are kept behind a summary.      *)
(***************************************************************************)
EXTENDS Compaction

ASSUME SurfaceBounds == CompactionAssumption

--------------------------------------------------------------------------------
(* Properties *)

(* Calls and results stay paired, the surface stands for the whole history,  *)
(* once and in order, a summary replaces what it was made from, and the lock *)
(* is held by an operation at work or by a close that failed.                *)
SurfaceHolds == SurfaceSafe

(* A compaction leaves the retained tail, and no turn begins or ends in it. *)
CompactionSteps == TailKept /\ TurnsOutside
================================================================================
