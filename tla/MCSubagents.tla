------------------------------ MODULE MCSubagents ------------------------------
(***************************************************************************)
(* TLC instances of SubagentTree, as setups of one run: a child at work    *)
(* and a grandchild to be, under both drains; and a chain of three         *)
(* generations, whose younger two start, are interrupted and drained in    *)
(* part, or report and fail.                                               *)
(***************************************************************************)
EXTENDS SubagentTree, TLC

CONSTANTS R, A, B, C, o1, o2

ParentInChain == (A :> R) @@ (B :> A) @@ (C :> B)

Drained ==
  [children |-> {A, B}, started |-> {A}, ops |-> {o1, o2}, reports |-> 0,
   features |-> {"abort", "drain", "scope"}, live |-> TRUE]
Chain ==
  [children |-> {A, B, C}, started |-> {A, B}, ops |-> {o1}, reports |-> 0,
   features |-> {"interrupt", "abort", "scope", "select"}, live |-> FALSE]
Telling ==
  [children |-> {A, B, C}, started |-> {A, B}, ops |-> {o1}, reports |-> 2,
   features |-> {"abort", "fail"}, live |-> FALSE]

DrainedChainTelling == {Drained, Chain, Telling}

--------------------------------------------------------------------------------
(* No teardown is woken by a notice of its own descendants; with turns and      *)
(* awaits that end, every call, drain and accepted message does too, and the    *)
(* forest settles.                                                              *)
TreeSettles ==
  /\ NoTurnInTeardown
  /\ setup.live /\ Fairness => CallsEnd /\ AcceptedLeave /\ AllSettle /\ DrainsEnd
================================================================================
