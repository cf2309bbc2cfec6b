------------------------------ MODULE MCWorkflow ------------------------------
(***************************************************************************)
(* TLC instances of WorkflowRun, as setups of one run: two agent() calls   *)
(* over one slot in a script that may leave them behind and a thread that  *)
(* may die; two calls at once and a thread that may die; and a script that *)
(* awaits its calls and narrates.                                          *)
(***************************************************************************)
EXTENDS WorkflowRun

Queued == [slots |-> 1, notes |-> 0, features |-> {"stray", "crash"}]
AtOnce == [slots |-> 2, notes |-> 0, features |-> {"crash"}]
Narrated == [slots |-> 1, notes |-> 1, features |-> {}]

QueuedAtOnceNarrated == {Queued, AtOnce, Narrated}

--------------------------------------------------------------------------------
(* What has been settled stays and death admits nothing.  With the host's own   *)
(* events alone a cancelled or dead run settles and dispose() returns; with a   *)
(* served port and providers that end, so do every call of a living worker and  *)
(* what a settled run left behind.                                              *)
RunSettles ==
  /\ DeathIsBarrier
  /\ setup = Queued /\ HostFairness => ResultSettles /\ DisposeEnds
  /\ setup = Queued /\ Fairness => CallsEnd /\ LeftoversEnd
================================================================================
