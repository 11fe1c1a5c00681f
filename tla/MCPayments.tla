----------------------------- MODULE MCPayments -----------------------------
(* Payments for TLC: tasks of one kind, and intents, are interchangeable.  *)
EXTENDS Payments, TLC

Symmetry ==
  Permutations(ApiTasks) \cup Permutations(WorkerTasks) \cup Permutations(Intents)
=============================================================================
