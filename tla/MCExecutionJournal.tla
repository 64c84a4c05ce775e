------------------------- MODULE MCExecutionJournal -------------------------
(* ExecutionJournal for TLC. *)
EXTENDS ExecutionJournal, TLC

WorkerSymmetry == Permutations(Workers)
=============================================================================
