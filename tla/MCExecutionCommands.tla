------------------------ MODULE MCExecutionCommands ------------------------
(* Small instances of ExecutionCommands. *)
EXTENDS ExecutionCommands, TLC

\* Supervisors are interchangeable; commands are not, their order breaks ties.
SupervisorSymmetry == Permutations(Supervisors)
=============================================================================
