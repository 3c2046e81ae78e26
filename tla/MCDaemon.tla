------------------------------- MODULE MCDaemon -------------------------------
(* Commands and process ids are interchangeable. *)
EXTENDS Daemon, TLC

Symmetry == Permutations(Commands) \cup Permutations(Pids)
=============================================================================
