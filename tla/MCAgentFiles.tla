---------------------------- MODULE MCAgentFiles ----------------------------
(* Instances of AgentFiles for TLC.                                        *)
EXTENDS AgentFiles, TLC

\* Processes are interchangeable; used where no liveness is checked.
Symmetry == Permutations(Procs)
=============================================================================
