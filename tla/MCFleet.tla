------------------------------ MODULE MCFleet ------------------------------
(* Instances of Fleet for TLC.                                             *)
EXTENDS Fleet, TLC

\* Connections are interchangeable, and so are key pairs, workspaces before
\* they are created, names and server keys; sound where no liveness is checked.
Symmetry == Permutations(Sessions) \cup Permutations(Keys)
              \cup Permutations(Workspaces) \cup Permutations(ServerKeys)
              \cup Permutations(Clients) \cup Permutations(Names)
=============================================================================
