--------------------------- MODULE MCAdminAccess ---------------------------
(* Instances of AdminAccess for TLC: one browser, every tab of it.         *)
EXTENDS AdminAccess, TLC

CONSTANT b1

MCBrowsers  == {b1}
MCBrowserOf == [t \in Tabs |-> b1]

\* Tokens, tabs and requests are interchangeable; used where no liveness is
\* checked.
Symmetry == Permutations(Tokens) \cup Permutations(Tabs) \cup Permutations(Requests)
=============================================================================
