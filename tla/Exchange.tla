------------------------------ MODULE Exchange ------------------------------
(***************************************************************************)
(* What one connection between agent and server promises: the server       *)
(* performs a request (an enrollment, a check-in) at most once and only    *)
(* one the agent made whole, and the agent has an answer only to a request *)
(* that was performed.  An agent that gave up does not know whether its    *)
(* request was performed, or will be.                                      *)
(***************************************************************************)
VARIABLES asked, outcome, client

vars == <<asked, outcome, client>>

Init == asked = FALSE /\ outcome = "none" /\ client = "waiting"

Ask ==
  /\ client = "waiting" /\ ~asked
  /\ asked' = TRUE
  /\ UNCHANGED <<outcome, client>>

Perform ==
  /\ asked /\ outcome = "none"
  /\ outcome' = "performed"
  /\ UNCHANGED <<asked, client>>

Answer ==
  /\ client = "waiting" /\ outcome = "performed"
  /\ client' = "answered"
  /\ UNCHANGED <<asked, outcome>>

GiveUp ==
  /\ client = "waiting"
  /\ client' = "failed"
  /\ UNCHANGED <<asked, outcome>>

Next == Ask \/ Perform \/ Answer \/ GiveUp

Spec == Init /\ [][Next]_vars
=============================================================================
