----------------------------- MODULE MCChannel -----------------------------
(* Instance of Channel for TLC: bodies of one to three units, of which two *)
(* fit into a message.                                                     *)
EXTENDS Channel
=============================================================================
