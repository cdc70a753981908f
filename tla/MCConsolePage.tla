--------------------------- MODULE MCConsolePage ---------------------------
(* Instance of ConsolePage for TLC.                                        *)
EXTENDS ConsolePage
=============================================================================
