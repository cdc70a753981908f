----------------------------- MODULE MCConsent -----------------------------
(* Instance of Consent for TLC: no finding, one, or the same application   *)
(* twice, which is what the server's rule can report.                      *)
EXTENDS Consent

CONSTANT app

MCResponses == {<<>>, <<app>>, <<app, app>>}
=============================================================================
