----------------------------- MODULE MCCastLink -----------------------------
(* CastReceiver and RecCaster clients, for TLC.                            *)
EXTENDS CastLink

MCNonces == {1, 2}
=============================================================================
