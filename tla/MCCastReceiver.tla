--------------------------- MODULE MCCastReceiver ---------------------------
(* CastReceiver with an arbitrary peer, for TLC.                           *)
EXTENDS CastReceiver

ConnSymmetry == Permutations(Conns)
MCNonces == {1, 2}
=============================================================================
