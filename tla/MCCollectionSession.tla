------------------------ MODULE MCCollectionSession -------------------------
(* CollectionSession for TLC.                                              *)
EXTENDS CollectionSession

MCRecIds == {1, 2, 3}
MCEnvKeys == {"IOCNAME"}
=============================================================================
