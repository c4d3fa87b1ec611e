---------------------------- MODULE MCDiscovery -----------------------------
(* One client behind an address that cannot be written to, before one that  *)
(* is unreachable.                                                         *)
EXTENDS Discovery

Lan == <<"a", "b", "z">>
Faulty == [a |-> "MessageLengthError", b |-> "ok", z |-> "OSError"]
AtB == [c \in Clients |-> "b"]
=============================================================================
