------------------------------- MODULE MCWire -------------------------------
(* One environment variable and two records, of which the first has an      *)
(* alias, an info and a description.  The key field holds 0 and 1 and the   *)
(* value field 0 to 2, so that lengths fit, wrap to 0 or to a shorter text. *)
EXTENDS Wire

Item(k, r) == [kind |-> k, rec |-> r]
TwoRecords == <<Item("env", 0), Item("record", 1), Item("alias", 1), Item("info", 1),
                Item("recordDesc", 1), Item("record", 2)>>
=============================================================================
