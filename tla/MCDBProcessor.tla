---------------------------- MODULE MCDBProcessor ---------------------------
(* Uploads that add record 1, replace it by record 2, or give record 1,     *)
(* which may not be there, an alias.                                       *)
EXTENDS DBProcessor

Body(a, d, n) == [adds |-> a, dels |-> d, aliases |-> n]
SomeBodies == {Body({1}, {}, {}), Body({2}, {1}, {2}), Body({}, {}, {1})}
Empty == Body({}, {}, {})
DbAndShow == <<"db", "show">>
ShowLast == {"show"}
FirstOrOther == [s \in Sessions |-> IF s = 1 THEN {"h:1"} ELSE {"h:1", "h:2"}]
=============================================================================
