--------------------------- MODULE MCCFProcessor ----------------------------
(* CFProcessor for TLC.  "b" is a record of every client: one IOC that came *)
(* back under another port, or several that serve it.                      *)
EXTENDS CFProcessor

Ports == [s \in Sessions |-> s]
OnePort == [s \in Sessions |-> "h:1"]
TwoNames == {"a", "b"}
WithAlias == {"a", "b", "b2"}
OneName == {"b"}
SharedRecs == [s \in Sessions |-> IF s = "s1" THEN Names \cap {"a", "b"} ELSE {"b"}]
NoAliases == [n \in Names |-> {}]
AliasOfB == [n \in Names |-> IF n = "b" THEN {"b2"} ELSE {}]
=============================================================================
