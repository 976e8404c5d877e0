------------------------- MODULE MCValueNumberTable -------------------------
(* Five expressions, three of which meet in one slot of every table, one    *)
(* that only the larger table separates from them and one at the last slot, *)
(* so that probing wraps around.                                            *)
EXTENDS ValueNumberTable

MCKeys == {"a", "b", "c", "d", "e"}
MCHash == [k \in MCKeys |-> CASE k \in {"a", "b", "c"} -> 3 [] k = "d" -> 11 [] k = "e" -> 15]
=============================================================================
