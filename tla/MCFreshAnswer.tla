--------------------------- MODULE MCFreshAnswer ---------------------------
(* Every question of FreshAnswer's tables: 39 keys with nothing, a label or  *)
(* the longest prefixes before them, thirteen types, and the odd queries.    *)
EXTENDS FreshAnswer
=============================================================================
