------------------------------ MODULE MCPaging ------------------------------
(* The first process uses more pages than the limit leaves it, the second  *)
(* one of the same virtual pages and its image, the thread one of its own. *)
EXTENDS Paging, TLC

CONSTANTS sh, p1, p2, th, a, b, c, d, e

Uses(threads) == [t \in Task |->
    IF t = p1 THEN Page \ {e} ELSE IF t = p2 THEN {a, Image} ELSE IF t = th THEN threads ELSE {}]
Own == Uses({e})

Alike == Permutations({b, c, d})
=============================================================================
