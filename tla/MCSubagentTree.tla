--------------------------- MODULE MCSubagentTree ---------------------------
EXTENDS SubagentTree, TLC

(* Abort requests are interchangeable, and so are the subagents' sessions.  *)
Symmetry == Permutations(Aborts) \cup Permutations(Sessions \ {Root})
=============================================================================
