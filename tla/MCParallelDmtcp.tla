------------------------- MODULE MCParallelDmtcp ------------------------------
(* Small instances of ParallelDmtcp for TLC.                                 *)
EXTENDS ParallelDmtcp

CONSTANTS a1, a2, a3

(* Two applications of one thread fit together, the one of two threads runs  *)
(* alone: every reselection can swap one for two or two for one.             *)
MCThreads == [a \in Apps |-> IF a = a3 THEN 2 ELSE 1]
MCRam == [a \in Apps |-> IF a = a3 THEN 4 ELSE 2]
==============================================================================
