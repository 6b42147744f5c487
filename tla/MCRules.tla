------------------------------ MODULE MCRules --------------------------------
(* A small instance of Rules for TLC.                                        *)
EXTENDS Rules

CONSTANTS a1, a2, a3, a4

(* With four cpus rule2 has four threads to give, rule1 and rule3 eight.     *)
(* a2 and a4 have as many cache misses, all other numbers differ, so every   *)
(* comparison can go both ways.                                              *)
MCThreads == (a1 :> 1) @@ (a2 :> 2) @@ (a3 :> 3) @@ (a4 :> 4)
MCRam == (a1 :> 2) @@ (a2 :> 3) @@ (a3 :> 1) @@ (a4 :> 4)
MCMisses == (a1 :> 20) @@ (a2 :> 10) @@ (a3 :> 30) @@ (a4 :> 10)
==============================================================================
