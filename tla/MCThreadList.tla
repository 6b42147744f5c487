--------------------------- MODULE MCThreadList -------------------------------
(* An instance of ThreadList for TLC.                                        *)
EXTENDS ThreadList

CONSTANTS main, t1, t2
==============================================================================
