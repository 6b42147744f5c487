--------------------------- MODULE MCCoordinator -----------------------------
(***************************************************************************)
(* Instances of Coordinator for TLC.                                       *)
(***************************************************************************)
EXTENDS Coordinator, TLC

CONSTANTS w1, w2, w3, c1, c2

(* A blocking checkpoint and a second command of any kind.                  *)
AnyRequests == c1 :> {"bc"} @@ c2 :> {"bc", "xc", "c", "k", "i", "q"}

(* The same without kill and quit.                                          *)
Checkpoints == c1 :> {"bc"} @@ c2 :> {"bc", "xc", "c", "i"}

(* A blocking checkpoint and a plain one.                                   *)
BlockingAndPlain == c1 :> {"bc"} @@ c2 :> {"c"}

NoCrash == {}
CrashAnywhere == UNKNOWN .. REFILLED

Symmetry == Permutations(Workers)
==============================================================================
