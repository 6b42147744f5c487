------------------------------ MODULE MCParallel ------------------------------
(* Small instances of Parallel for TLC.                                       *)
EXTENDS Parallel

(* A limit of 3 threads lets two or three of the instances 1, 2 and 3 run     *)
(* together and 4 alone; with the other limit, 2, instance 4 never fits.      *)
MCThreads == ("1" :> 1) @@ ("2" :> 1) @@ ("3" :> 2) @@ ("4" :> 3) @@ ("5" :> 1) @@ ("6" :> 1)

(* A group of four, one of two that shares both with it, and one of one.      *)
MCMembers ==
    ("G1" :> <<"1", "2", "3", "4">>) @@ ("G2" :> <<"2", "4">>) @@ ("G3" :> <<"5">>)
==============================================================================
