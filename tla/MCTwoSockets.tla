----------------------------- MODULE MCTwoSockets ----------------------------
(***************************************************************************)
(* An instance of Sockets for TLC: two connections between two processes,  *)
(* whose descriptors are in the opposite order.                            *)
(***************************************************************************)
EXTENDS Sockets

CONSTANTS acc1, con1, acc2, con2, p1, p2

MCLayouts == {[e \in Ends |-> IF e \in Accepting THEN {p1} ELSE {p2}]}

MCPeer ==
    [e \in {acc1, con1, acc2, con2} |->
        CASE e = acc1 -> con1 [] e = con1 -> acc1 [] e = acc2 -> con2 [] OTHER -> acc2]

MCFd ==
    [p \in {p1, p2} |->
        [e \in {acc1, con1, acc2, con2} |->
            CASE e = acc1 -> 3 [] e = acc2 -> 4 [] e = con2 -> 5 [] OTHER -> 6]]

MCParent == [p \in {p1, p2} |-> None]

MCSndBuf == [e \in {acc1, con1, acc2, con2} |-> 1]
MCRcvBuf == [e \in {acc1, con1, acc2, con2} |-> 0]
==============================================================================
