------------------------------ MODULE MCSockets ------------------------------
(***************************************************************************)
(* An instance of Sockets for TLC: one connection.                         *)
(***************************************************************************)
EXTENDS Sockets

CONSTANTS acc, con, p1, p2

(* Each end in a process of its own; or the parent has kept both ends and   *)
(* shares one of them with its child.                                       *)
MCLayouts ==
    {[e \in {acc, con} |-> IF e = acc THEN {p1} ELSE {p2}],
     [e \in {acc, con} |-> IF e = acc THEN {p1, p2} ELSE {p2}]}

MCParent == [p \in {p1, p2} |-> IF p = p1 THEN p2 ELSE None]

MCSignalled == {<<p1, acc>>}

MCPeer == [e \in {acc, con} |-> IF e = acc THEN con ELSE acc]

MCFd == [p \in {p1, p2} |-> [e \in {acc, con} |-> IF e = acc THEN 3 ELSE 4]]

MCSndBuf == [e \in {acc, con} |-> 1]
MCRcvBuf == [e \in {acc, con} |-> IF e = acc THEN 1 ELSE 0]
==============================================================================
