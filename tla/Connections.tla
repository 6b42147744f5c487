----------------------------- MODULE Connections -----------------------------
(***************************************************************************)
(* The stream connections that Stream promises about and Sockets keeps.    *)
(***************************************************************************)
EXTENDS Naturals, Sequences

CONSTANTS
    Ends,       \* the ends of the connections
    Peer,       \* the other end of each
    MaxSent,    \* bound: items written at each end
    NoImage     \* no checkpoint has been taken yet

ASSUME ConnectionsAssumption ==
    /\ Peer \in [Ends -> Ends]
    /\ \A e \in Ends : Peer[Peer[e]] = e /\ Peer[e] # e
    /\ MaxSent \in Nat

(* What there is to say of the connections at one moment: which ends are    *)
(* open, how many items were written at each, which were read, which are on *)
(* their way.                                                               *)
States == [open  : SUBSET Ends,
           sent  : [Ends -> Nat],
           rcvd  : [Ends -> Seq(Nat)],
           queue : [Ends -> Seq(Nat)]]

ASSUME NoImageAssumption == NoImage \notin States
==============================================================================
