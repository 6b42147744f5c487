------------------------------- MODULE Stream --------------------------------
(***************************************************************************)
(* What checkpointing promises to the two ends of a stream connection: the *)
(* bytes written at one end are read at the other in order, each of them   *)
(* once; a checkpoint changes nothing; a restart takes both ends and what   *)
(* is between them back to the last checkpoint, together.  Sockets is the  *)
(* way the DMTCP worker keeps the promise.                                 *)
(***************************************************************************)
EXTENDS Connections

VARIABLES
    open,       \* the ends that some process holds
    sent,       \* how many items have been written at each end
    rcvd,       \* what has been read at each end
    queue,      \* what is on its way to each end
    snap        \* all of that at the last checkpoint

vars == <<open, sent, rcvd, queue, snap>>

Now == [open |-> open, sent |-> sent, rcvd |-> rcvd, queue |-> queue]

Init ==
    /\ open = Ends
    /\ sent = [e \in Ends |-> 0]
    /\ rcvd = [e \in Ends |-> <<>>]
    /\ queue = [e \in Ends |-> <<>>]
    /\ snap = NoImage

Send(e) ==
    /\ e \in open /\ Peer[e] \in open /\ sent[e] < MaxSent
    /\ sent' = [sent EXCEPT ![e] = @ + 1]
    /\ queue' = [queue EXCEPT ![Peer[e]] = Append(@, sent[e] + 1)]
    /\ UNCHANGED <<open, rcvd, snap>>

Recv(e) ==
    /\ e \in open /\ queue[e] # <<>>
    /\ rcvd' = [rcvd EXCEPT ![e] = Append(@, Head(queue[e]))]
    /\ queue' = [queue EXCEPT ![e] = Tail(@)]
    /\ UNCHANGED <<open, sent, snap>>

(* The last process that held the end closes it; what it has not read is    *)
(* gone, what it has written is not.                                        *)
Close(e) ==
    /\ e \in open
    /\ open' = open \ {e}
    /\ queue' = [queue EXCEPT ![e] = <<>>]
    /\ UNCHANGED <<sent, rcvd, snap>>

Checkpoint ==
    /\ snap' = Now
    /\ UNCHANGED <<open, sent, rcvd, queue>>

Restart ==
    /\ snap # NoImage
    /\ open' = snap.open /\ sent' = snap.sent
    /\ rcvd' = snap.rcvd /\ queue' = snap.queue
    /\ UNCHANGED snap

Next == Checkpoint \/ Restart \/ \E e \in Ends : Send(e) \/ Recv(e) \/ Close(e)

Spec == Init /\ [][Next]_vars

------------------------------------------------------------------------------
Numbers(n) == [i \in 1 .. n |-> i]

(* Nothing is lost, repeated or out of order: what an end has read, and     *)
(* what is on its way to it, is what the other end has written.             *)
InOrder == \A e \in open : rcvd[e] \o queue[e] = Numbers(sent[Peer[e]])
==============================================================================
