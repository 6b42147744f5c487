---------------------------- MODULE StreamProofs -----------------------------
(***************************************************************************)
(* Stream keeps the order of what is written, for any connections and any  *)
(* number of items, checkpoints and restarts.  Since Sockets implements    *)
(* Stream, this is what the application sees of a checkpointed socket.     *)
(***************************************************************************)
EXTENDS Stream, SequenceTheorems, TLAPS

Ordered(s) ==
    \A e \in s.open : s.rcvd[e] \o s.queue[e] = Numbers(s.sent[Peer[e]])

(* A restart goes back to the snapshot, so that it must be in order as well. *)
IndInv ==
    /\ Now \in States /\ Ordered(Now)
    /\ snap # NoImage => snap \in States /\ Ordered(snap)

(* The numbers from 1 to n, in their order.                                 *)
LEMMA NumbersProperties ==
    ASSUME NEW n \in Nat
    PROVE  /\ Numbers(n) \in Seq(Nat)
           /\ Len(Numbers(n)) = n
           /\ \A i \in 1 .. n : Numbers(n)[i] = i
<1>1. Numbers(n) \in [1 .. n -> Nat]
  BY DEF Numbers
<1>2. Numbers(n) \in Seq(Nat)
  BY <1>1, SeqDef
<1>3. DOMAIN Numbers(n) = 1 .. n /\ \A i \in 1 .. n : Numbers(n)[i] = i
  BY DEF Numbers
<1>4. Len(Numbers(n)) = n
  BY <1>2, <1>3, LenProperties
<1>5. QED
  BY <1>2, <1>3, <1>4

(* One more number.                                                         *)
LEMMA NumbersNext ==
    ASSUME NEW n \in Nat
    PROVE  Append(Numbers(n), n + 1) = Numbers(n + 1)
<1>1. /\ Append(Numbers(n), n + 1) \in Seq(Nat)
      /\ Len(Append(Numbers(n), n + 1)) = n + 1
      /\ \A i \in 1 .. n : Append(Numbers(n), n + 1)[i] = i
      /\ Append(Numbers(n), n + 1)[n + 1] = n + 1
  BY NumbersProperties, AppendProperties
<1>2. n + 1 \in Nat /\ \A i \in 1 .. n + 1 : i \in 1 .. n \/ i = n + 1
  OBVIOUS
<1>3. /\ Numbers(n + 1) \in Seq(Nat)
      /\ Len(Numbers(n + 1)) = n + 1
      /\ \A i \in 1 .. n + 1 : Numbers(n + 1)[i] = i
  BY <1>2, NumbersProperties
<1>4. \A i \in 1 .. n + 1 : Append(Numbers(n), n + 1)[i] = Numbers(n + 1)[i]
  BY <1>1, <1>2, <1>3, Zenon
<1>5. QED
  BY <1>1, <1>3, <1>4, SeqEqual, Zenon

(* One more item is written at the end.                                     *)
LEMMA NumbersAppend ==
    ASSUME NEW n \in Nat, NEW s \in Seq(Nat), NEW t \in Seq(Nat), s \o t = Numbers(n)
    PROVE  s \o Append(t, n + 1) = Numbers(n + 1)
<1>1. n + 1 \in Nat
  OBVIOUS
<1>2. <<n + 1>> \in Seq(Nat)
  BY <1>1
<1>3. Append(t, n + 1) = t \o <<n + 1>>
  BY <1>1, AppendIsConcat, Zenon
<1>4. (s \o t) \o <<n + 1>> = s \o (t \o <<n + 1>>)
  BY <1>2, ConcatAssociative
<1>5. Numbers(n) \o <<n + 1>> = Append(Numbers(n), n + 1)
  BY <1>1, NumbersProperties, AppendIsConcat, Zenon
<1>6. QED
  BY <1>3, <1>4, <1>5, NumbersNext, Zenon

(* What is read moves from one sequence to the other.                       *)
LEMMA ReadKeepsOrder ==
    ASSUME NEW s \in Seq(Nat), NEW t \in Seq(Nat), t # <<>>
    PROVE  Append(s, Head(t)) \o Tail(t) = s \o t
<1>1. Head(t) \in Nat /\ Tail(t) \in Seq(Nat)
  BY HeadTailProperties
<1>2. Append(s, Head(t)) = s \o <<Head(t)>>
  BY <1>1, AppendIsConcat
<1>3. (s \o <<Head(t)>>) \o Tail(t) = s \o (<<Head(t)>> \o Tail(t))
  BY <1>1, ConcatAssociative
<1>4. <<Head(t)>> \o Tail(t) = t
  BY <1>1
<1>5. QED
  BY <1>2, <1>3, <1>4

(* The first state of a connection.                                         *)
LEMMA InitInv == Init => IndInv
<1> SUFFICES ASSUME Init PROVE IndInv
  OBVIOUS
<1>1. Now \in States
  BY DEF Init, Now, States
<1>2. ASSUME NEW e \in Ends PROVE rcvd[e] \o queue[e] = Numbers(sent[Peer[e]])
  BY ConnectionsAssumption DEF Init, Numbers
<1>3. QED
  BY <1>1, <1>2 DEF Init, IndInv, Now, Ordered

(* The states a record describes, one field at a time.                      *)
LEMMA NowProperties ==
    /\ Now \in States <=>
          /\ open \in SUBSET Ends
          /\ sent \in [Ends -> Nat]
          /\ rcvd \in [Ends -> Seq(Nat)]
          /\ queue \in [Ends -> Seq(Nat)]
    /\ Ordered(Now) <=> \A e \in open : rcvd[e] \o queue[e] = Numbers(sent[Peer[e]])
BY DEF Now, States, Ordered

(* Every step keeps the present and the snapshot in order.                  *)
LEMMA NextInv == IndInv /\ [Next]_vars => IndInv'
<1> SUFFICES ASSUME IndInv, [Next]_vars PROVE IndInv'
  OBVIOUS
<1>a. /\ open \in SUBSET Ends
      /\ sent \in [Ends -> Nat]
      /\ rcvd \in [Ends -> Seq(Nat)]
      /\ queue \in [Ends -> Seq(Nat)]
  BY NowProperties DEF IndInv
<1>b. \A e \in open : rcvd[e] \o queue[e] = Numbers(sent[Peer[e]])
  BY NowProperties DEF IndInv
<1>c. snap # NoImage => snap \in States /\ Ordered(snap)
  BY DEF IndInv
<1>1. ASSUME NEW e \in Ends, Send(e) PROVE IndInv'
  <2>1. /\ open' \in SUBSET Ends
        /\ sent' \in [Ends -> Nat]
        /\ rcvd' \in [Ends -> Seq(Nat)]
        /\ queue' \in [Ends -> Seq(Nat)]
    BY <1>1, <1>a, ConnectionsAssumption DEF Send
  <2>2. ASSUME NEW f \in open' PROVE rcvd'[f] \o queue'[f] = Numbers(sent'[Peer[f]])
    <3>0. f \in open /\ f \in Ends
      BY <1>1, <1>a, <2>2 DEF Send
    <3>1. CASE f = Peer[e]
      <4>1. sent'[e] = sent[e] + 1 /\ queue'[f] = Append(queue[f], sent[e] + 1) /\ rcvd' = rcvd
        BY <1>1, <1>a, <3>0, <3>1 DEF Send
      <4>2. Peer[f] = e
        BY <3>1, ConnectionsAssumption
      <4>3. rcvd[f] \o queue[f] = Numbers(sent[e])
        BY <1>b, <3>0, <4>2
      <4>4. rcvd[f] \o Append(queue[f], sent[e] + 1) = Numbers(sent[e] + 1)
        BY <1>a, <3>0, <4>3, NumbersAppend
      <4>5. QED
        BY <4>1, <4>2, <4>4
    <3>2. CASE f # Peer[e]
      <4>1. Peer[f] # e
        BY <3>0, <3>2, ConnectionsAssumption
      <4>2. sent'[Peer[f]] = sent[Peer[f]] /\ queue'[f] = queue[f] /\ rcvd' = rcvd
        BY <1>1, <1>a, <3>0, <3>2, <4>1, ConnectionsAssumption DEF Send
      <4>3. QED
        BY <1>b, <3>0, <4>2
    <3>3. QED
      BY <3>1, <3>2
  <2>3. snap' = snap
    BY <1>1 DEF Send
  <2>4. QED
    BY <1>c, <2>1, <2>2, <2>3 DEF IndInv, Now, States, Ordered
<1>2. ASSUME NEW e \in Ends, Recv(e) PROVE IndInv'
  <2>0. Head(queue[e]) \in Nat /\ Tail(queue[e]) \in Seq(Nat)
    BY <1>2, <1>a, HeadTailProperties DEF Recv
  <2>1. /\ open' \in SUBSET Ends
        /\ sent' \in [Ends -> Nat]
        /\ rcvd' \in [Ends -> Seq(Nat)]
        /\ queue' \in [Ends -> Seq(Nat)]
    BY <1>2, <1>a, <2>0 DEF Recv
  <2>2. ASSUME NEW f \in open' PROVE rcvd'[f] \o queue'[f] = Numbers(sent'[Peer[f]])
    <3>0. f \in open /\ f \in Ends /\ sent' = sent
      BY <1>2, <1>a, <2>2 DEF Recv
    <3>1. CASE f = e
      <4>1. rcvd'[f] = Append(rcvd[f], Head(queue[f])) /\ queue'[f] = Tail(queue[f])
        BY <1>2, <1>a, <3>0, <3>1 DEF Recv
      <4>2. Append(rcvd[f], Head(queue[f])) \o Tail(queue[f]) = rcvd[f] \o queue[f]
        BY <1>2, <1>a, <3>0, <3>1, ReadKeepsOrder DEF Recv
      <4>3. QED
        BY <1>b, <3>0, <4>1, <4>2
    <3>2. CASE f # e
      <4>1. rcvd'[f] = rcvd[f] /\ queue'[f] = queue[f]
        BY <1>2, <1>a, <3>0, <3>2 DEF Recv
      <4>2. QED
        BY <1>b, <3>0, <4>1
    <3>3. QED
      BY <3>1, <3>2
  <2>3. snap' = snap
    BY <1>2 DEF Recv
  <2>4. QED
    BY <1>c, <2>1, <2>2, <2>3 DEF IndInv, Now, States, Ordered
<1>3. ASSUME NEW e \in Ends, Close(e) PROVE IndInv'
  <2>1. /\ open' \in SUBSET Ends
        /\ sent' \in [Ends -> Nat]
        /\ rcvd' \in [Ends -> Seq(Nat)]
        /\ queue' \in [Ends -> Seq(Nat)]
    BY <1>3, <1>a, EmptySeq DEF Close
  <2>2. ASSUME NEW f \in open' PROVE rcvd'[f] \o queue'[f] = Numbers(sent'[Peer[f]])
    BY <1>3, <1>a, <1>b, <2>2 DEF Close
  <2>3. snap' = snap
    BY <1>3 DEF Close
  <2>4. QED
    BY <1>c, <2>1, <2>2, <2>3 DEF IndInv, Now, States, Ordered
<1>4. CASE Checkpoint
  BY <1>4 DEF Checkpoint, IndInv, Now, States, Ordered
<1>5. CASE Restart
  <2>1. snap \in States /\ Ordered(snap) /\ snap' = snap
    BY <1>5, <1>c DEF Restart
  <2>2. Now' = snap
    BY <1>5, <2>1 DEF Restart, Now, States
  <2>3. QED
    BY <2>1, <2>2 DEF IndInv, Ordered
<1>6. CASE UNCHANGED vars
  BY <1>6 DEF vars, IndInv, Now, States, Ordered
<1>7. QED
  BY <1>1, <1>2, <1>3, <1>4, <1>5, <1>6 DEF Next

(* The promise of Stream: at every end that is open, what has been read and *)
(* what is on its way is exactly what the other end has written, in order,  *)
(* also across checkpoints (KernelBufferDrainer) and restarts.              *)
THEOREM StreamInOrder == Spec => []InOrder
<1>1. IndInv => InOrder
  BY NowProperties DEF IndInv, InOrder
<1>2. QED
  BY InitInv, NextInv, <1>1, PTL DEF Spec
==============================================================================
