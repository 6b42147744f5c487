---------------------------- MODULE SocketsProofs ----------------------------
(***************************************************************************)
(* Proofs about the sockets of a checkpoint and a restart, for any         *)
(* processes, any connections, any sharing of their ends and a buffer of   *)
(* any size at each socket.                                                *)
(***************************************************************************)
EXTENDS Sockets, CollectionTheorems

Among(S) == \A p \in Procs : pc[p] \in S

Electing == {"suspended", "electing"}
Drain == {"electing", "draining"}
Greet == {"draining", "greeting", "greeted", "checkpointed"}
Back == {"checkpointed"} \cup Refilling
Again == {"restarting", "restored", "registered", "connecting"} \cup Refilling

(* l is the one sharer of e that leads it, or will find out that it does.   *)
Leads(l, e) ==
    \A q \in holders[e] :
        q = l <=> IF pc[q] = "electing" THEN owner[e] = q ELSE <<q, e>> \in locked

Elected == \A e \in Open : \E l \in holders[e] : Leads(l, e)

(* What the barriers of the coordinator are for: who is in which stage, and *)
(* what has been found out about the leaders by then.                       *)
Phases ==
    \/ Among({"run", "refilled"})
    \/ Among({"told", "suspended"})
    \/ Among(Electing) /\ \A p \in Procs : pc[p] = "electing" =>
                              \A e \in Held(p) \ todo[p] : owner[e] \in holders[e]
    \/ Among(Drain) /\ Elected /\ \A p \in Procs : pc[p] = "electing" => todo[p] = {}
    \/ Among(Greet) /\ Elected
    \/ Among(Back) /\ Elected /\ ~isRestart
    \/ Among(Again) /\ Elected /\ isRestart

(* The leaders are still known when the last process is ready to run.       *)
Ready == Among({"refilled"}) => Elected

(* What a loop has still to do, and where it is.                            *)
LoopOf(p) ==
    /\ pc[p] = "electing" => todo[p] \subseteq Held(p)
    /\ pc[p] = "draining" => todo[p] \subseteq Led(p)
    /\ pc[p] \in {"greeting", "greeted", "connecting", "writing", "echoing"} => todo[p] \subseteq Live(p)
    /\ pc[p] \notin {"writing", "echoing"} => cur[p] = None
    /\ pc[p] # "echoing" \/ cur[p] = None => left[p] = 0
    /\ cur[p] # None => cur[p] \in todo[p]
    /\ pc[p] = "writing" /\ cur[p] # None => drained[cur[p]] # <<>>
    /\ pc[p] = "echoing" /\ cur[p] # None => left[p] > 0 \/ tmp[p] # <<>>

Loops == \A p \in Procs : LoopOf(p)

(* Which of its descriptors a process has in place.                         *)
WiredOf(p) ==
    CASE pc[p] = "restarting" -> {}
      [] pc[p] \in {"restored", "registered"} -> Led(p) \ Live(p)
      [] pc[p] = "connecting" -> Led(p) \ todo[p]
      [] pc[p] \in {"writing", "echoing", "sharing"} -> IF isRestart THEN Led(p) ELSE Held(p)
      [] OTHER -> Held(p)

(* l leads e, or will find out that it does.                                *)
Lead(l, e) == l \in holders[e] /\ IF pc[l] = "electing" THEN owner[e] = l ELSE <<l, e>> \in locked

(* p shares a dead socket that another process leads, until it stops for    *)
(* the next checkpoint.                                                     *)
Left(p, e) ==
    /\ LeftBehind(e) /\ ~Lead(p, e)
    /\ pc[p] # "suspended" /\ ~(pc[p] = "electing" /\ Among(Electing))

Wired == \A p \in Procs : \A e \in WiredOf(p) : <<p, e>> \in wired \/ Left(p, e)

(* A send buffer stays doubled only while its leader is at it.              *)
Doubled ==
    \A e \in doubled : \E p \in Procs :
        \/ pc[p] = "writing" /\ e \in Live(p)
        \/ pc[p] = "echoing" /\ e \in todo[p]

(* The owner of e is as it should be when its processes run.                *)
OwnerHeld(e) == owner[e] \in wanted[e] \/ Forgotten(e)

(* The owner is one that the application wants, or a sharer that leads the  *)
(* end, and every sharer that has stopped has saved such a one.             *)
OwnersKept ==
    \A e \in Ends :
        /\ \A p \in holders[e] :
              pc[p] \notin {"run", "told", "refilled", "sharing"} => savedOwner[p][e] \in wanted[e]
        /\ \A p \in holders[e] :
              pc[p] \in {"refilled", "sharing"} /\ <<p, e>> \in locked => OwnerHeld(e)
        /\ e \in Open /\ Among({"run", "told", "suspended", "refilled"}) => OwnerHeld(e)

(* A restart lasts until the next checkpoint, ...                           *)
Fresh == isRestart => Among({"run"} \cup Again)

(* ... and until all run the locks and the owners are those of the images.  *)
Recalled ==
    isRestart /\ Among(Again) =>
        image # NoImage /\ locked = image.locked /\ savedOwner = image.savedOwner

(* The images keep what was found out before they were written.             *)
ImageKeeps ==
    image # NoImage =>
        \A e \in Ends :
            /\ image.holders[e] # {} =>
                  \E l \in image.holders[e] :
                      \A q \in image.holders[e] : q = l <=> <<q, e>> \in image.locked
            /\ \A p \in image.holders[e] : image.savedOwner[p][e] \in image.wanted[e]

IndInv ==
    /\ TypeOK /\ Phases /\ Ready /\ Loops
    /\ Wired /\ Doubled /\ OwnersKept /\ ImageKeeps /\ Fresh /\ Recalled

------------------------------------------------------------------------------
(* What the items of a kernel buffer carry.                                 *)
LEMMA ItemFacts ==
    /\ Cookie \in Item
    /\ \A e \in Ends : Handshake(e) \in Item
    /\ \A n \in Nat : Refill(n) \in Item
    /\ \A e \in Ends, n \in 1 .. MaxSent : Data(e, n) \in Item
    /\ \A x \in Item : x.kind = "REFILL" => x.extraBytes \in Nat
    /\ \A x \in Item : x.kind = "HANDSHAKE" => x.from \in Ends
BY DEF Item, Cookie, Handshake, Refill, Data

(* A buffer with one item more, and with one item less.                     *)
LEMMA BufferFacts ==
    ASSUME NEW s \in Seq(Item)
    PROVE  /\ \A x \in Item : Append(s, x) \in Seq(Item)
           /\ s # <<>> => Head(s) \in Item /\ Tail(s) \in Seq(Item) /\ Front(s) \in Seq(Item)
           /\ Len(s) \in Nat
<1>1. \A x \in Item : Append(s, x) \in Seq(Item)
  OBVIOUS
<1>2. s # <<>> => Head(s) \in Item /\ Tail(s) \in Seq(Item)
  BY HeadTailProperties
<1>3. s # <<>> => Front(s) \in Seq(Item)
  BY EmptySeq, LenProperties DEF Front
<1> QED BY <1>1, <1>2, <1>3, LenProperties

(* The initial states.                                                      *)
LEMMA InitTypeOK == Init => TypeOK
<1> SUFFICES ASSUME Init PROVE TypeOK
  OBVIOUS
<1> USE SocketsAssumption, ConnectionsAssumption DEF Init
<1>1. <<>> \in Seq(Item)
  BY EmptySeq
<1>2. AppType
  BY <1>1 DEF AppType, Owners
<1>3. KernelType
  BY <1>1 DEF KernelType, Owners
<1>4. ConType
  BY DEF ConType, Types, Owners
<1>5. DrainType
  BY <1>1 DEF DrainType
<1>6. pc \in [Procs -> Stages]
  BY DEF Stages
<1>7. LoopType
  BY <1>1 DEF LoopType
<1>8. RestartType
  BY DEF RestartType
<1>9. RunType
  <2>1. isRestart \in BOOLEAN
    BY Zenon
  <2>2. ckpts \in 0 .. MaxCkpts /\ restarts \in 0 .. MaxRestarts
    OBVIOUS
  <2> QED BY <2>1, <2>2 DEF RunType
<1> QED BY <1>2, <1>3, <1>4, <1>5, <1>6, <1>7, <1>8, <1>9 DEF TypeOK

------------------------------------------------------------------------------
(* A step that leaves a group of variables alone.                           *)
LEMMA TypeFrame ==
    ASSUME TypeOK
    PROVE  /\ UNCHANGED appVars => AppType'
           /\ UNCHANGED kernelVars => KernelType'
           /\ UNCHANGED conVars => ConType'
           /\ UNCHANGED drainVars => DrainType'
           /\ UNCHANGED pc => pc' \in [Procs -> Stages]
           /\ UNCHANGED loopVars => LoopType'
           /\ UNCHANGED restartVars => RestartType'
           /\ UNCHANGED runVars => RunType'
<1> USE DEF TypeOK
<1>1. UNCHANGED appVars => AppType'
  BY DEF AppType, appVars
<1>2. UNCHANGED kernelVars => KernelType'
  BY DEF KernelType, kernelVars
<1>3. UNCHANGED conVars => ConType'
  BY DEF ConType, conVars
<1>4. UNCHANGED drainVars => DrainType'
  BY DEF DrainType, drainVars
<1>5. UNCHANGED loopVars => LoopType'
  BY DEF LoopType, loopVars
<1>6. UNCHANGED restartVars => RestartType'
  BY DEF RestartType, restartVars
<1>7. UNCHANGED runVars => RunType'
  BY DEF RunType, runVars
<1> QED BY <1>1, <1>2, <1>3, <1>4, <1>5, <1>6, <1>7

(* A write at an end, and a read there.                                     *)
LEMMA WriteType ==
    ASSUME KernelType, NEW e \in Ends, NEW x \in Item, Write(e, x)
    PROVE  kernel' \in [Ends -> Seq(Item)]
<1>1. Peer[e] \in Ends
  BY ConnectionsAssumption
<1>2. Append(kernel[Peer[e]], x) \in Seq(Item)
  BY <1>1, BufferFacts DEF KernelType
<1> QED BY <1>1, <1>2 DEF KernelType, Write

(* What is read is an item, and may be appended to another buffer.          *)
LEMMA ReadType ==
    ASSUME KernelType, NEW e \in Ends, kernel[e] # <<>>
    PROVE  /\ Head(kernel[e]) \in Item /\ [kernel EXCEPT ![e] = Tail(@)] \in [Ends -> Seq(Item)]
           /\ \A s \in Seq(Item) : Append(s, Head(kernel[e])) \in Seq(Item)
<1>1. Head(kernel[e]) \in Item /\ Tail(kernel[e]) \in Seq(Item)
  BY BufferFacts DEF KernelType
<1> QED BY <1>1, BufferFacts DEF KernelType

(* A process goes on to another stage.                                      *)
LEMMA GotoType ==
    ASSUME pc \in [Procs -> Stages], NEW p \in Procs, NEW s \in Stages
    PROVE  Goto(p, s) => pc' \in [Procs -> Stages]
BY DEF Goto

(* The loops are over ends.                                                 *)
LEMMA TodoType ==
    ASSUME todo \in [Procs -> SUBSET Ends], NEW p \in Procs, NEW e, NEW s
    PROVE  /\ Led(p) \subseteq Ends /\ Live(p) \subseteq Ends
           /\ \A S \in SUBSET Ends : Loop(p, s, S) => todo' \in [Procs -> SUBSET Ends]
           /\ Done(p, e) => todo' \in [Procs -> SUBSET Ends]
           /\ \A S \in SUBSET Ends : DoneThen(p, e, s, S) => todo' \in [Procs -> SUBSET Ends]
<1>1. Led(p) \subseteq Ends /\ Live(p) \subseteq Ends
  BY DEF Held, Led, Live
<1>2. ASSUME NEW S \in SUBSET Ends, Loop(p, s, S) PROVE todo' \in [Procs -> SUBSET Ends]
  BY <1>2 DEF Loop
<1>3. ASSUME Done(p, e) PROVE todo' \in [Procs -> SUBSET Ends]
  BY <1>3 DEF Done
<1> QED BY <1>1, <1>2, <1>3 DEF DoneThen

(* The end a loop is at.                                                    *)
LEMMA CurType ==
    ASSUME cur \in [Procs -> Ends \cup {None}], NEW p \in Procs, NEW e \in Ends,
           cur' = [cur EXCEPT ![p] = None] \/ cur' = [cur EXCEPT ![p] = e]
    PROVE  cur' \in [Procs -> Ends \cup {None}]
OBVIOUS

(* Every step keeps the types.  Loops says that RefillData, EchoRead and    *)
(* EchoWrite have something to write.                                       *)
LEMMA TypeStep == TypeOK /\ Loops /\ Next => TypeOK'
<1> SUFFICES ASSUME TypeOK, Loops, Next PROVE TypeOK'
  OBVIOUS
<1> AppType /\ KernelType /\ ConType /\ DrainType /\ LoopType /\ RestartType /\ RunType
  BY DEF TypeOK
<1> pc \in [Procs -> Stages]
  BY DEF TypeOK
<1> USE ConnectionsAssumption, SocketsAssumption
<1>1. ASSUME NEW p \in Procs, NEW e \in Ends, Send(p, e) PROVE TypeOK'
  <2>0. Data(Peer[e], sent[e] + 1) \in Item
    BY <1>1, ItemFacts DEF Send, AppType
  <2>1. AppType'
    BY <1>1 DEF Send, AppType
  <2>2. KernelType'
    BY <1>1, <2>0, WriteType DEF Send, KernelType
  <2>3. UNCHANGED <<conVars, drainVars, pc, loopVars, restartVars, runVars>>
    BY <1>1 DEF Send, conVars, drainVars, loopVars, restartVars, runVars
  <2> QED BY <2>1, <2>2, <2>3, TypeFrame DEF TypeOK
<1>2. ASSUME NEW p \in Procs, NEW e \in Ends, Recv(p, e) PROVE TypeOK'
  <2>1. AppType'
    BY <1>2, ReadType DEF Recv, AppType
  <2>2. KernelType'
    BY <1>2, ReadType DEF Recv, KernelType
  <2>3. UNCHANGED <<conVars, drainVars, pc, loopVars, restartVars, runVars>>
    BY <1>2 DEF Recv, conVars, drainVars, loopVars, restartVars, runVars
  <2> QED BY <2>1, <2>2, <2>3, TypeFrame DEF TypeOK
<1>3. ASSUME NEW p \in Procs, NEW e \in Ends, SetOwn(p, e) PROVE TypeOK'
  <2>1. AppType'
    BY <1>3 DEF SetOwn, AppType, Owners
  <2>2. KernelType'
    BY <1>3 DEF SetOwn, KernelType, Owners
  <2>3. UNCHANGED <<conVars, drainVars, pc, loopVars, restartVars, runVars>>
    BY <1>3 DEF SetOwn, conVars, drainVars, loopVars, restartVars, runVars
  <2> QED BY <2>1, <2>2, <2>3, TypeFrame DEF TypeOK
<1>4. ASSUME NEW p \in Procs, NEW e \in Ends, Close(p, e) PROVE TypeOK'
  <2>1. AppType'
    BY <1>4 DEF Close, AppType
  <2>2. KernelType'
    BY <1>4, EmptySeq DEF Close, KernelType
  <2>3. ConType'
    BY <1>4 DEF Close, ConType, Owners
  <2>4. UNCHANGED <<drainVars, pc, loopVars, restartVars, runVars>>
    BY <1>4 DEF Close, drainVars, loopVars, restartVars, runVars
  <2> QED BY <2>1, <2>2, <2>3, <2>4, TypeFrame DEF TypeOK
<1>5. ASSUME Request PROVE TypeOK'
  <2>1. AppType'
    BY <1>5 DEF Request, AppType, KernelType
  <2>2. pc' \in [Procs -> Stages]
    BY <1>5 DEF Request, Stages
  <2>3. RunType'
    <3>1. isRestart' \in BOOLEAN
      BY <1>5, Zenon DEF Request
    <3>2. ckpts' \in 0 .. MaxCkpts
      BY <1>5 DEF Request, RunType
    <3> QED BY <1>5, <3>1, <3>2 DEF Request, RunType
  <2>4. UNCHANGED <<kernelVars, conVars, drainVars, loopVars, restartVars>>
    BY <1>5 DEF Request, kernelVars, conVars, drainVars, loopVars, restartVars
  <2> QED BY <2>1, <2>2, <2>3, <2>4, TypeFrame DEF TypeOK
<1>6. ASSUME Restart PROVE TypeOK'
  <2>1. image \in Images
    BY <1>6 DEF Restart, RunType
  <2>2. AppType'
    BY <1>6, <2>1 DEF Restart, AppType, Images
  <2>3. KernelType'
    BY <1>6, EmptySeq DEF Restart, KernelType, Owners
  <2>4. ConType'
    BY <1>6, <2>1 DEF Restart, ConType, Images
  <2>5. DrainType'
    BY <1>6, <2>1 DEF Restart, DrainType, Images
  <2>6. pc' \in [Procs -> Stages]
    BY <1>6 DEF Restart, Stages
  <2>7. LoopType'
    BY <1>6, EmptySeq DEF Restart, LoopType
  <2>8. RestartType'
    BY <1>6 DEF Restart, RestartType
  <2>9. RunType'
    <3>1. isRestart' \in BOOLEAN
      BY <1>6, Zenon DEF Restart
    <3>2. restarts' \in 0 .. MaxRestarts
      BY <1>6 DEF Restart, RunType
    <3> QED BY <1>6, <3>1, <3>2 DEF Restart, RunType
  <2> QED BY <2>2, <2>3, <2>4, <2>5, <2>6, <2>7, <2>8, <2>9 DEF TypeOK
<1>7. ASSUME NEW p \in Procs, ThreadsSuspend(p) PROVE TypeOK'
  <2>0. AppType'
    BY <1>7 DEF ThreadsSuspend, AppType
  <2>1. ConType'
    BY <1>7 DEF ThreadsSuspend, ConType, KernelType, Owners
  <2>2. pc' \in [Procs -> Stages]
    BY <1>7, GotoType DEF ThreadsSuspend, Stages
  <2>3. UNCHANGED <<kernelVars, drainVars, loopVars, restartVars, runVars>>
    BY <1>7 DEF ThreadsSuspend, kernelVars, drainVars, loopVars, restartVars, runVars
  <2> QED BY <2>0, <2>1, <2>2, <2>3, TypeFrame DEF TypeOK
<1>8. ASSUME NEW p \in Procs, LeaderElection(p) PROVE TypeOK'
  <2>1. pc' \in [Procs -> Stages]
    BY <1>8, GotoType DEF LeaderElection, Loop, Stages
  <2>2. LoopType'
    BY <1>8 DEF LeaderElection, Loop, LoopType, Held
  <2>3. UNCHANGED <<appVars, kernelVars, conVars, drainVars, restartVars, runVars>>
    BY <1>8 DEF LeaderElection, appVars, kernelVars, conVars, drainVars, restartVars, runVars
  <2> QED BY <2>1, <2>2, <2>3, TypeFrame DEF TypeOK
<1>9. ASSUME NEW p \in Procs, BeginDrain(p) PROVE TypeOK'
  <2>1. ConType'
    BY <1>9 DEF BeginDrain, ConType, Held
  <2>2. DrainType'
    BY <1>9 DEF BeginDrain, DrainType, Held
  <2>3. pc' \in [Procs -> Stages]
    BY <1>9, GotoType DEF BeginDrain, Loop, Stages
  <2>4. LoopType'
    BY <1>9 DEF BeginDrain, Loop, LoopType, Held
  <2>5. UNCHANGED <<appVars, kernelVars, restartVars, runVars>>
    BY <1>9 DEF BeginDrain, appVars, kernelVars, restartVars, runVars
  <2> QED BY <2>1, <2>2, <2>3, <2>4, <2>5, TypeFrame DEF TypeOK
<1>10. ASSUME NEW p \in Procs, PreCkpt(p) PROVE TypeOK'
  <2>1. pc' \in [Procs -> Stages]
    BY <1>10, GotoType DEF PreCkpt, Loop, Stages
  <2>2. LoopType'
    BY <1>10 DEF PreCkpt, Loop, LoopType, Held, Led, Live
  <2>3. UNCHANGED <<appVars, kernelVars, conVars, drainVars, restartVars, runVars>>
    BY <1>10 DEF PreCkpt, appVars, kernelVars, conVars, drainVars, restartVars, runVars
  <2> QED BY <2>1, <2>2, <2>3, TypeFrame DEF TypeOK
<1>11. ASSUME NEW p \in Procs, WriteImage(p) PROVE TypeOK'
  <2>0. Memory \in Images
    BY <1>11 DEF Memory, Images, AppType, ConType, DrainType
  <2>1. pc' \in [Procs -> Stages]
    BY <1>11, GotoType DEF WriteImage, Stages
  <2>2. RunType'
    BY <1>11, <2>0 DEF WriteImage, RunType
  <2>3. UNCHANGED <<appVars, kernelVars, conVars, drainVars, loopVars, restartVars>>
    BY <1>11 DEF WriteImage, appVars, kernelVars, conVars, drainVars, loopVars, restartVars
  <2> QED BY <2>1, <2>2, <2>3, TypeFrame DEF TypeOK
<1>12. ASSUME NEW p \in Procs, PostRestart(p) PROVE TypeOK'
  <2>1. KernelType'
    BY <1>12 DEF PostRestart, KernelType, DrainType, Held, Led
  <2>2. pc' \in [Procs -> Stages]
    BY <1>12, GotoType DEF PostRestart, Stages
  <2>3. RestartType'
    BY <1>12 DEF PostRestart, RestartType, Held
  <2>4. UNCHANGED <<appVars, conVars, drainVars, loopVars, runVars>>
    BY <1>12 DEF PostRestart, appVars, conVars, drainVars, loopVars, runVars
  <2> QED BY <2>1, <2>2, <2>3, <2>4, TypeFrame DEF TypeOK
<1>13. ASSUME NEW p \in Procs, RegisterNSData(p) PROVE TypeOK'
  <2>1. pc' \in [Procs -> Stages]
    BY <1>13, GotoType DEF RegisterNSData, Stages
  <2>2. RestartType'
    BY <1>13 DEF RegisterNSData, RestartType, Held, Led
  <2>3. UNCHANGED <<appVars, kernelVars, conVars, drainVars, loopVars, runVars>>
    BY <1>13 DEF RegisterNSData, appVars, kernelVars, conVars, drainVars, loopVars, runVars
  <2> QED BY <2>1, <2>2, <2>3, TypeFrame DEF TypeOK
<1>14. ASSUME NEW p \in Procs, SendQueries(p) PROVE TypeOK'
  <2>1. pc' \in [Procs -> Stages]
    BY <1>14, GotoType DEF SendQueries, Loop, Stages
  <2>2. LoopType'
    BY <1>14 DEF SendQueries, Loop, LoopType, Held, Led, Live
  <2>3. UNCHANGED <<appVars, kernelVars, conVars, drainVars, restartVars, runVars>>
    BY <1>14 DEF SendQueries, appVars, kernelVars, conVars, drainVars, restartVars, runVars
  <2> QED BY <2>1, <2>2, <2>3, TypeFrame DEF TypeOK
<1>15. ASSUME NEW p \in Procs, BeginRefill(p) PROVE TypeOK'
  <2>1. pc' \in [Procs -> Stages]
    BY <1>15, GotoType DEF BeginRefill, Loop, Stages, Refilling
  <2>2. LoopType'
    BY <1>15 DEF BeginRefill, Loop, LoopType, Held, Led, Live
  <2>3. UNCHANGED <<appVars, kernelVars, conVars, drainVars, restartVars, runVars>>
    BY <1>15 DEF BeginRefill, appVars, kernelVars, conVars, drainVars, restartVars, runVars
  <2> QED BY <2>1, <2>2, <2>3, TypeFrame DEF TypeOK
<1>16. ASSUME NEW p \in Procs, RefillData(p) PROVE TypeOK'
  <2>1. PICK e \in Ends : e = cur[p] /\ drained[e] # <<>>
    BY <1>16 DEF RefillData, Loops, LoopOf, LoopType
  <2>2. Head(drained[e]) \in Item /\ Tail(drained[e]) \in Seq(Item)
    BY <2>1, BufferFacts DEF DrainType
  <2>3. KernelType'
    BY <1>16, <2>1, <2>2, WriteType DEF RefillData, KernelType
  <2>4. DrainType'
    BY <1>16, <2>1, <2>2 DEF RefillData, DrainType
  <2>5. pc' \in [Procs -> Stages]
    BY <1>16, GotoType DEF RefillData, Written, DoneThen, Loop, Stages, Refilling
  <2>6. LoopType'
    <3>1. todo' \in [Procs -> SUBSET Ends]
      <4>1. DoneThen(p, e, "echoing", Live(p)) \/ UNCHANGED todo
        BY <1>16, <2>1 DEF RefillData, Written
      <4> QED BY <4>1, TodoType DEF LoopType
    <3>2. cur' \in [Procs -> Ends \cup {None}]
      <4>1. cur' = [cur EXCEPT ![p] = None] \/ cur' = [cur EXCEPT ![p] = e]
        BY <1>16, <2>1 DEF RefillData, Written
      <4> QED BY <4>1, CurType DEF LoopType
    <3> QED BY <1>16, <3>1, <3>2 DEF RefillData, LoopType
  <2>7. UNCHANGED <<appVars, conVars, restartVars, runVars>>
    BY <1>16 DEF RefillData, appVars, conVars, restartVars, runVars
  <2> QED BY <2>3, <2>4, <2>5, <2>6, <2>7, TypeFrame DEF TypeOK
<1>17. ASSUME NEW p \in Procs, EchoRead(p) PROVE TypeOK'
  <2>1. PICK e \in Ends : e = cur[p] /\ kernel[e] # <<>>
    BY <1>17 DEF EchoRead, Loops, LoopOf, LoopType
  <2>2. KernelType'
    BY <1>17, <2>1, ReadType DEF EchoRead, KernelType
  <2>3. LoopType'
    <3>1. left' \in [Procs -> Nat]
      BY <1>17 DEF EchoRead, LoopType
    <3>2. Append(tmp[p], Head(kernel[e])) \in Seq(Item)
      BY <2>1, ReadType DEF LoopType
    <3>3. tmp' = [tmp EXCEPT ![p] = Append(tmp[p], Head(kernel[e]))] /\ UNCHANGED <<todo, cur>>
      BY <1>17, <2>1 DEF EchoRead, LoopType
    <3> QED BY <3>1, <3>2, <3>3 DEF LoopType
  <2>4. UNCHANGED <<appVars, conVars, drainVars, pc, restartVars, runVars>>
    BY <1>17 DEF EchoRead, appVars, conVars, drainVars, restartVars, runVars
  <2> QED BY <2>2, <2>3, <2>4, TypeFrame DEF TypeOK
<1>18. ASSUME NEW p \in Procs, EchoWrite(p) PROVE TypeOK'
  <2>1. PICK e \in Ends : e = cur[p] /\ tmp[p] # <<>>
    BY <1>18 DEF EchoWrite, Loops, LoopOf, LoopType
  <2>2. Head(tmp[p]) \in Item /\ Tail(tmp[p]) \in Seq(Item)
    BY <2>1, BufferFacts DEF LoopType
  <2>3. KernelType'
    BY <1>18, <2>1, <2>2, WriteType DEF EchoWrite, Echoed, KernelType
  <2>4. LoopType'
    <3>1. todo' \in [Procs -> SUBSET Ends]
      BY <1>18, TodoType DEF EchoWrite, Echoed, LoopType
    <3>2. cur' \in [Procs -> Ends \cup {None}]
      BY <1>18, <2>1 DEF EchoWrite, Echoed, LoopType
    <3> QED BY <1>18, <2>2, <3>1, <3>2 DEF EchoWrite, LoopType
  <2>5. UNCHANGED <<appVars, conVars, drainVars, pc, restartVars, runVars>>
    BY <1>18 DEF EchoWrite, appVars, conVars, drainVars, restartVars, runVars
  <2> QED BY <2>3, <2>4, <2>5, TypeFrame DEF TypeOK
<1>19. ASSUME NEW p \in Procs, RestoreOptions(p) PROVE TypeOK'
  <2>0. None \in Owners /\ \A e \in Ends : savedOwner[p][e] \in Owners /\ owner[e] \in Owners
    <3>1. None \in Owners
      BY DEF Owners
    <3> QED BY <3>1 DEF ConType, KernelType
  <2>1. KernelType'
    BY <1>19, <2>0 DEF RestoreOptions, KernelType
  <2>2. DrainType'
    BY <1>19, EmptySeq DEF RestoreOptions, DrainType
  <2>3. pc' \in [Procs -> Stages]
    BY <1>19, GotoType DEF RestoreOptions, Loop, Stages, Refilling
  <2>4. LoopType'
    BY <1>19, TodoType DEF RestoreOptions, LoopType
  <2>5. UNCHANGED <<appVars, conVars, restartVars, runVars>>
    BY <1>19 DEF RestoreOptions, appVars, conVars, restartVars, runVars
  <2> QED BY <2>1, <2>2, <2>3, <2>4, <2>5, TypeFrame DEF TypeOK
<1>20. ASSUME NEW p \in Procs, FdsShared(p) PROVE TypeOK'
  <2>1. pc' \in [Procs -> Stages]
    BY <1>20, GotoType DEF FdsShared, Loop, Stages, Refilling
  <2>2. LoopType'
    BY <1>20 DEF FdsShared, Loop, LoopType
  <2>3. UNCHANGED <<appVars, kernelVars, conVars, drainVars, restartVars, runVars>>
    BY <1>20 DEF FdsShared, appVars, kernelVars, conVars, drainVars, restartVars, runVars
  <2> QED BY <2>1, <2>2, <2>3, TypeFrame DEF TypeOK
<1>21. ASSUME NEW p \in Procs, Resume(p) PROVE TypeOK'
  <2>1. pc' \in [Procs -> Stages]
    BY <1>21, GotoType DEF Resume, Stages
  <2>2. UNCHANGED <<appVars, kernelVars, conVars, drainVars, loopVars, restartVars, runVars>>
    BY <1>21 DEF Resume, appVars, kernelVars, conVars, drainVars, loopVars, restartVars, runVars
  <2> QED BY <2>1, <2>2, TypeFrame DEF TypeOK
<1>22. ASSUME NEW p \in Procs, NEW e \in Ends, DoLocking(p, e) PROVE TypeOK'
  <2>1. KernelType'
    BY <1>22 DEF DoLocking, KernelType, Owners
  <2>2. ConType'
    BY <1>22 DEF DoLocking, ConType
  <2>3. LoopType'
    BY <1>22 DEF DoLocking, Done, LoopType
  <2>4. UNCHANGED <<appVars, drainVars, pc, restartVars, runVars>>
    BY <1>22 DEF DoLocking, appVars, drainVars, restartVars, runVars
  <2> QED BY <2>1, <2>2, <2>3, <2>4, TypeFrame DEF TypeOK
<1>23. ASSUME NEW p \in Procs, NEW e \in Ends, DrainWrite(p, e) PROVE TypeOK'
  <2>1. KernelType'
    BY <1>23, ItemFacts, WriteType DEF DrainWrite, KernelType
  <2>2. DrainType'
    BY <1>23 DEF DrainWrite, DrainType
  <2>3. UNCHANGED <<appVars, conVars, pc, loopVars, restartVars, runVars>>
    BY <1>23 DEF DrainWrite, appVars, conVars, loopVars, restartVars, runVars
  <2> QED BY <2>1, <2>2, <2>3, TypeFrame DEF TypeOK
<1>24. ASSUME NEW p \in Procs, NEW e \in Ends, DrainRead(p, e) PROVE TypeOK'
  <2>1. KernelType'
    BY <1>24, ReadType DEF DrainRead, KernelType
  <2>2. DrainType'
    BY <1>24, ReadType DEF DrainRead, DrainType
  <2>3. UNCHANGED <<appVars, conVars, pc, loopVars, restartVars, runVars>>
    BY <1>24 DEF DrainRead, appVars, conVars, loopVars, restartVars, runVars
  <2> QED BY <2>1, <2>2, <2>3, TypeFrame DEF TypeOK
<1>25. ASSUME NEW p \in Procs, NEW e \in Ends, DrainComplete(p, e) PROVE TypeOK'
  <2>1. DrainType'
    BY <1>25, BufferFacts DEF DrainComplete, DrainType
  <2>2. LoopType'
    BY <1>25 DEF DrainComplete, Done, LoopType
  <2>3. UNCHANGED <<appVars, kernelVars, conVars, pc, restartVars, runVars>>
    BY <1>25 DEF DrainComplete, appVars, kernelVars, conVars, restartVars, runVars
  <2> QED BY <2>1, <2>2, <2>3, TypeFrame DEF TypeOK
<1>26. ASSUME NEW p \in Procs, NEW e \in Ends, OnDisconnect(p, e) PROVE TypeOK'
  <2>1. KernelType'
    BY <1>26 DEF OnDisconnect, KernelType, DrainType, Owners
  <2>2. ConType'
    BY <1>26 DEF OnDisconnect, ConType, Types
  <2>3. DrainType'
    BY <1>26, EmptySeq DEF OnDisconnect, DrainType
  <2>4. LoopType'
    BY <1>26 DEF OnDisconnect, Done, LoopType
  <2>5. UNCHANGED <<appVars, pc, restartVars, runVars>>
    BY <1>26 DEF OnDisconnect, appVars, restartVars, runVars
  <2> QED BY <2>1, <2>2, <2>3, <2>4, <2>5, TypeFrame DEF TypeOK
<1>27. ASSUME NEW p \in Procs, NEW e \in Ends, SendHandshake(p, e) PROVE TypeOK'
  <2>1. KernelType'
    BY <1>27, ItemFacts, WriteType DEF SendHandshake, KernelType
  <2>2. pc' \in [Procs -> Stages]
    BY <1>27, GotoType DEF SendHandshake, DoneThen, Loop, Done, Stages
  <2>3. LoopType'
    <3>1. DoneThen(p, e, "greeted", Live(p)) /\ UNCHANGED <<cur, left, tmp>>
      BY <1>27 DEF SendHandshake
    <3>2. todo \in [Procs -> SUBSET Ends]
      BY DEF LoopType
    <3>3. Live(p) \subseteq Ends
      BY DEF Live, Led, Held
    <3>4. todo' \in [Procs -> SUBSET Ends]
      BY <3>1, <3>2, <3>3, TodoType
    <3> QED BY <3>1, <3>4 DEF LoopType
  <2>4. UNCHANGED <<appVars, conVars, drainVars, restartVars, runVars>>
    BY <1>27 DEF SendHandshake, appVars, conVars, drainVars, restartVars, runVars
  <2> QED BY <2>1, <2>2, <2>3, <2>4, TypeFrame DEF TypeOK
<1>28. ASSUME NEW p \in Procs, NEW e \in Ends, RecvHandshake(p, e) PROVE TypeOK'
  <2>1. KernelType'
    BY <1>28, ReadType DEF RecvHandshake, KernelType
  <2>2. ConType'
    BY <1>28, ReadType, ItemFacts DEF RecvHandshake, ConType
  <2>3. LoopType'
    BY <1>28 DEF RecvHandshake, Done, LoopType
  <2>4. UNCHANGED <<appVars, drainVars, pc, restartVars, runVars>>
    BY <1>28 DEF RecvHandshake, appVars, drainVars, restartVars, runVars
  <2> QED BY <2>1, <2>2, <2>3, <2>4, TypeFrame DEF TypeOK
<1>29. ASSUME NEW p \in Procs, NEW e \in Ends, Connect(p, e) PROVE TypeOK'
  <2>1. KernelType'
    <3>1. wired' = wired \cup {<<p, e>>} /\ UNCHANGED <<kernel, owner, doubled>>
      BY <1>29 DEF Connect
    <3>2. wired' \subseteq Procs \X Ends
      BY <3>1 DEF KernelType
    <3> QED BY <3>1, <3>2 DEF KernelType
  <2>2. LoopType'
    BY <1>29 DEF Connect, Done, LoopType
  <2>3. RestartType'
    BY <1>29 DEF Connect, RestartType
  <2>4. UNCHANGED <<appVars, conVars, drainVars, pc, runVars>>
    BY <1>29 DEF Connect, appVars, conVars, drainVars, runVars
  <2> QED BY <2>1, <2>2, <2>3, <2>4, TypeFrame DEF TypeOK
<1>30. ASSUME NEW p \in Procs, NEW e \in Ends, Accept(p, e) PROVE TypeOK'
  <2>1. KernelType'
    <3>1. wired' = wired \cup {<<p, e>>} /\ UNCHANGED <<kernel, owner, doubled>>
      BY <1>30 DEF Accept
    <3>2. wired' \subseteq Procs \X Ends
      BY <3>1 DEF KernelType
    <3> QED BY <3>1, <3>2 DEF KernelType
  <2>2. LoopType'
    BY <1>30 DEF Accept, Done, LoopType
  <2>3. RestartType'
    BY <1>30 DEF Accept, RestartType
  <2>4. UNCHANGED <<appVars, conVars, drainVars, pc, runVars>>
    BY <1>30 DEF Accept, appVars, conVars, drainVars, runVars
  <2> QED BY <2>1, <2>2, <2>3, <2>4, TypeFrame DEF TypeOK
<1>31. ASSUME NEW p \in Procs, NEW e \in Ends, RefillHeader(p, e) PROVE TypeOK'
  <2>1. Refill(Len(drained[e])) \in Item
    BY BufferFacts, ItemFacts DEF DrainType
  <2>2. KernelType'
    BY <1>31, <2>1, WriteType DEF RefillHeader, KernelType
  <2>3. pc' \in [Procs -> Stages]
    BY <1>31, GotoType DEF RefillHeader, Written, DoneThen, Loop, Done, Stages, Refilling
  <2>4. LoopType'
    <3>1. todo' \in [Procs -> SUBSET Ends]
      <4>1. DoneThen(p, e, "echoing", Live(p)) \/ UNCHANGED todo
        BY <1>31 DEF RefillHeader, Written
      <4> QED BY <4>1, TodoType DEF LoopType
    <3>2. cur' \in [Procs -> Ends \cup {None}]
      <4>1. cur' = [cur EXCEPT ![p] = None] \/ cur' = [cur EXCEPT ![p] = e]
        BY <1>31 DEF RefillHeader, Written
      <4> QED BY <4>1, CurType DEF LoopType
    <3> QED BY <1>31, <3>1, <3>2 DEF RefillHeader, LoopType
  <2>5. UNCHANGED <<appVars, conVars, drainVars, restartVars, runVars>>
    BY <1>31 DEF RefillHeader, appVars, conVars, drainVars, restartVars, runVars
  <2> QED BY <2>2, <2>3, <2>4, <2>5, TypeFrame DEF TypeOK
<1>32. ASSUME NEW p \in Procs, NEW e \in Ends, EchoHeader(p, e) PROVE TypeOK'
  <2>1. KernelType'
    <3>1. /\ kernel' = [kernel EXCEPT ![e] = Tail(@)] /\ kernel[e] # <<>>
          /\ UNCHANGED <<owner, wired>> /\ doubled' \in {doubled, doubled \ {e}}
      BY <1>32 DEF EchoHeader, Echoed
    <3>2. kernel' \in [Ends -> Seq(Item)]
      BY <3>1, ReadType
    <3> QED BY <3>1, <3>2 DEF KernelType
  <2>2. LoopType'
    <3>1. PICK n \in Nat : n = Head(kernel[e]).extraBytes
      BY <1>32, ReadType, ItemFacts DEF EchoHeader
    <3>2. left' = [left EXCEPT ![p] = n] /\ tmp' = tmp
      BY <1>32, <3>1 DEF EchoHeader
    <3>3. /\ Done(p, e) \/ UNCHANGED todo
          /\ cur' = [cur EXCEPT ![p] = None] \/ cur' = [cur EXCEPT ![p] = e]
      BY <1>32 DEF EchoHeader, Echoed
    <3>4. todo' \in [Procs -> SUBSET Ends]
      BY <3>3, TodoType DEF LoopType
    <3>5. cur' \in [Procs -> Ends \cup {None}]
      BY <3>3, CurType DEF LoopType
    <3>6. left' \in [Procs -> Nat] /\ tmp' \in [Procs -> Seq(Item)]
      BY <3>2 DEF LoopType
    <3> QED BY <3>4, <3>5, <3>6 DEF LoopType
  <2>3. UNCHANGED <<appVars, conVars, drainVars, pc, restartVars, runVars>>
    BY <1>32 DEF EchoHeader, appVars, conVars, drainVars, restartVars, runVars
  <2> QED BY <2>1, <2>2, <2>3, TypeFrame DEF TypeOK
<1>33. ASSUME NEW p \in Procs, NEW e \in Ends, ReceiveFd(p, e) PROVE TypeOK'
  <2>1. KernelType'
    BY <1>33 DEF ReceiveFd, KernelType, RestartType
  <2>2. RestartType'
    BY <1>33 DEF ReceiveFd, RestartType
  <2>3. UNCHANGED <<appVars, conVars, drainVars, pc, loopVars, runVars>>
    BY <1>33 DEF ReceiveFd, appVars, conVars, drainVars, loopVars, runVars
  <2> QED BY <2>1, <2>2, <2>3, TypeFrame DEF TypeOK
<1>34. ASSUME NEW p \in Procs, NEW q \in Procs, NEW e \in Ends, SendFd(p, q, e) PROVE TypeOK'
  <2>1. RestartType'
    BY <1>34 DEF SendFd, RestartType
  <2>2. UNCHANGED <<appVars, kernelVars, conVars, drainVars, pc, loopVars, runVars>>
    BY <1>34 DEF SendFd, appVars, kernelVars, conVars, drainVars, loopVars, runVars
  <2> QED BY <2>1, <2>2, TypeFrame DEF TypeOK
<1> QED BY <1>1, <1>2, <1>3, <1>4, <1>5, <1>6, <1>7, <1>8, <1>9, <1>10, <1>11, <1>12, <1>13, <1>14, <1>15, <1>16, <1>17, <1>18, <1>19, <1>20, <1>21, <1>22, <1>23, <1>24, <1>25, <1>26, <1>27, <1>28, <1>29, <1>30, <1>31, <1>32, <1>33, <1>34 DEF Next, Application, CkptThread

------------------------------------------------------------------------------
(* A process leaves the stage, the loop, the locks, the saved owners and    *)
(* the descriptors of the others alone.                                     *)
LEMMA OtherLoops ==
    ASSUME TypeOK, NEW p \in Procs, Application(p) \/ CkptThread(p), NEW q \in Procs, q # p
    PROVE  /\ pc'[q] = pc[q] /\ todo'[q] = todo[q]
           /\ cur'[q] = cur[q] /\ left'[q] = left[q] /\ tmp'[q] = tmp[q]
<1> DEFINE Goal == /\ pc'[q] = pc[q] /\ todo'[q] = todo[q]
                   /\ cur'[q] = cur[q] /\ left'[q] = left[q] /\ tmp'[q] = tmp[q]
<1> USE DEF TypeOK, LoopType, loopVars, Goto, Loop, Done
<1>1. ASSUME NEW e \in Ends, Send(p, e) \/ Recv(p, e) \/ SetOwn(p, e) \/ Close(p, e) PROVE Goal
  BY <1>1 DEF Send, Recv, SetOwn, Close
<1>2. CASE ThreadsSuspend(p) \/ LeaderElection(p) \/ BeginDrain(p) \/ PreCkpt(p) \/ WriteImage(p)
  BY <1>2 DEF ThreadsSuspend, LeaderElection, BeginDrain, PreCkpt, WriteImage
<1>3. CASE PostRestart(p) \/ RegisterNSData(p) \/ SendQueries(p) \/ BeginRefill(p)
  BY <1>3 DEF PostRestart, RegisterNSData, SendQueries, BeginRefill
<1>4. CASE RestoreOptions(p) \/ FdsShared(p) \/ Resume(p)
  BY <1>4 DEF RestoreOptions, FdsShared, Resume
<1>5. CASE RefillData(p)
  BY <1>5 DEF RefillData, Written, DoneThen
<1>6. CASE EchoRead(p)
  BY <1>6 DEF EchoRead
<1>7. CASE EchoWrite(p)
  BY <1>7 DEF EchoWrite, Echoed
<1>8. ASSUME NEW e \in Ends, DoLocking(p, e) \/ DrainWrite(p, e) \/ DrainRead(p, e) PROVE Goal
  BY <1>8 DEF DoLocking, DrainWrite, DrainRead
<1>9. ASSUME NEW e \in Ends, DrainComplete(p, e) \/ OnDisconnect(p, e) \/ RecvHandshake(p, e) PROVE Goal
  BY <1>9 DEF DrainComplete, OnDisconnect, RecvHandshake
<1>10. ASSUME NEW e \in Ends, SendHandshake(p, e) PROVE Goal
  BY <1>10 DEF SendHandshake, DoneThen
<1>11. ASSUME NEW e \in Ends, Connect(p, e) \/ Accept(p, e) \/ ReceiveFd(p, e) PROVE Goal
  BY <1>11 DEF Connect, Accept, ReceiveFd
<1>12. ASSUME NEW e \in Ends, RefillHeader(p, e) PROVE Goal
  BY <1>12 DEF RefillHeader, Written, DoneThen
<1>13. ASSUME NEW e \in Ends, EchoHeader(p, e) PROVE Goal
  BY <1>13 DEF EchoHeader, Echoed
<1>14. ASSUME NEW e \in Ends, NEW r \in Procs, SendFd(p, r, e) PROVE Goal
  BY <1>14 DEF SendFd
<1> HIDE DEF Goal
<1> QED BY <1>1, <1>2, <1>3, <1>4, <1>5, <1>6, <1>7, <1>8, <1>9, <1>10, <1>11, <1>12, <1>13, <1>14
        DEF Application, CkptThread, Goal

(* The same for the locks and the descriptors.                              *)
LEMMA OtherHolds ==
    ASSUME TypeOK, NEW p \in Procs, Application(p) \/ CkptThread(p), NEW q \in Procs, q # p
    PROVE  /\ \A e \in Ends : /\ q \in holders'[e] <=> q \in holders[e]
                              /\ <<q, e>> \in locked' <=> <<q, e>> \in locked
                              /\ <<q, e>> \in wired => <<q, e>> \in wired' \/ OnDisconnect(p, e)
           /\ savedOwner'[q] = savedOwner[q]
           /\ isRestart' = isRestart
<1> DEFINE Goal == /\ \A e \in Ends : /\ q \in holders'[e] <=> q \in holders[e]
                                      /\ <<q, e>> \in locked' <=> <<q, e>> \in locked
                                      /\ <<q, e>> \in wired => <<q, e>> \in wired' \/ OnDisconnect(p, e)
                   /\ savedOwner'[q] = savedOwner[q]
                   /\ isRestart' = isRestart
<1> USE DEF TypeOK, AppType, ConType, KernelType, appVars, conVars, kernelVars, runVars
<1>1. ASSUME NEW e \in Ends, Send(p, e) \/ Recv(p, e) \/ SetOwn(p, e) PROVE Goal
  BY <1>1 DEF Send, Recv, SetOwn
<1>2. ASSUME NEW e \in Ends, Close(p, e) PROVE Goal
  BY <1>2 DEF Close
<1>3. CASE LeaderElection(p) \/ PreCkpt(p) \/ WriteImage(p)
  BY <1>3 DEF LeaderElection, PreCkpt, WriteImage
<1>4. CASE BeginDrain(p)
  BY <1>4 DEF BeginDrain
<1>5. CASE PostRestart(p) \/ RegisterNSData(p) \/ SendQueries(p) \/ BeginRefill(p)
  BY <1>5 DEF PostRestart, RegisterNSData, SendQueries, BeginRefill
<1>6. CASE RestoreOptions(p) \/ FdsShared(p) \/ Resume(p) \/ RefillData(p) \/ EchoRead(p) \/ EchoWrite(p)
  BY <1>6 DEF RestoreOptions, FdsShared, Resume, RefillData, EchoRead, EchoWrite
<1>7. ASSUME NEW e \in Ends, DoLocking(p, e) PROVE Goal
  BY <1>7 DEF DoLocking
<1>8. ASSUME NEW e \in Ends, DrainWrite(p, e) \/ DrainRead(p, e) \/ DrainComplete(p, e) PROVE Goal
  BY <1>8 DEF DrainWrite, DrainRead, DrainComplete
<1>9. ASSUME NEW e \in Ends, SendHandshake(p, e) \/ RecvHandshake(p, e) PROVE Goal
  BY <1>9 DEF SendHandshake, RecvHandshake
<1>10. ASSUME NEW e \in Ends, Connect(p, e) \/ Accept(p, e) \/ ReceiveFd(p, e) PROVE Goal
  BY <1>10 DEF Connect, Accept, ReceiveFd
<1>11. ASSUME NEW e \in Ends, RefillHeader(p, e) \/ EchoHeader(p, e) PROVE Goal
  BY <1>11 DEF RefillHeader, EchoHeader
<1>12. ASSUME NEW e \in Ends, NEW r \in Procs, SendFd(p, r, e) PROVE Goal
  BY <1>12 DEF SendFd
<1>13. ASSUME NEW e \in Ends, OnDisconnect(p, e) PROVE Goal
  <2>1. UNCHANGED <<holders, locked, savedOwner, isRestart>> /\ wired' = wired \ ((holders[e] \ {p}) \X {e})
    BY <1>13 DEF OnDisconnect
  <2>2. \A f \in Ends : <<q, f>> \in wired => <<q, f>> \in wired' \/ f = e
    BY <2>1
  <2> QED BY <1>13, <2>1, <2>2
<1>14. CASE ThreadsSuspend(p)
  <2>1. UNCHANGED <<wired, isRestart>>
    BY <1>14 DEF ThreadsSuspend
  <2>2. savedOwner'[q] = savedOwner[q]
    BY <1>14 DEF ThreadsSuspend
  <2>3. \A e \in Ends : q \in holders'[e] <=> q \in holders[e]
    BY <1>14 DEF ThreadsSuspend
  <2>4. \A e \in Ends : <<q, e>> \in locked' <=> <<q, e>> \in locked
    BY <1>14 DEF ThreadsSuspend
  <2> QED BY <2>1, <2>2, <2>3, <2>4
<1> HIDE DEF Goal
<1> QED BY <1>1, <1>2, <1>3, <1>4, <1>5, <1>6, <1>7, <1>8, <1>9, <1>10, <1>11, <1>12, <1>13, <1>14
        DEF Application, CkptThread, Goal

------------------------------------------------------------------------------
(* No end has two leaders.                                                  *)
LEMMA OneLed ==
    ASSUME Elected, NEW p \in Procs, NEW q \in Procs, NEW e \in Led(p) \cap Led(q),
           pc[p] # "electing", pc[q] # "electing"
    PROVE  p = q
<1>1. e \in Open /\ p \in holders[e] /\ q \in holders[e] /\ <<p, e>> \in locked /\ <<q, e>> \in locked
  BY DEF Led, Held, Open
<1>2. PICK l \in holders[e] : Leads(l, e)
  BY <1>1 DEF Elected
<1> QED BY <1>1, <1>2 DEF Leads

(* The leaders stay what they are while nobody elects one.                  *)
LEMMA ElectedFrame ==
    ASSUME Elected, TypeOK, UNCHANGED <<holders, locked>>,
           \A q \in Procs : pc[q] # "electing" /\ pc'[q] # "electing"
    PROVE  Elected'
<1> SUFFICES ASSUME NEW e \in Open PROVE \E l \in holders[e] : Leads(l, e)'
  BY DEF Elected, Open
<1>1. PICK l \in holders[e] : Leads(l, e)
  BY DEF Elected
<1>2. \A q \in holders[e] : q \in Procs
  BY DEF TypeOK, AppType, Open
<1>3. Leads(l, e)'
  BY <1>1, <1>2 DEF Leads
<1> QED BY <1>3

(* Nobody moves and nobody in the election does anything.                   *)
LEMMA PhasesFrame ==
    ASSUME Phases, TypeOK, UNCHANGED <<pc, owner, holders, locked, isRestart>>,
           \A q \in Procs : pc[q] = "electing" => todo'[q] = todo[q]
    PROVE  Phases'
<1>1. \A S : Among(S)' <=> Among(S)
  BY DEF Among
<1>2. Elected => Elected'
  BY DEF Elected, Leads, Open
<1>3. \A q \in Procs : Held(q)' = Held(q)
  BY DEF Held
<1> QED BY <1>1, <1>2, <1>3 DEF Phases

(* The stage of one process tells where the others are.                     *)
LEMMA WhereTheyAre ==
    ASSUME Phases, TypeOK, NEW p \in Procs
    PROVE  /\ pc[p] = "run" => Among({"run", "refilled"})
           /\ pc[p] = "told" => Among({"told", "suspended"})
           /\ pc[p] = "draining" => (Among(Drain) \/ Among(Greet)) /\ Elected
           /\ pc[p] \in {"greeting", "greeted"} => Among(Greet) /\ Elected
           /\ pc[p] = "checkpointed" => (Among(Greet) \/ Among(Back)) /\ Elected
           /\ pc[p] \in {"restarting", "restored", "registered", "connecting"} =>
                 Among(Again) /\ Elected /\ isRestart
           /\ pc[p] \in {"writing", "echoing", "sharing"} =>
                 Elected /\ \/ Among(Back) /\ ~isRestart
                            \/ Among(Again) /\ isRestart
<1> USE DEF Among, Electing, Drain, Greet, Back, Again, Refilling
<1>1. PICK s : s = pc[p]
  OBVIOUS
<1>2. CASE Among({"run", "refilled"})
  BY <1>1, <1>2
<1>3. CASE Among({"told", "suspended"})
  BY <1>1, <1>3
<1>4. CASE Among(Electing)
  BY <1>1, <1>4
<1>5. CASE Among(Drain) /\ Elected
  BY <1>1, <1>5
<1>6. CASE Among(Greet) /\ Elected
  BY <1>1, <1>6
<1>7. CASE Among(Back) /\ Elected /\ ~isRestart
  BY <1>1, <1>7
<1>8. CASE Among(Again) /\ Elected /\ isRestart
  BY <1>1, <1>8
<1> QED BY <1>2, <1>3, <1>4, <1>5, <1>6, <1>7, <1>8 DEF Phases

(* One process goes on to a stage in S while all are among S.               *)
LEMMA OneGoes ==
    ASSUME TypeOK, NEW p \in Procs, Application(p) \/ CkptThread(p), NEW S, Among(S), pc'[p] \in S
    PROVE  Among(S)'
BY OtherLoops DEF Among

(* The election: the last of the sharers to set the owner of an end is      *)
(* found by all of them to be its leader.                                   *)
LEMMA ElectionStep ==
    ASSUME TypeOK, Phases, Loops, NEW p \in Procs,
           \/ LeaderElection(p) \/ BeginDrain(p)
           \/ \E e \in Ends : DoLocking(p, e) \/ OnDisconnect(p, e)
    PROVE  Phases'
<1> AppType /\ KernelType /\ ConType /\ LoopType /\ pc \in [Procs -> Stages]
  BY DEF TypeOK
<1>1. \A e \in Ends : \A q \in holders[e] : q \in Procs
  BY DEF AppType
<1>2. CASE LeaderElection(p)
  <2>1. pc[p] = "suspended" /\ Among(Electing)
    BY <1>2 DEF LeaderElection, Barrier, Among, Electing
  <2>2. /\ pc' = [pc EXCEPT ![p] = "electing"] /\ todo' = [todo EXCEPT ![p] = Held(p)]
        /\ UNCHANGED <<holders, owner>>
    BY <1>2 DEF LeaderElection, Loop, Goto, appVars, kernelVars
  <2>3. Among(Electing)'
    BY <2>1, <2>2 DEF Among, Electing
  <2>4. ASSUME NEW q \in Procs, pc'[q] = "electing", NEW e \in Held(q)' \ todo'[q]
        PROVE  owner'[e] \in holders'[e]
    <3>1. q # p
      BY <2>2, <2>4 DEF LoopType, Held
    <3>2. pc[q] = "electing" /\ e \in Held(q) \ todo[q]
      BY <2>2, <2>4, <3>1 DEF Held, LoopType
    <3>3. \A r \in Procs : pc[r] = "electing" => \A f \in Held(r) \ todo[r] : owner[f] \in holders[f]
      BY <2>1, <3>2 DEF Phases, Among, Drain, Greet, Back, Again, Refilling
    <3> QED BY <2>2, <3>2, <3>3
  <2> QED BY <2>3, <2>4 DEF Phases
<1>3. ASSUME NEW e \in Ends, DoLocking(p, e) PROVE Phases'
  <2>1. pc[p] = "electing" /\ e \in todo[p] /\ e \in Held(p)
    BY <1>3 DEF DoLocking, Loops, LoopOf
  <2>2. /\ UNCHANGED <<pc, holders>> /\ owner' = [owner EXCEPT ![e] = p]
        /\ todo' = [todo EXCEPT ![p] = @ \ {e}]
    BY <1>3 DEF DoLocking, appVars, Done
  <2>3. /\ Among(Electing)
        /\ \A q \in Procs : pc[q] = "electing" => \A f \in Held(q) \ todo[q] : owner[f] \in holders[f]
    BY <2>1 DEF Phases, Among, Drain, Greet, Back, Again, Refilling
  <2>4. ASSUME NEW q \in Procs, pc'[q] = "electing", NEW f \in Held(q)' \ todo'[q]
        PROVE  owner'[f] \in holders'[f]
    <3>1. CASE f = e
      BY <2>1, <2>2, <3>1 DEF Held, KernelType
    <3>2. CASE f # e
      <4>1. f \in Held(q) \ todo[q] /\ pc[q] = "electing" /\ f \in Ends
        BY <2>2, <2>4, <3>2 DEF Held, LoopType
      <4>2. owner[f] \in holders[f]
        BY <2>3, <4>1
      <4> QED BY <2>2, <3>2, <4>1, <4>2 DEF KernelType
    <3> QED BY <3>1, <3>2
  <2>5. Among(Electing)'
    BY <2>2, <2>3 DEF Among
  <2> QED BY <2>4, <2>5 DEF Phases
<1>4. CASE BeginDrain(p)
  <2>1. /\ pc[p] = "electing" /\ Among(Drain)
        /\ \A q \in Procs : pc[q] = "electing" => todo[q] = {}
    BY <1>4 DEF BeginDrain, Barrier, Among, Drain, Finished
  <2>2. PICK lead : lead = {e \in Held(p) : owner[e] = p}
    OBVIOUS
  <2>3. /\ pc' = [pc EXCEPT ![p] = "draining"] /\ todo' = [todo EXCEPT ![p] = lead]
        /\ UNCHANGED <<holders, owner>>
        /\ locked' = (locked \ ({p} \X Held(p))) \cup ({p} \X lead)
    BY <1>4, <2>2 DEF BeginDrain, Loop, Goto, appVars, kernelVars
  <2>4. Elected
    <3>1. CASE Elected
      BY <3>1
    <3>2. CASE Among(Electing) /\ \A q \in Procs : pc[q] = "electing" =>
                                     \A e \in Held(q) \ todo[q] : owner[e] \in holders[e]
      <4> SUFFICES ASSUME NEW e \in Open PROVE \E l \in holders[e] : Leads(l, e)
        BY DEF Elected
      <4>1. \A q \in Procs : pc[q] = "electing" /\ todo[q] = {}
        BY <2>1, <3>2 DEF Among, Electing, Drain
      <4>2. PICK h \in holders[e] : TRUE
        BY DEF Open
      <4>3. h \in Procs /\ e \in Held(h) \ todo[h]
        BY <1>1, <4>1, <4>2 DEF Held, Open
      <4>4. owner[e] \in holders[e]
        BY <3>2, <4>1, <4>3
      <4>5. Leads(owner[e], e)
        BY <1>1, <4>1 DEF Leads, Open
      <4> QED BY <4>4, <4>5
    <3> QED BY <2>1, <3>1, <3>2 DEF Phases, Among
  <2>5. Elected'
    <3> SUFFICES ASSUME NEW e \in Open PROVE \E l \in holders[e] : Leads(l, e)'
      BY <2>3 DEF Elected, Open
    <3>1. PICK l \in holders[e] : Leads(l, e)
      BY <2>4 DEF Elected
    <3>2. e \in Ends
      BY DEF Open
    <3>3. ASSUME NEW q \in holders[e]
          PROVE  q = l <=> IF pc'[q] = "electing" THEN owner'[e] = q ELSE <<q, e>> \in locked'
      <4>1. q = l <=> IF pc[q] = "electing" THEN owner[e] = q ELSE <<q, e>> \in locked
        BY <3>1 DEF Leads
      <4>2. q \in Procs
        BY <1>1, <3>2
      <4>3. CASE q = p
        <5>1. e \in Held(p)
          BY <3>2, <4>3 DEF Held
        <5>2. <<p, e>> \in locked' <=> owner[e] = p
          BY <2>2, <2>3, <5>1
        <5> QED BY <2>1, <2>3, <4>1, <4>3, <5>2
      <4>4. CASE q # p
        <5>1. <<q, e>> \in locked' <=> <<q, e>> \in locked
          BY <2>3, <4>4
        <5> QED BY <2>3, <4>1, <4>2, <4>4, <5>1
      <4> QED BY <4>3, <4>4
    <3>4. Leads(l, e)'
      BY <2>3, <3>3 DEF Leads
    <3> QED BY <3>4
  <2>6. Among(Drain)' /\ \A q \in Procs : pc'[q] = "electing" => todo'[q] = {}
    BY <2>1, <2>3 DEF Among, Drain, LoopType
  <2> QED BY <2>5, <2>6 DEF Phases
<1>5. ASSUME NEW e \in Ends, OnDisconnect(p, e) PROVE Phases'
  <2>1. pc[p] = "draining" /\ e \in todo[p] /\ e \in Led(p)
    BY <1>5 DEF OnDisconnect, Loops, LoopOf
  <2>2. /\ UNCHANGED <<pc, holders, locked>> /\ owner' = [owner EXCEPT ![e] = None]
        /\ todo' = [todo EXCEPT ![p] = @ \ {e}]
    BY <1>5 DEF OnDisconnect, appVars, Done
  <2>3. Elected
    BY <2>1, WhereTheyAre
  <2>4. Elected'
    <3> SUFFICES ASSUME NEW f \in Open PROVE \E l \in holders[f] : Leads(l, f)'
      BY <2>2 DEF Elected, Open
    <3>1. PICK l \in holders[f] : Leads(l, f)
      BY <2>3 DEF Elected
    <3>2. CASE f # e
      <4>1. owner'[f] = owner[f]
        BY <2>2, <3>2 DEF KernelType, Open
      <4> QED BY <2>2, <3>1, <4>1 DEF Leads
    <3>3. CASE f = e
      <4>1. p \in holders[e] /\ <<p, e>> \in locked /\ owner'[e] = None
        BY <2>1, <2>2 DEF Led, Held, KernelType
      <4>2. p = l
        BY <2>1, <3>1, <3>3, <4>1 DEF Leads
      <4>3. \A q \in holders[e] : q # None
        BY <1>1, SocketsAssumption
      <4>4. Leads(l, e)'
        BY <2>1, <2>2, <3>1, <3>3, <4>1, <4>2, <4>3 DEF Leads
      <4> QED BY <3>3, <4>4
    <3> QED BY <3>2, <3>3
  <2>5. \A S : Among(S)' <=> Among(S)
    BY <2>2 DEF Among
  <2>6. \A q \in Procs : pc[q] = "electing" => todo'[q] = todo[q]
    BY <2>1, <2>2 DEF LoopType
  <2>7. \/ Among(Drain) /\ \A q \in Procs : pc[q] = "electing" => todo[q] = {}
        \/ Among(Greet)
    BY <2>1 DEF Phases, Among, Electing, Drain, Back, Again, Refilling
  <2> QED BY <2>2, <2>4, <2>5, <2>6, <2>7 DEF Phases
<1> QED BY <1>2, <1>3, <1>4, <1>5

(* The steps that leave all processes where they are.                       *)
LEMMA StayStep ==
    ASSUME TypeOK, Phases, NEW p \in Procs, NEW e \in Ends,
           \/ Send(p, e) \/ Recv(p, e) \/ SetOwn(p, e) \/ Close(p, e)
           \/ EchoRead(p) \/ EchoWrite(p)
           \/ DrainWrite(p, e) \/ DrainRead(p, e) \/ DrainComplete(p, e) \/ RecvHandshake(p, e)
           \/ Connect(p, e) \/ Accept(p, e) \/ EchoHeader(p, e) \/ ReceiveFd(p, e)
           \/ \E q \in Procs : SendFd(p, q, e)
    PROVE  Phases'
<1> LoopType
  BY DEF TypeOK
<1>1. CASE SetOwn(p, e) \/ Close(p, e)
  <2>1. pc[p] \in {"run", "told"} /\ UNCHANGED pc
    BY <1>1 DEF SetOwn, Close, Running
  <2>2. Among({"run", "refilled"}) \/ Among({"told", "suspended"})
    BY <2>1, WhereTheyAre
  <2> QED BY <2>1, <2>2 DEF Phases, Among
<1>2. CASE Send(p, e) \/ Recv(p, e) \/ DrainWrite(p, e) \/ DrainRead(p, e)
  BY <1>2, PhasesFrame DEF Send, Recv, DrainWrite, DrainRead, conVars, appVars, loopVars, runVars
<1>3. CASE ReceiveFd(p, e) \/ EchoRead(p) \/ \E q \in Procs : SendFd(p, q, e)
  BY <1>3, PhasesFrame DEF ReceiveFd, EchoRead, SendFd, conVars, appVars, kernelVars, loopVars, runVars
<1>4. CASE DrainComplete(p, e) \/ RecvHandshake(p, e) \/ Connect(p, e) \/ Accept(p, e)
  <2>1. UNCHANGED <<pc, owner, holders, locked, isRestart>>
    BY <1>4 DEF DrainComplete, RecvHandshake, Connect, Accept, conVars, appVars, kernelVars, runVars
  <2>2. \A q \in Procs : pc[q] = "electing" => todo'[q] = todo[q]
    BY <1>4 DEF DrainComplete, RecvHandshake, Connect, Accept, Done, LoopType
  <2> QED BY <2>1, <2>2, PhasesFrame
<1>5. CASE EchoHeader(p, e) \/ EchoWrite(p)
  <2>1. UNCHANGED <<pc, owner, holders, locked, isRestart>>
    BY <1>5 DEF EchoHeader, EchoWrite, conVars, appVars, runVars
  <2>2. \A q \in Procs : pc[q] = "electing" => todo'[q] = todo[q]
    BY <1>5 DEF EchoHeader, EchoWrite, Echoed, Done, LoopType
  <2> QED BY <2>1, <2>2, PhasesFrame
<1> QED BY <1>1, <1>2, <1>3, <1>4, <1>5

(* The steps that take one process on to another stage, under a barrier or  *)
(* not.                                                                     *)
LEMMA GoOnStep ==
    ASSUME TypeOK, Phases, NEW p \in Procs, CkptThread(p),
           \/ ThreadsSuspend(p) \/ PreCkpt(p) \/ WriteImage(p)
           \/ PostRestart(p) \/ RegisterNSData(p) \/ SendQueries(p)
           \/ BeginRefill(p) \/ RefillData(p) \/ RestoreOptions(p) \/ FdsShared(p) \/ Resume(p)
           \/ \E e \in Ends : SendHandshake(p, e) \/ RefillHeader(p, e)
    PROVE  Phases'
<1> pc \in [Procs -> Stages]
  BY DEF TypeOK
<1> USE DEF appVars, conVars, runVars
<1>1. CASE ThreadsSuspend(p)
  <2>1. pc[p] = "told" /\ pc'[p] = "suspended"
    BY <1>1 DEF ThreadsSuspend, Goto
  <2> QED BY <2>1, WhereTheyAre, OneGoes DEF Phases
<1>2. CASE Resume(p)
  <2>1. pc'[p] = "run" /\ Among({"run", "refilled"})
    BY <1>2 DEF Resume, Goto, Barrier, Among
  <2> QED BY <2>1, OneGoes DEF Phases
<1>3. ASSUME PreCkpt(p) \/ WriteImage(p) \/ \E e \in Ends : SendHandshake(p, e) PROVE Phases'
  <2>1. Among(Greet) /\ Elected
    <3>1. CASE PreCkpt(p)
      <4>1. pc[p] = "draining" /\ Among(Greet)
        BY <3>1 DEF PreCkpt, Barrier, Among, Greet
      <4> QED BY <4>1, WhereTheyAre
    <3>2. CASE WriteImage(p) \/ \E e \in Ends : SendHandshake(p, e)
      <4>1. pc[p] \in {"greeting", "greeted"}
        BY <3>2 DEF WriteImage, SendHandshake
      <4> QED BY <4>1, WhereTheyAre
    <3> QED BY <1>3, <3>1, <3>2
  <2>2. pc'[p] \in Greet
    BY <1>3, <2>1 DEF PreCkpt, WriteImage, SendHandshake, DoneThen, Loop, Goto, Done, Among, Greet
  <2>3. UNCHANGED <<holders, locked>>
    BY <1>3 DEF PreCkpt, WriteImage, SendHandshake
  <2>4. Among(Greet)'
    BY <2>1, <2>2, OneGoes
  <2>5. Elected'
    BY <2>1, <2>3, <2>4, ElectedFrame DEF Among, Greet
  <2> QED BY <2>4, <2>5 DEF Phases
<1>4. ASSUME \/ PostRestart(p) \/ RegisterNSData(p) \/ SendQueries(p) \/ BeginRefill(p)
             \/ RefillData(p) \/ RestoreOptions(p) \/ FdsShared(p)
             \/ \E e \in Ends : RefillHeader(p, e)
      PROVE  Phases'
  <2>1. Elected /\ \/ Among(Back) /\ ~isRestart
                   \/ Among(Again) /\ isRestart
    <3>1. CASE BeginRefill(p) /\ pc[p] = "checkpointed"
      <4>1. Among(Back) /\ ~isRestart
        BY <3>1 DEF BeginRefill, Barrier, Among, Back
      <4> QED BY <3>1, <4>1, WhereTheyAre
    <3>2. CASE pc[p] \in {"restarting", "restored", "registered", "connecting"}
      BY <3>2, WhereTheyAre
    <3>3. CASE pc[p] \in {"writing", "echoing", "sharing"}
      BY <3>3, WhereTheyAre
    <3>4. \/ BeginRefill(p) /\ pc[p] = "checkpointed"
          \/ pc[p] \in {"restarting", "restored", "registered", "connecting"}
          \/ pc[p] \in {"writing", "echoing", "sharing"}
      BY <1>4 DEF PostRestart, RegisterNSData, SendQueries, BeginRefill, RefillData, RestoreOptions,
                  FdsShared, RefillHeader
    <3> QED BY <3>1, <3>2, <3>3, <3>4
  <2>2. \/ pc'[p] \in Refilling
        \/ pc[p] \in {"restarting", "restored", "registered"} /\ pc'[p] \in Again
    <3>1. CASE PostRestart(p) \/ RegisterNSData(p) \/ SendQueries(p)
      BY <3>1 DEF PostRestart, RegisterNSData, SendQueries, Loop, Goto, Again
    <3>2. CASE BeginRefill(p) \/ RestoreOptions(p) \/ FdsShared(p)
      BY <3>2 DEF BeginRefill, RestoreOptions, FdsShared, Loop, Goto, Refilling
    <3>3. CASE RefillData(p) \/ \E e \in Ends : RefillHeader(p, e)
      BY <3>3 DEF RefillData, RefillHeader, Written, DoneThen, Done, Loop, Goto, Refilling
    <3> QED BY <1>4, <3>1, <3>2, <3>3
  <2>3. UNCHANGED <<holders, locked, isRestart>>
    BY <1>4 DEF PostRestart, RegisterNSData, SendQueries, BeginRefill, RefillData, RestoreOptions,
                FdsShared, RefillHeader
  <2>4. \/ Among(Back)' /\ ~isRestart'
        \/ Among(Again)' /\ isRestart'
    <3>1. CASE Among(Back) /\ ~isRestart
      <4>1. pc'[p] \in Back
        BY <2>2, <3>1 DEF Among, Back, Refilling
      <4> QED BY <2>3, <3>1, <4>1, OneGoes
    <3>2. CASE Among(Again) /\ isRestart
      <4>1. pc'[p] \in Again
        BY <2>2 DEF Again
      <4> QED BY <2>3, <3>2, <4>1, OneGoes
    <3> QED BY <2>1, <3>1, <3>2
  <2>5. Elected'
    BY <2>1, <2>3, <2>4, ElectedFrame DEF Among, Back, Again, Refilling
  <2> QED BY <2>4, <2>5 DEF Phases
<1> QED BY <1>1, <1>2, <1>3, <1>4

(* All processes are told, or are killed and restarted, at once.            *)
LEMMA AllStep ==
    ASSUME TypeOK, Phases, ImageKeeps, Request \/ Restart
    PROVE  Phases'
<1>1. CASE Request
  BY <1>1 DEF Request, Phases, Among
<1>2. CASE Restart
  <2>1. Among(Again)' /\ isRestart'
    BY <1>2 DEF Restart, Among, Again
  <2>2. Elected'
    <3> SUFFICES ASSUME NEW e \in Ends, image.holders[e] # {}
                 PROVE  \E l \in image.holders[e] : Leads(l, e)'
      BY <1>2 DEF Elected, Open, Restart
    <3>1. PICK l \in image.holders[e] : \A q \in image.holders[e] : q = l <=> <<q, e>> \in image.locked
      BY <1>2 DEF ImageKeeps, Restart
    <3>2. \A q \in image.holders[e] : q \in Procs
      BY <1>2 DEF Restart, TypeOK, RunType, Images
    <3>3. \A q \in image.holders[e] : pc'[q] # "electing"
      BY <1>2, <3>2 DEF Restart
    <3>4. Leads(l, e)'
      BY <1>2, <3>1, <3>3 DEF Leads, Restart
    <3> QED BY <3>4
  <2> QED BY <2>1, <2>2 DEF Phases
<1> QED BY <1>1, <1>2

(* Every step keeps the phases.                                             *)
LEMMA PhasesStep == TypeOK /\ Phases /\ Loops /\ ImageKeeps /\ Next => Phases'
<1> SUFFICES ASSUME TypeOK, Phases, Loops, ImageKeeps, Next PROVE Phases'
  OBVIOUS
<1>1. ASSUME NEW p \in Procs, Application(p) PROVE Phases'
  BY <1>1, StayStep DEF Application
<1>2. ASSUME NEW p \in Procs, CkptThread(p) PROVE Phases'
  <2>1. CASE \/ LeaderElection(p) \/ BeginDrain(p)
             \/ \E e \in Ends : DoLocking(p, e) \/ OnDisconnect(p, e)
    BY <2>1, ElectionStep
  <2>2. CASE EchoRead(p) \/ EchoWrite(p)
    <3>1. PICK e \in Ends : TRUE
      BY <2>2 DEF EchoRead, EchoWrite, Loops, LoopOf, TypeOK, LoopType
    <3> QED BY <2>2, <3>1, StayStep
  <2>3. CASE \E e \in Ends :
                \/ DrainWrite(p, e) \/ DrainRead(p, e) \/ DrainComplete(p, e) \/ RecvHandshake(p, e)
                \/ Connect(p, e) \/ Accept(p, e) \/ EchoHeader(p, e) \/ ReceiveFd(p, e)
                \/ \E q \in Procs : SendFd(p, q, e)
    BY <2>3, StayStep
  <2>4. CASE \/ ThreadsSuspend(p) \/ PreCkpt(p) \/ WriteImage(p)
             \/ PostRestart(p) \/ RegisterNSData(p) \/ SendQueries(p)
             \/ BeginRefill(p) \/ RefillData(p) \/ RestoreOptions(p) \/ FdsShared(p) \/ Resume(p)
             \/ \E e \in Ends : SendHandshake(p, e) \/ RefillHeader(p, e)
    BY <1>2, <2>4, GoOnStep
  <2> QED BY <1>2, <2>1, <2>2, <2>3, <2>4 DEF CkptThread
<1> QED BY <1>1, <1>2, AllStep DEF Next

------------------------------------------------------------------------------
(* Only a disconnection changes a type; only the drain and the refill       *)
(* change what is drained.                                                  *)
LEMMA OtherBuffers ==
    ASSUME NEW p \in Procs, Application(p) \/ CkptThread(p)
    PROVE  /\ type' = type \/ \E e \in Ends : OnDisconnect(p, e)
           /\ drained' = drained \/ pc[p] = "draining" \/ RefillData(p)
<1> DEFINE Goal == /\ type' = type \/ \E e \in Ends : OnDisconnect(p, e)
                   /\ drained' = drained \/ pc[p] = "draining" \/ RefillData(p)
<1> USE DEF conVars, drainVars
<1>1. ASSUME NEW e \in Ends, Send(p, e) \/ Recv(p, e) \/ SetOwn(p, e) \/ Close(p, e) PROVE Goal
  BY <1>1 DEF Send, Recv, SetOwn, Close
<1>2. CASE ThreadsSuspend(p) \/ LeaderElection(p) \/ BeginDrain(p) \/ PreCkpt(p) \/ WriteImage(p)
  BY <1>2 DEF ThreadsSuspend, LeaderElection, BeginDrain, PreCkpt, WriteImage
<1>3. CASE PostRestart(p) \/ RegisterNSData(p) \/ SendQueries(p) \/ BeginRefill(p) \/ RefillData(p)
  BY <1>3 DEF PostRestart, RegisterNSData, SendQueries, BeginRefill, RefillData
<1>4. CASE RestoreOptions(p) \/ FdsShared(p) \/ Resume(p) \/ EchoRead(p) \/ EchoWrite(p)
  BY <1>4 DEF RestoreOptions, FdsShared, Resume, EchoRead, EchoWrite
<1>5. ASSUME NEW e \in Ends, DoLocking(p, e) \/ DrainWrite(p, e) \/ DrainRead(p, e) \/ DrainComplete(p, e)
      PROVE  Goal
  BY <1>5 DEF DoLocking, DrainWrite, DrainRead, DrainComplete
<1>6. ASSUME NEW e \in Ends, OnDisconnect(p, e) PROVE Goal
  BY <1>6 DEF OnDisconnect
<1>7. ASSUME NEW e \in Ends, SendHandshake(p, e) \/ RecvHandshake(p, e) \/ Connect(p, e) \/ Accept(p, e)
      PROVE  Goal
  BY <1>7 DEF SendHandshake, RecvHandshake, Connect, Accept
<1>8. ASSUME NEW e \in Ends, RefillHeader(p, e) \/ EchoHeader(p, e) \/ ReceiveFd(p, e) PROVE Goal
  BY <1>8 DEF RefillHeader, EchoHeader, ReceiveFd
<1>9. ASSUME NEW e \in Ends, NEW r \in Procs, SendFd(p, r, e) PROVE Goal
  BY <1>9 DEF SendFd
<1> HIDE DEF Goal
<1> QED BY <1>1, <1>2, <1>3, <1>4, <1>5, <1>6, <1>7, <1>8, <1>9 DEF Application, CkptThread, Goal

(* A step of p leaves the loop of q alone, and what it works on: no two     *)
(* processes lead the same end.                                             *)
LEMMA LoopOther ==
    ASSUME TypeOK, Phases, Loops, NEW p \in Procs, Application(p) \/ CkptThread(p),
           NEW q \in Procs, q # p
    PROVE  LoopOf(q)'
<1>1. /\ pc'[q] = pc[q] /\ todo'[q] = todo[q]
      /\ cur'[q] = cur[q] /\ left'[q] = left[q] /\ tmp'[q] = tmp[q]
  BY OtherLoops
<1>2. Held(q)' = Held(q) /\ Led(q)' = Led(q)
  BY OtherHolds DEF Held, Led
<1>3. pc[q] \in {"greeting", "greeted", "connecting", "writing", "echoing"} => Live(q)' = Live(q)
  <2>1. CASE type' = type
    BY <1>2, <2>1 DEF Live
  <2>2. ASSUME NEW e \in Ends, OnDisconnect(p, e), pc[q] # "electing" PROVE Live(q)' = Live(q)
    <3>1. pc[p] = "draining" /\ e \in Led(p) /\ type' = [type EXCEPT ![e] = "ERROR"]
      BY <2>2 DEF OnDisconnect, Loops, LoopOf
    <3>2. e \notin Led(q)
      BY <2>2, <3>1, WhereTheyAre, OneLed
    <3>3. \A f \in Led(q) : type'[f] = type[f]
      BY <3>1, <3>2 DEF TypeOK, ConType, Led, Held
    <3> QED BY <1>2, <3>3 DEF Live
  <2> QED BY <2>1, <2>2, OtherBuffers
<1>4. pc[q] = "writing" /\ cur[q] # None => drained'[cur[q]] = drained[cur[q]]
  <2> SUFFICES ASSUME pc[q] = "writing", cur[q] # None, drained' # drained
               PROVE  drained'[cur[q]] = drained[cur[q]]
    OBVIOUS
  <2>1. pc[p] # "draining"
    BY WhereTheyAre DEF Among, Drain, Greet
  <2>2. RefillData(p)
    BY <2>1, OtherBuffers
  <2>3. pc[p] = "writing" /\ cur[p] \in Led(p) /\ cur[q] \in Led(q)
    BY <2>2 DEF RefillData, Loops, LoopOf, Live
  <2>4. cur[p] # cur[q]
    BY <2>3, WhereTheyAre, OneLed
  <2>5. cur[q] \in Ends
    BY <2>3 DEF Led, Held
  <2> QED BY <2>2, <2>4, <2>5 DEF RefillData, TypeOK, DrainType
<1>5. LoopOf(q)
  BY DEF Loops
<1> QED BY <1>1, <1>2, <1>3, <1>4, <1>5 DEF LoopOf

(* The loops over ends: what a process begins with.                         *)
LEMMA LoopBegins ==
    ASSUME TypeOK, Loops, NEW p \in Procs,
           \/ LeaderElection(p) \/ BeginDrain(p) \/ PreCkpt(p) \/ SendQueries(p) \/ BeginRefill(p)
           \/ RestoreOptions(p) \/ FdsShared(p)
           \/ ThreadsSuspend(p) \/ WriteImage(p) \/ PostRestart(p) \/ RegisterNSData(p) \/ Resume(p)
    PROVE  LoopOf(p)'
<1> pc \in [Procs -> Stages] /\ LoopType
  BY DEF TypeOK
<1> LoopOf(p)
  BY DEF Loops
<1> USE DEF appVars, conVars, loopVars, LoopType, LoopOf, Goto, Loop
<1>1. CASE LeaderElection(p)
  BY <1>1 DEF LeaderElection, Held
<1>2. CASE BeginDrain(p)
  <2>1. PICK lead : lead = {e \in Held(p) : owner[e] = p}
    OBVIOUS
  <2>2. pc'[p] = "draining" /\ todo'[p] = lead /\ UNCHANGED <<cur, left, tmp>>
    BY <1>2, <2>1 DEF BeginDrain, Held
  <2>3. lead \subseteq Led(p)'
    BY <1>2, <2>1 DEF BeginDrain, Led, Held
  <2> QED BY <1>2, <2>2, <2>3 DEF BeginDrain
<1>3. CASE PreCkpt(p) \/ SendQueries(p)
  <2>1. Live(p)' = Live(p)
    BY <1>3 DEF PreCkpt, SendQueries, Live, Led, Held
  <2>2. todo'[p] = Live(p) /\ pc'[p] \in {"greeting", "greeted", "connecting"} /\ cur'[p] = None /\ left'[p] = 0
    BY <1>3 DEF PreCkpt, SendQueries
  <2> QED BY <2>1, <2>2
<1>4. CASE BeginRefill(p)
  <2>1. Live(p)' = Live(p)
    BY <1>4 DEF BeginRefill, Live, Led, Held
  <2>2. todo'[p] = Live(p) /\ pc'[p] \in {"writing", "echoing"} /\ cur'[p] = None /\ left'[p] = 0
    BY <1>4 DEF BeginRefill
  <2> QED BY <2>1, <2>2
<1>5. CASE RestoreOptions(p) \/ FdsShared(p)
  <2>1. pc'[p] \in {"sharing", "refilled"} /\ cur'[p] = None /\ left'[p] = 0
    BY <1>5 DEF RestoreOptions, FdsShared
  <2> QED BY <2>1
<1>6. CASE ThreadsSuspend(p) \/ WriteImage(p) \/ PostRestart(p) \/ RegisterNSData(p) \/ Resume(p)
  <2>1. pc'[p] \in {"suspended", "checkpointed", "restored", "registered", "run"}
        /\ cur'[p] = None /\ left'[p] = 0
    BY <1>6 DEF ThreadsSuspend, WriteImage, PostRestart, RegisterNSData, Resume
  <2> QED BY <2>1
<1> QED BY <1>1, <1>2, <1>3, <1>4, <1>5, <1>6

(* The loops over ends: what a process goes on with.                        *)
LEMMA LoopGoesOn ==
    ASSUME TypeOK, Loops, NEW p \in Procs, NEW e \in Ends,
           \/ Send(p, e) \/ Recv(p, e) \/ SetOwn(p, e) \/ Close(p, e)
           \/ DoLocking(p, e) \/ DrainWrite(p, e) \/ DrainRead(p, e)
           \/ DrainComplete(p, e) \/ OnDisconnect(p, e) \/ SendHandshake(p, e) \/ RecvHandshake(p, e)
           \/ Connect(p, e) \/ Accept(p, e) \/ ReceiveFd(p, e) \/ \E q \in Procs : SendFd(p, q, e)
    PROVE  LoopOf(p)'
<1> pc \in [Procs -> Stages] /\ LoopType
  BY DEF TypeOK
<1> LoopOf(p)
  BY DEF Loops
<1> USE DEF appVars, conVars, loopVars, LoopType, LoopOf, Done
<1>1. CASE Send(p, e) \/ Recv(p, e) \/ SetOwn(p, e) \/ Close(p, e)
  <2>1. UNCHANGED <<pc, todo, cur, left, tmp>> /\ pc[p] \in {"run", "told"}
    BY <1>1 DEF Send, Recv, SetOwn, Close, Running
  <2> QED BY <2>1
<1>2. CASE DoLocking(p, e)
  <2>1. todo'[p] \subseteq todo[p] /\ Held(p)' = Held(p) /\ UNCHANGED <<pc, cur, left, tmp>>
    BY <1>2 DEF DoLocking, Held
  <2> QED BY <1>2, <2>1 DEF DoLocking
<1>3. CASE DrainWrite(p, e) \/ DrainRead(p, e) \/ DrainComplete(p, e) \/ OnDisconnect(p, e)
  <2>1. /\ todo'[p] \subseteq todo[p] /\ Led(p)' = Led(p) /\ UNCHANGED <<pc, cur, left, tmp>>
        /\ pc[p] = "draining"
    BY <1>3 DEF DrainWrite, DrainRead, DrainComplete, OnDisconnect, Led, Held
  <2> QED BY <2>1
<1>4. CASE RecvHandshake(p, e) \/ Connect(p, e) \/ Accept(p, e)
  <2>1. /\ todo'[p] \subseteq todo[p] /\ Live(p)' = Live(p) /\ UNCHANGED <<pc, cur, left, tmp>>
        /\ pc[p] \in {"greeted", "connecting"}
    BY <1>4 DEF RecvHandshake, Connect, Accept, Live, Led, Held
  <2> QED BY <2>1
<1>5. CASE SendHandshake(p, e)
  <2>1. /\ todo'[p] \subseteq todo[p] \/ todo'[p] = Live(p)
        /\ Live(p)' = Live(p) /\ UNCHANGED <<cur, left, tmp>>
        /\ pc[p] = "greeting" /\ pc'[p] \in {"greeting", "greeted"}
    BY <1>5 DEF SendHandshake, DoneThen, Loop, Goto, Live, Led, Held
  <2> QED BY <2>1
<1>6. CASE ReceiveFd(p, e) \/ \E q \in Procs : SendFd(p, q, e)
  <2>1. UNCHANGED <<pc, todo, cur, left, tmp>> /\ pc[p] = "sharing"
    BY <1>6 DEF ReceiveFd, SendFd
  <2> QED BY <2>1
<1> QED BY <1>1, <1>2, <1>3, <1>4, <1>5, <1>6

(* The two loops of the refill.                                             *)
LEMMA LoopRefills ==
    ASSUME TypeOK, Loops, NEW p \in Procs,
           \/ RefillData(p) \/ EchoRead(p) \/ EchoWrite(p)
           \/ \E e \in Ends : RefillHeader(p, e) \/ EchoHeader(p, e)
    PROVE  LoopOf(p)'
<1> pc \in [Procs -> Stages] /\ LoopType /\ KernelType /\ DrainType
  BY DEF TypeOK
<1> LoopOf(p)
  BY DEF Loops
<1> USE DEF appVars, conVars, LoopType, Done
<1>1. \A e, rest : Written(p, e, rest) =>
          IF rest = <<>>
          THEN /\ cur'[p] = None
               /\ \/ pc'[p] = "echoing" /\ todo'[p] = Live(p)
                  \/ pc'[p] = pc[p] /\ todo'[p] \subseteq todo[p]
          ELSE cur'[p] = e /\ pc'[p] = pc[p] /\ todo'[p] = todo[p]
  BY DEF Written, DoneThen, Loop, Goto
<1>2. \A e, n, rest : Echoed(p, e, n, rest) =>
          IF n = 0 /\ rest = <<>>
          THEN cur'[p] = None /\ todo'[p] \subseteq todo[p]
          ELSE cur'[p] = e /\ todo'[p] = todo[p]
  BY DEF Echoed
<1>3. ASSUME NEW e \in Ends, RefillHeader(p, e) PROVE LoopOf(p)'
  <2>1. /\ pc[p] = "writing" /\ e \in todo[p] /\ Written(p, e, drained[e])
        /\ UNCHANGED <<drained, left, tmp>> /\ Live(p)' = Live(p)
    BY <1>3 DEF RefillHeader, IsNext, Live, Led, Held, drainVars
  <2> QED BY <1>1, <2>1 DEF LoopOf
<1>4. CASE RefillData(p)
  <2>1. PICK e \in Ends : e = cur[p] /\ e \in todo[p]
    BY <1>4 DEF RefillData, LoopOf
  <2>2. /\ pc[p] = "writing" /\ Written(p, e, Tail(drained[e])) /\ drained'[e] = Tail(drained[e])
        /\ UNCHANGED <<left, tmp>> /\ Live(p)' = Live(p)
    BY <1>4, <2>1 DEF RefillData, Live, Led, Held, DrainType
  <2> QED BY <1>1, <2>1, <2>2 DEF LoopOf
<1>5. ASSUME NEW e \in Ends, EchoHeader(p, e) PROVE LoopOf(p)'
  <2>1. PICK n \in Nat : n = Head(kernel[e]).extraBytes
    BY <1>5, ReadType, ItemFacts DEF EchoHeader
  <2>2. /\ pc[p] = "echoing" /\ e \in todo[p] /\ Echoed(p, e, n, <<>>) /\ left'[p] = n
        /\ UNCHANGED <<pc, tmp>> /\ Live(p)' = Live(p)
    BY <1>5, <2>1 DEF EchoHeader, IsNext, Live, Led, Held
  <2>3. CASE n = 0
    <3>1. cur'[p] = None /\ todo'[p] \subseteq todo[p]
      BY <1>2, <2>2, <2>3
    <3> QED BY <2>2, <2>3, <3>1 DEF LoopOf
  <2>4. CASE n > 0
    <3>1. cur'[p] = e /\ e # None /\ todo'[p] = todo[p]
      BY <1>2, <2>2, <2>4, SocketsAssumption
    <3> QED BY <2>2, <2>4, <3>1 DEF LoopOf
  <2> QED BY <2>1, <2>3, <2>4
<1>6. CASE EchoRead(p)
  <2>1. /\ pc[p] = "echoing" /\ left[p] > 0 /\ UNCHANGED <<pc, todo, cur>> /\ Live(p)' = Live(p)
        /\ tmp'[p] = Append(tmp[p], Head(kernel[cur[p]]))
    BY <1>6 DEF EchoRead, Live, Led, Held
  <2>2. cur[p] # None /\ cur[p] \in Ends
    BY <2>1 DEF LoopOf
  <2>3. Head(kernel[cur[p]]) \in Item
    BY <1>6, <2>2, ReadType DEF EchoRead
  <2>4. tmp'[p] # <<>>
    <3>1. PICK s \in Seq(Item) : s = tmp[p]
      OBVIOUS
    <3>2. PICK x \in Item : x = Head(kernel[cur[p]])
      BY <2>3
    <3>3. Append(s, x) # <<>>
      <4>0. Append(s, x) \in Seq(Item)
        BY BufferFacts
      <4>1. PICK u \in Seq(Item) : u = Append(s, x)
        BY <4>0
      <4>2. Len(u) = Len(s) + 1 /\ Len(s) \in Nat
        BY <4>1
      <4>3. u # <<>>
        BY <4>2, EmptySeq
      <4> QED BY <4>1, <4>3
    <3> QED BY <2>1, <3>1, <3>2, <3>3
  <2> QED BY <2>1, <2>2, <2>4 DEF LoopOf
<1>7. CASE EchoWrite(p)
  <2>1. PICK e \in Ends : e = cur[p] /\ e \in todo[p]
    BY <1>7 DEF EchoWrite, LoopOf
  <2>2. /\ pc[p] = "echoing" /\ left[p] = 0 /\ Echoed(p, e, 0, Tail(tmp[p])) /\ tmp'[p] = Tail(tmp[p])
        /\ UNCHANGED <<pc, left>> /\ Live(p)' = Live(p)
    BY <1>7, <2>1 DEF EchoWrite, Live, Led, Held
  <2> QED BY <1>2, <2>1, <2>2 DEF LoopOf
<1> QED BY <1>3, <1>4, <1>5, <1>6, <1>7

(* Every step keeps the loops.                                              *)
LEMMA LoopsStep == TypeOK /\ Phases /\ Loops /\ Next => Loops'
<1> SUFFICES ASSUME TypeOK, Phases, Loops, Next, NEW q \in Procs PROVE LoopOf(q)'
  BY DEF Loops
<1>1. CASE Request
  <2>1. pc'[q] = "told" /\ pc[q] = "run" /\ UNCHANGED <<todo, cur, left, tmp>>
    BY <1>1 DEF Request, loopVars
  <2> QED BY <2>1 DEF Loops, LoopOf
<1>2. CASE Restart
  <2>1. pc'[q] = "restarting" /\ cur'[q] = None /\ left'[q] = 0
    BY <1>2 DEF Restart
  <2> QED BY <2>1 DEF LoopOf
<1>3. ASSUME NEW p \in Procs, Application(p) \/ CkptThread(p), q # p PROVE LoopOf(q)'
  BY <1>3, LoopOther
<1>4. CASE Application(q)
  BY <1>4, LoopGoesOn DEF Application
<1>5. CASE CkptThread(q)
  BY <1>5, LoopBegins, LoopGoesOn, LoopRefills DEF CkptThread
<1> QED BY <1>1, <1>2, <1>3, <1>4, <1>5 DEF Next

------------------------------------------------------------------------------
(* Which steps write an image, double a buffer, change an owner, a saved    *)
(* one, a holder or a lock, ...                                             *)
LEMMA WhoChanges ==
    ASSUME NEW p \in Procs, Application(p) \/ CkptThread(p)
    PROVE  /\ image' = image \/ WriteImage(p)
           /\ isRestart' = isRestart
           /\ wired \subseteq wired' \/ \E e \in Ends : Close(p, e) \/ OnDisconnect(p, e)
           /\ doubled' \subseteq doubled \/ \E e \in Ends : RefillHeader(p, e)
           /\ owner' = owner \/ RestoreOptions(p)
                 \/ \E e \in Ends : SetOwn(p, e) \/ DoLocking(p, e) \/ OnDisconnect(p, e)
           /\ wanted' = wanted \/ \E e \in Ends : SetOwn(p, e)
           /\ savedOwner' = savedOwner \/ ThreadsSuspend(p) \/ \E e \in Ends : Close(p, e)
           /\ holders' = holders \/ ThreadsSuspend(p) \/ \E e \in Ends : Close(p, e)
           /\ locked' = locked \/ ThreadsSuspend(p) \/ BeginDrain(p) \/ \E e \in Ends : DoLocking(p, e) \/ Close(p, e)
<1> DEFINE Goal == /\ image' = image \/ WriteImage(p)
                   /\ isRestart' = isRestart
                   /\ wired \subseteq wired' \/ \E e \in Ends : Close(p, e) \/ OnDisconnect(p, e)
                   /\ doubled' \subseteq doubled \/ \E e \in Ends : RefillHeader(p, e)
                   /\ owner' = owner \/ RestoreOptions(p)
                         \/ \E e \in Ends : SetOwn(p, e) \/ DoLocking(p, e) \/ OnDisconnect(p, e)
                   /\ wanted' = wanted \/ \E e \in Ends : SetOwn(p, e)
                   /\ savedOwner' = savedOwner \/ ThreadsSuspend(p) \/ \E e \in Ends : Close(p, e)
                   /\ holders' = holders \/ ThreadsSuspend(p) \/ \E e \in Ends : Close(p, e)
                   /\ locked' = locked \/ ThreadsSuspend(p) \/ BeginDrain(p) \/ \E e \in Ends : DoLocking(p, e) \/ Close(p, e)
<1> USE DEF appVars, kernelVars, conVars, runVars
<1>1. ASSUME NEW e \in Ends, Send(p, e) \/ Recv(p, e) \/ SetOwn(p, e) \/ Close(p, e) PROVE Goal
  BY <1>1 DEF Send, Recv, SetOwn, Close
<1>2. CASE ThreadsSuspend(p) \/ LeaderElection(p) \/ BeginDrain(p) \/ PreCkpt(p) \/ WriteImage(p)
  BY <1>2 DEF ThreadsSuspend, LeaderElection, BeginDrain, PreCkpt, WriteImage
<1>3. CASE PostRestart(p) \/ RegisterNSData(p) \/ SendQueries(p) \/ BeginRefill(p) \/ RefillData(p)
  BY <1>3 DEF PostRestart, RegisterNSData, SendQueries, BeginRefill, RefillData
<1>4. CASE RestoreOptions(p) \/ FdsShared(p) \/ Resume(p) \/ EchoRead(p)
  BY <1>4 DEF RestoreOptions, FdsShared, Resume, EchoRead
<1>5. CASE EchoWrite(p)
  BY <1>5 DEF EchoWrite, Echoed
<1>6. ASSUME NEW e \in Ends, DoLocking(p, e) \/ DrainWrite(p, e) \/ DrainRead(p, e) PROVE Goal
  BY <1>6 DEF DoLocking, DrainWrite, DrainRead
<1>7. ASSUME NEW e \in Ends, DrainComplete(p, e) \/ OnDisconnect(p, e) PROVE Goal
  BY <1>7 DEF DrainComplete, OnDisconnect
<1>8. ASSUME NEW e \in Ends, SendHandshake(p, e) \/ RecvHandshake(p, e) \/ Connect(p, e) \/ Accept(p, e)
      PROVE  Goal
  BY <1>8 DEF SendHandshake, RecvHandshake, Connect, Accept
<1>9. ASSUME NEW e \in Ends, RefillHeader(p, e) PROVE Goal
  BY <1>9 DEF RefillHeader
<1>10. ASSUME NEW e \in Ends, EchoHeader(p, e) PROVE Goal
  BY <1>10 DEF EchoHeader, Echoed
<1>11. ASSUME NEW e \in Ends, ReceiveFd(p, e) PROVE Goal
  BY <1>11 DEF ReceiveFd
<1>12. ASSUME NEW e \in Ends, NEW r \in Procs, SendFd(p, r, e) PROVE Goal
  BY <1>12 DEF SendFd
<1> HIDE DEF Goal
<1> QED BY <1>1, <1>2, <1>3, <1>4, <1>5, <1>6, <1>7, <1>8, <1>9, <1>10, <1>11, <1>12
        DEF Application, CkptThread, Goal

(* ... and which ones stop a process, or have it ready to run.              *)
LEMMA WhoMoves ==
    ASSUME TypeOK, NEW p \in Procs, Application(p) \/ CkptThread(p)
    PROVE  /\ \/ pc'[p] = pc[p]
              \/ ThreadsSuspend(p)
              \/ RestoreOptions(p) \/ FdsShared(p) \/ Resume(p)
              \/ pc[p] \notin {"run", "told", "refilled", "sharing"}
                 /\ pc'[p] \notin {"run", "told", "suspended", "refilled", "sharing"}
           /\ pc'[p] = "electing" => pc[p] \in Electing
           /\ pc[p] = "electing" => BeginDrain(p) \/ \E e \in Ends : DoLocking(p, e)
<1> DEFINE Goal == /\ \/ pc'[p] = pc[p]
                      \/ ThreadsSuspend(p)
                      \/ RestoreOptions(p) \/ FdsShared(p) \/ Resume(p)
                      \/ pc[p] \notin {"run", "told", "refilled", "sharing"}
                         /\ pc'[p] \notin {"run", "told", "suspended", "refilled", "sharing"}
                   /\ pc'[p] = "electing" => pc[p] \in Electing
                   /\ pc[p] = "electing" => BeginDrain(p) \/ \E e \in Ends : DoLocking(p, e)
<1> pc \in [Procs -> Stages]
  BY DEF TypeOK
<1> USE DEF Goto, Loop, Electing
<1>1. ASSUME NEW e \in Ends, Send(p, e) \/ Recv(p, e) \/ SetOwn(p, e) \/ Close(p, e) PROVE Goal
  BY <1>1 DEF Send, Recv, SetOwn, Close, Running
<1>2. CASE LeaderElection(p) \/ BeginDrain(p) \/ PreCkpt(p) \/ WriteImage(p)
  BY <1>2 DEF LeaderElection, BeginDrain, PreCkpt, WriteImage
<1>3. CASE PostRestart(p) \/ RegisterNSData(p) \/ SendQueries(p) \/ BeginRefill(p)
  BY <1>3 DEF PostRestart, RegisterNSData, SendQueries, BeginRefill
<1>4. CASE RefillData(p)
  BY <1>4 DEF RefillData, Written, DoneThen
<1>5. CASE EchoRead(p) \/ EchoWrite(p)
  BY <1>5 DEF EchoRead, EchoWrite
<1>6. ASSUME NEW e \in Ends, DoLocking(p, e) \/ DrainWrite(p, e) \/ DrainRead(p, e) PROVE Goal
  BY <1>6 DEF DoLocking, DrainWrite, DrainRead
<1>7. ASSUME NEW e \in Ends, DrainComplete(p, e) \/ OnDisconnect(p, e) PROVE Goal
  BY <1>7 DEF DrainComplete, OnDisconnect
<1>8. ASSUME NEW e \in Ends, RecvHandshake(p, e) \/ Connect(p, e) \/ Accept(p, e) PROVE Goal
  BY <1>8 DEF RecvHandshake, Connect, Accept
<1>9. ASSUME NEW e \in Ends, SendHandshake(p, e) PROVE Goal
  BY <1>9 DEF SendHandshake, DoneThen
<1>10. ASSUME NEW e \in Ends, RefillHeader(p, e) PROVE Goal
  BY <1>10 DEF RefillHeader, Written, DoneThen
<1>11. ASSUME NEW e \in Ends, EchoHeader(p, e) \/ ReceiveFd(p, e) PROVE Goal
  BY <1>11 DEF EchoHeader, ReceiveFd
<1>12. ASSUME NEW e \in Ends, NEW r \in Procs, SendFd(p, r, e) PROVE Goal
  BY <1>12 DEF SendFd
<1>13. CASE ThreadsSuspend(p) \/ RestoreOptions(p) \/ FdsShared(p) \/ Resume(p)
  BY <1>13 DEF ThreadsSuspend, RestoreOptions, FdsShared, Resume
<1> HIDE DEF Goal
<1> QED BY <1>1, <1>2, <1>3, <1>4, <1>5, <1>6, <1>7, <1>8, <1>9, <1>10, <1>11, <1>12, <1>13
        DEF Application, CkptThread, Goal

(* A process that runs or is restarted does nothing else until it is told.  *)
LEMMA WhoStays ==
    ASSUME TypeOK, NEW p \in Procs, Application(p) \/ CkptThread(p), pc[p] \in {"run"} \cup Again
    PROVE  pc'[p] \in {"run"} \cup Again
<1> DEFINE Goal == pc'[p] \in {"run"} \cup Again
<1> pc \in [Procs -> Stages]
  BY DEF TypeOK
<1> USE DEF Goto, Loop, Again, Refilling
<1>1. ASSUME NEW e \in Ends, Send(p, e) \/ Recv(p, e) \/ SetOwn(p, e) \/ Close(p, e) PROVE Goal
  BY <1>1 DEF Send, Recv, SetOwn, Close
<1>2. CASE ThreadsSuspend(p) \/ LeaderElection(p) \/ BeginDrain(p) \/ PreCkpt(p) \/ WriteImage(p)
  BY <1>2 DEF ThreadsSuspend, LeaderElection, BeginDrain, PreCkpt, WriteImage
<1>3. CASE PostRestart(p) \/ RegisterNSData(p) \/ SendQueries(p) \/ BeginRefill(p)
  BY <1>3 DEF PostRestart, RegisterNSData, SendQueries, BeginRefill
<1>4. CASE RestoreOptions(p) \/ FdsShared(p) \/ Resume(p)
  BY <1>4 DEF RestoreOptions, FdsShared, Resume
<1>5. CASE RefillData(p)
  BY <1>5 DEF RefillData, Written, DoneThen
<1>6. CASE EchoRead(p) \/ EchoWrite(p)
  BY <1>6 DEF EchoRead, EchoWrite
<1>7. ASSUME NEW e \in Ends, DoLocking(p, e) \/ DrainWrite(p, e) \/ DrainRead(p, e) PROVE Goal
  BY <1>7 DEF DoLocking, DrainWrite, DrainRead
<1>8. ASSUME NEW e \in Ends, DrainComplete(p, e) \/ OnDisconnect(p, e) \/ SendHandshake(p, e) PROVE Goal
  BY <1>8 DEF DrainComplete, OnDisconnect, SendHandshake
<1>9. ASSUME NEW e \in Ends, RecvHandshake(p, e) \/ Connect(p, e) \/ Accept(p, e) PROVE Goal
  BY <1>9 DEF RecvHandshake, Connect, Accept
<1>10. ASSUME NEW e \in Ends, RefillHeader(p, e) PROVE Goal
  BY <1>10 DEF RefillHeader, Written, DoneThen
<1>11. ASSUME NEW e \in Ends, EchoHeader(p, e) \/ ReceiveFd(p, e) PROVE Goal
  BY <1>11 DEF EchoHeader, ReceiveFd
<1>12. ASSUME NEW e \in Ends, NEW r \in Procs, SendFd(p, r, e) PROVE Goal
  BY <1>12 DEF SendFd
<1> HIDE DEF Goal
<1> QED BY <1>1, <1>2, <1>3, <1>4, <1>5, <1>6, <1>7, <1>8, <1>9, <1>10, <1>11, <1>12
        DEF Application, CkptThread, Goal

(* A restart lasts until the next checkpoint, ...                           *)
LEMMA FreshStep == TypeOK /\ Fresh /\ Next => Fresh'
<1> SUFFICES ASSUME TypeOK, Fresh, Next, isRestart' PROVE Among({"run"} \cup Again)'
  BY DEF Fresh
<1>1. CASE Request
  BY <1>1 DEF Request
<1>2. CASE Restart
  BY <1>2 DEF Restart, Among, Again
<1>3. ASSUME NEW p \in Procs, Application(p) \/ CkptThread(p) PROVE Among({"run"} \cup Again)'
  <2>1. isRestart
    BY <1>3, WhoChanges
  <2>2. Among({"run"} \cup Again)
    BY <2>1 DEF Fresh
  <2>3. pc'[p] \in {"run"} \cup Again
    BY <1>3, <2>2, WhoStays DEF Among
  <2> QED BY <1>3, <2>2, <2>3, OneGoes
<1> QED BY <1>1, <1>2, <1>3 DEF Next

(* ... and until then no lock and no saved owner changes.                   *)
LEMMA RecalledStep == TypeOK /\ Fresh /\ Recalled /\ Next => Recalled'
<1> SUFFICES ASSUME TypeOK, Fresh, Recalled, Next, isRestart', Among(Again)'
             PROVE  image' # NoImage /\ locked' = image'.locked /\ savedOwner' = image'.savedOwner
  BY DEF Recalled
<1>1. CASE Request
  BY <1>1 DEF Request
<1>2. CASE Restart
  BY <1>2 DEF Restart
<1>3. ASSUME NEW p \in Procs, Application(p) \/ CkptThread(p)
      PROVE  image' # NoImage /\ locked' = image'.locked /\ savedOwner' = image'.savedOwner
  <2>1. isRestart /\ Among({"run"} \cup Again)
    BY <1>3, WhoChanges DEF Fresh
  <2>2. pc[p] # "run"
    <3>1. ASSUME pc[p] = "run" PROVE pc'[p] = "run"
      BY <1>3, <3>1, WhoMoves DEF ThreadsSuspend, RestoreOptions, FdsShared, Resume
    <3> QED BY <3>1 DEF Among, Again, Refilling
  <2>3. Among(Again)
    <3>1. \A q \in Procs \ {p} : pc'[q] = pc[q]
      BY <1>3, OtherLoops
    <3> QED BY <2>1, <2>2, <3>1 DEF Among
  <2>4. pc[p] \notin {"run", "told", "electing", "greeted"}
    BY <2>3 DEF Among, Again, Refilling
  <2>5. /\ ~ThreadsSuspend(p) /\ ~BeginDrain(p) /\ ~WriteImage(p)
        /\ \A e \in Ends : ~Close(p, e) /\ ~DoLocking(p, e)
    BY <2>4 DEF ThreadsSuspend, BeginDrain, WriteImage, Close, DoLocking, Running
  <2>6. UNCHANGED <<image, locked, savedOwner>>
    BY <1>3, <2>5, WhoChanges
  <2> QED BY <2>1, <2>3, <2>6 DEF Recalled
<1> QED BY <1>1, <1>2, <1>3 DEF Next

(* The images are written when the leaders are known.                       *)
LEMMA ImageStep == TypeOK /\ Phases /\ OwnersKept /\ ImageKeeps /\ Next => ImageKeeps'
<1> SUFFICES ASSUME TypeOK, Phases, OwnersKept, ImageKeeps, Next PROVE ImageKeeps'
  OBVIOUS
<1>1. CASE image' = image
  BY <1>1 DEF ImageKeeps
<1>2. ASSUME NEW p \in Procs, WriteImage(p), image' # image PROVE ImageKeeps'
  <2>1. image' = Memory
    BY <1>2 DEF WriteImage
  <2>2. Among(Greet) /\ Elected
    BY <1>2, WhereTheyAre DEF WriteImage
  <2>3. ASSUME NEW e \in Ends
        PROVE  /\ holders[e] # {} =>
                     \E l \in holders[e] : \A q \in holders[e] : q = l <=> <<q, e>> \in locked
               /\ \A q \in holders[e] : savedOwner[q][e] \in wanted[e]
    <3>1. \A q \in holders[e] : q \in Procs /\ pc[q] \in Greet
      BY <2>2 DEF TypeOK, AppType, Among
    <3>2. holders[e] # {} => \E l \in holders[e] : Leads(l, e)
      BY <2>2 DEF Elected, Open
    <3>3. \A q \in holders[e] : savedOwner[q][e] \in wanted[e]
      BY <3>1 DEF OwnersKept, Greet
    <3> QED BY <3>1, <3>2, <3>3 DEF Leads, Greet
  <2> QED BY <2>1, <2>3 DEF ImageKeeps, Memory
<1>3. Request \/ Restart => image' = image
  BY DEF Request, Restart
<1> QED BY <1>1, <1>2, <1>3, WhoChanges DEF Next

------------------------------------------------------------------------------
(* No step opens an end.                                                    *)
LEMMA OpenShrinks ==
    ASSUME TypeOK, NEW p \in Procs, Application(p) \/ CkptThread(p)
    PROVE  Open' \subseteq Open
<1> AppType
  BY DEF TypeOK
<1>1. ASSUME NEW e \in Ends, Close(p, e) PROVE Open' \subseteq Open
  BY <1>1 DEF Close, AppType, Open
<1>2. CASE ThreadsSuspend(p)
  BY <1>2 DEF ThreadsSuspend, Open
<1>3. CASE holders' = holders
  BY <1>3 DEF Open
<1> QED BY <1>1, <1>2, <1>3, WhoChanges

(* Who is left behind stays so until it stops for a checkpoint.             *)
LEMMA LeftStays ==
    ASSUME TypeOK, Phases, NEW p \in Procs, Application(p) \/ CkptThread(p),
           NEW q \in Procs, NEW e \in Ends, Left(q, e), q \in holders[e],
           q = p => ~ThreadsSuspend(p)
    PROVE  Left(q, e)'
<1> pc \in [Procs -> Stages] /\ KernelType /\ ConType
  BY DEF TypeOK
<1>1. LeftBehind(e)'
  <2>1. ~isRestart /\ type[e] = "ERROR" /\ Peer[e] \notin Open
    BY DEF Left, LeftBehind
  <2>2. type'[e] = "ERROR"
    <3>1. ASSUME NEW f \in Ends, OnDisconnect(p, f) PROVE type'[e] = "ERROR"
      BY <2>1, <3>1 DEF OnDisconnect, ConType
    <3> QED BY <2>1, <3>1, OtherBuffers
  <2>3. Peer[e] \notin Open' /\ ~isRestart'
    BY <2>1, OpenShrinks, WhoChanges
  <2> QED BY <2>2, <2>3 DEF LeftBehind
<1>2. pc[q] = "electing" => ~Among(Electing) /\ Among(Drain) /\ todo[q] = {} /\ owner[e] # q
  BY DEF Left, Lead, Phases, Among, Electing, Drain, Greet, Back, Again, Refilling
<1>3. pc[q] # "electing" => <<q, e>> \notin locked
  BY DEF Left, Lead
<1>4. CASE q # p
  <2>1. pc'[q] = pc[q] /\ (<<q, e>> \in locked' <=> <<q, e>> \in locked)
    BY <1>4, OtherLoops, OtherHolds
  <2>2. ASSUME pc[q] = "electing" PROVE owner'[e] # q /\ ~Among(Electing)'
    <3>1. pc[p] \in Drain
      BY <1>2, <2>2 DEF Among
    <3>2. \A f \in Ends : ~SetOwn(p, f)
      BY <3>1 DEF SetOwn, Running, Drain
    <3>3. ~RestoreOptions(p)
      BY <3>1 DEF RestoreOptions, Drain
    <3>4. \A f \in Ends : ~DoLocking(p, f)
      BY <1>2, <2>2 DEF DoLocking, Phases, Among, Electing, Drain, Greet, Back, Again, Refilling
    <3>5. ASSUME NEW f \in Ends, OnDisconnect(p, f) PROVE owner'[e] # q
      BY <1>2, <2>2, <3>5, SocketsAssumption DEF OnDisconnect, KernelType
    <3>6. owner'[e] # q
      BY <1>2, <2>2, <3>2, <3>3, <3>4, <3>5, WhoChanges
    <3>7. PICK r \in Procs : pc[r] \notin Electing
      BY <1>2, <2>2 DEF Among
    <3>8. pc[r] = "draining"
      BY <1>2, <2>2, <3>7 DEF Among, Drain, Electing
    <3>9. pc'[r] \notin Electing
      <4>1. CASE r # p
        BY <3>7, <4>1, OtherLoops
      <4>2. CASE r = p
        BY <3>8, <4>2, WhoMoves DEF Electing, ThreadsSuspend, RestoreOptions, FdsShared, Resume
      <4> QED BY <4>1, <4>2
    <3> QED BY <3>6, <3>9 DEF Among
  <2>3. pc[q] # "suspended"
    BY DEF Left
  <2> QED BY <1>1, <1>3, <2>1, <2>2, <2>3 DEF Left, Lead
<1>5. CASE q = p
  <2>1. pc'[p] # "suspended"
    BY <1>5, WhoMoves DEF Left, RestoreOptions, FdsShared, Resume, Loop, Goto
  <2>2. CASE pc[p] = "electing"
    <3>1. BeginDrain(p)
      BY <1>2, <1>5, <2>2, WhoMoves DEF DoLocking
    <3>2. PICK lead : lead = {f \in Held(p) : owner[f] = p}
      OBVIOUS
    <3>3. pc'[p] = "draining" /\ locked' = (locked \ ({p} \X Held(p))) \cup ({p} \X lead)
      BY <3>1, <3>2 DEF BeginDrain, Loop, Goto
    <3>4. <<p, e>> \notin locked'
      BY <1>2, <1>5, <2>2, <3>2, <3>3 DEF Held
    <3> QED BY <1>1, <1>5, <3>3, <3>4 DEF Left, Lead
  <2>3. CASE pc[p] # "electing"
    <3>1. pc'[p] # "electing"
      BY <1>5, <2>3, WhoMoves DEF Left, Electing
    <3>2. locked' \subseteq locked
      <4>1. ~BeginDrain(p) /\ \A f \in Ends : ~DoLocking(p, f)
        BY <2>3 DEF BeginDrain, DoLocking
      <4>2. ASSUME NEW f \in Ends, Close(p, f) PROVE locked' \subseteq locked
        BY <4>2 DEF Close
      <4> QED BY <1>5, <4>1, <4>2, WhoChanges
    <3> QED BY <1>1, <1>3, <1>5, <2>1, <2>3, <3>1, <3>2 DEF Left, Lead
  <2> QED BY <2>2, <2>3
<1> QED BY <1>4, <1>5

(* A step of p leaves the descriptors of q in place, or leaves q behind.    *)
LEMMA WiredOther ==
    ASSUME TypeOK, Phases, Loops, Fresh, Wired, NEW p \in Procs, Application(p) \/ CkptThread(p),
           NEW q \in Procs, q # p, NEW e \in WiredOf(q)'
    PROVE  <<q, e>> \in wired' \/ Left(q, e)'
<1>1. pc'[q] = pc[q] /\ todo'[q] = todo[q] /\ isRestart' = isRestart
  BY OtherLoops, OtherHolds
<1>2. Held(q)' = Held(q) /\ Led(q)' = Led(q)
  BY OtherHolds DEF Held, Led
<1>3. pc[q] \in {"restored", "registered"} => Live(q)' = Live(q)
  <2> SUFFICES ASSUME pc[q] \in {"restored", "registered"} PROVE Live(q)' = Live(q)
    OBVIOUS
  <2>1. pc[p] # "draining"
    BY WhereTheyAre DEF Among, Again, Refilling
  <2>2. type' = type
    BY <2>1, OtherBuffers DEF OnDisconnect
  <2> QED BY <1>2, <2>2 DEF Live
<1>4. WiredOf(q)' = WiredOf(q)
  BY <1>1, <1>2, <1>3 DEF WiredOf
<1>5. e \in Held(q) /\ e \in Ends /\ q \in holders[e]
  BY <1>4 DEF WiredOf, Led, Held
<1>6. CASE Left(q, e)
  BY <1>5, <1>6, LeftStays
<1>7. CASE OnDisconnect(p, e)
  <2>1. /\ pc[p] = "draining" /\ e \in Led(p) /\ Peer[e] \notin Open
        /\ UNCHANGED <<pc, holders, locked>>
        /\ type' = [type EXCEPT ![e] = "ERROR"] /\ owner' = [owner EXCEPT ![e] = None]
    BY <1>7 DEF OnDisconnect, Loops, LoopOf, appVars
  <2>2. Elected /\ (Among(Drain) \/ Among(Greet))
    BY <2>1, WhereTheyAre
  <2>3. ~isRestart'
    BY <1>1, <2>1 DEF Fresh, Among, Again, Refilling
  <2>4. LeftBehind(e)'
    BY <1>5, <2>1, <2>3 DEF LeftBehind, Open, TypeOK, ConType
  <2>5. owner'[e] # q
    BY <1>5, <2>1, SocketsAssumption DEF TypeOK, KernelType
  <2>6. pc[q] # "electing" => <<q, e>> \notin locked'
    BY <1>5, <2>1, <2>2, OneLed DEF Led, Held
  <2>7. pc'[q] # "suspended" /\ ~Among(Electing)'
    BY <2>1, <2>2 DEF Among, Drain, Greet, Electing
  <2> QED BY <2>1, <2>4, <2>5, <2>6, <2>7 DEF Left, Lead
<1>8. <<q, e>> \in wired \/ Left(q, e)
  BY <1>4 DEF Wired
<1> QED BY <1>5, <1>6, <1>7, <1>8, OtherHolds

(* A process runs only with all its descriptors in place: what a restart    *)
(* has taken away is given back before the barrier.                         *)
LEMMA WiredOwn ==
    ASSUME TypeOK, Phases, Loops, Wired, NEW p \in Procs, Application(p) \/ CkptThread(p)
    PROVE  \A e \in WiredOf(p)' : <<p, e>> \in wired' \/ Left(p, e)'
<1> pc \in [Procs -> Stages] /\ LoopType /\ AppType /\ ConType
  BY DEF TypeOK
<1> DEFINE Has(e) == <<p, e>> \in wired \/ Left(p, e)
           Had(e) == <<p, e>> \in wired' \/ Left(p, e)'
           Goal == \A e \in WiredOf(p)' : Had(e)
           All == {"run", "told", "suspended", "electing", "draining", "greeting", "greeted",
                   "checkpointed", "refilled"}
<1> USE DEF Goto, Loop, appVars, conVars, kernelVars, loopVars, runVars
<1>0. Led(p) \subseteq Held(p) /\ Held(p) \subseteq Ends
  BY DEF Led, Held
<1> \A e \in WiredOf(p) : Has(e)
  BY DEF Wired
<1>1. pc[p] \in All => \A e \in Held(p) : Has(e)
  BY DEF WiredOf
<1>18. ~ThreadsSuspend(p) => \A e \in Held(p) : Left(p, e) => Left(p, e)'
  BY LeftStays DEF Held
<1>19. ~ThreadsSuspend(p) /\ wired \subseteq wired' => \A e \in Held(p) : Has(e) => Had(e)
  BY <1>18
<1>20. pc[p] # "told" => ~ThreadsSuspend(p)
  BY DEF ThreadsSuspend
<1>2. ASSUME pc[p] \in All, pc'[p] \in All, Held(p)' = Held(p), wired' = wired, ~ThreadsSuspend(p)
      PROVE  Goal
  <2>1. WiredOf(p)' = Held(p)
    BY <1>2 DEF WiredOf
  <2>2. \A e \in Held(p) : Has(e) /\ (Has(e) => Had(e))
    BY <1>1, <1>2, <1>19
  <2> QED BY <2>1, <2>2
<1>3. ASSUME NEW e \in Ends, Send(p, e) \/ Recv(p, e) \/ SetOwn(p, e) PROVE Goal
  <2>1. /\ pc[p] \in All /\ pc'[p] \in All /\ Held(p)' = Held(p) /\ wired' = wired
        /\ ~ThreadsSuspend(p)
    BY <1>3 DEF Send, Recv, SetOwn, Running, Held, ThreadsSuspend
  <2> QED BY <1>2, <2>1
<1>4. ASSUME NEW e \in Ends, Close(p, e) PROVE Goal
  <2>1. pc'[p] \in All /\ pc[p] \in All /\ wired' = wired \ {<<p, e>>}
    BY <1>4 DEF Close, Running
  <2>2. Held(p)' = Held(p) \ {e}
    BY <1>4 DEF Close, Held, AppType
  <2>3. WiredOf(p)' = Held(p)'
    BY <2>1 DEF WiredOf
  <2>4. ~ThreadsSuspend(p)
    BY <1>4 DEF Close, ThreadsSuspend
  <2>5. ASSUME NEW f \in Held(p), f # e PROVE Had(f)
    BY <1>1, <1>18, <2>1, <2>4, <2>5
  <2> QED BY <2>2, <2>3, <2>5
<1>21. CASE ThreadsSuspend(p)
  <2>1. pc'[p] = "suspended" /\ wired' = wired
    BY <1>21 DEF ThreadsSuspend
  <2>2. WiredOf(p)' = Held(p)'
    BY <2>1 DEF WiredOf
  <2>3. \A e \in Held(p)' : <<p, e>> \in wired
    BY <1>21 DEF ThreadsSuspend, Held
  <2> QED BY <2>1, <2>2, <2>3
<1>5. CASE LeaderElection(p) \/ BeginDrain(p) \/ PreCkpt(p) \/ WriteImage(p) \/ Resume(p)
  <2>1. /\ pc[p] \in All /\ pc'[p] \in All /\ Held(p)' = Held(p) /\ wired' = wired
        /\ pc[p] # "told"
    BY <1>5 DEF LeaderElection, BeginDrain, PreCkpt, WriteImage, Resume, Held
  <2> QED BY <1>2, <1>20, <2>1
<1>6. ASSUME NEW e \in Ends, \/ DoLocking(p, e) \/ DrainWrite(p, e) \/ DrainRead(p, e)
                             \/ DrainComplete(p, e)
      PROVE Goal
  <2>1. /\ pc[p] \in All /\ pc'[p] \in All /\ Held(p)' = Held(p) /\ wired' = wired
        /\ pc[p] # "told"
    BY <1>6 DEF DoLocking, DrainWrite, DrainRead, DrainComplete, Held
  <2> QED BY <1>2, <1>20, <2>1
<1>22. ASSUME NEW e \in Ends, OnDisconnect(p, e) PROVE Goal
  <2>1. /\ pc[p] \in All /\ pc'[p] \in All /\ Held(p)' = Held(p) /\ pc[p] # "told"
        /\ wired' = wired \ ((holders[e] \ {p}) \X {e})
    BY <1>22 DEF OnDisconnect, Held
  <2>2. WiredOf(p)' = Held(p)
    BY <2>1 DEF WiredOf
  <2>3. \A f \in Held(p) : Has(f) => Had(f)
    BY <1>18, <1>20, <2>1
  <2> QED BY <1>1, <2>1, <2>2, <2>3
<1>7. ASSUME NEW e \in Ends, SendHandshake(p, e) \/ RecvHandshake(p, e) PROVE Goal
  <2>1. /\ pc[p] \in All /\ pc'[p] \in All /\ Held(p)' = Held(p) /\ wired' = wired
        /\ pc[p] # "told"
    BY <1>7 DEF SendHandshake, RecvHandshake, DoneThen, Done, Held
  <2> QED BY <1>2, <1>20, <2>1
<1>8. CASE PostRestart(p)
  <2>1. PICK dead : dead = {e \in Led(p) : type[e] = "ERROR"}
    OBVIOUS
  <2>2. pc'[p] = "restored" /\ wired' = wired \cup ({p} \X dead)
    BY <1>8, <2>1 DEF PostRestart
  <2>3. Led(p)' = Led(p) /\ Live(p)' = Live(p)
    BY <1>8 DEF PostRestart, Live, Led, Held
  <2>4. WiredOf(p)' = Led(p) \ Live(p)
    BY <2>2, <2>3 DEF WiredOf
  <2>5. Led(p) \ Live(p) = dead
    BY <2>1 DEF Live
  <2> QED BY <2>2, <2>4, <2>5
<1>23. ASSUME WiredOf(p)' \subseteq WiredOf(p), wired \subseteq wired', pc[p] # "told" PROVE Goal
  <2>1. WiredOf(p) \subseteq Held(p)
    BY <1>0 DEF WiredOf
  <2> QED BY <1>19, <1>20, <1>23, <2>1
<1>9. CASE RegisterNSData(p) \/ SendQueries(p)
  <2>1. Led(p)' = Led(p) /\ Live(p)' = Live(p) /\ wired' = wired
    BY <1>9 DEF RegisterNSData, SendQueries, Live, Led, Held
  <2>2. /\ pc[p] \in {"restored", "registered"}
        /\ \/ pc'[p] = "registered"
           \/ pc'[p] = "connecting" /\ todo'[p] = Live(p)
    BY <1>9 DEF RegisterNSData, SendQueries, LoopType
  <2>3. WiredOf(p) = Led(p) \ Live(p) /\ WiredOf(p)' = Led(p) \ Live(p)
    BY <2>1, <2>2 DEF WiredOf
  <2> QED BY <1>23, <2>1, <2>2, <2>3
<1>10. ASSUME NEW e \in Ends, Connect(p, e) \/ Accept(p, e) PROVE Goal
  <2>1. /\ pc[p] = "connecting" /\ UNCHANGED <<pc, holders, locked>>
        /\ wired' = wired \cup {<<p, e>>} /\ Done(p, e)
    BY <1>10 DEF Connect, Accept
  <2>2. todo'[p] = todo[p] \ {e} /\ Led(p)' = Led(p) /\ pc'[p] = "connecting"
    BY <2>1 DEF Done, LoopType, Led, Held
  <2>3. WiredOf(p) = Led(p) \ todo[p] /\ WiredOf(p)' = Led(p) \ (todo[p] \ {e})
    BY <2>1, <2>2 DEF WiredOf
  <2>4. ASSUME NEW f \in Led(p) \ todo[p] PROVE Had(f)
    BY <1>0, <1>19, <1>20, <2>1, <2>3, <2>4
  <2> QED BY <2>1, <2>3, <2>4
<1>11. CASE BeginRefill(p)
  <2>1. /\ pc'[p] \in {"writing", "echoing"} /\ Led(p)' = Led(p) /\ Held(p)' = Held(p)
        /\ wired' = wired /\ isRestart' = isRestart
    BY <1>11 DEF BeginRefill, Led, Held
  <2>2. WiredOf(p)' = IF isRestart THEN Led(p) ELSE Held(p)
    BY <2>1 DEF WiredOf
  <2>3. \/ ~isRestart /\ pc[p] = "checkpointed"
        \/ isRestart /\ pc[p] = "connecting" /\ todo[p] = {}
    BY <1>11 DEF BeginRefill, Barrier, Finished, Refilling
  <2>4. CASE ~isRestart /\ pc[p] = "checkpointed"
    <3>1. WiredOf(p) = Held(p)
      BY <2>4 DEF WiredOf
    <3> QED BY <1>23, <2>1, <2>2, <2>4, <3>1
  <2>5. CASE isRestart /\ pc[p] = "connecting" /\ todo[p] = {}
    <3>1. WiredOf(p) = Led(p)
      BY <2>5 DEF WiredOf
    <3> QED BY <1>23, <2>1, <2>2, <2>5, <3>1
  <2> QED BY <2>3, <2>4, <2>5
<1>12. ASSUME pc[p] \in {"writing", "echoing", "sharing"}, pc'[p] \in {"writing", "echoing", "sharing"},
              Led(p)' = Led(p), Held(p)' = Held(p), isRestart' = isRestart, wired \subseteq wired'
       PROVE  Goal
  <2>1. WiredOf(p)' = WiredOf(p)
    BY <1>12 DEF WiredOf
  <2> QED BY <1>12, <1>23, <2>1
<1>13. CASE RefillData(p) \/ EchoRead(p) \/ EchoWrite(p)
  <2>1. /\ pc[p] \in {"writing", "echoing", "sharing"} /\ pc'[p] \in {"writing", "echoing", "sharing"}
        /\ Led(p)' = Led(p) /\ Held(p)' = Held(p) /\ isRestart' = isRestart /\ wired \subseteq wired'
    BY <1>13 DEF RefillData, EchoRead, EchoWrite, Written, DoneThen, Led, Held
  <2> QED BY <1>12, <2>1
<1>14. ASSUME NEW e \in Ends, RefillHeader(p, e) \/ EchoHeader(p, e) PROVE Goal
  <2>1. /\ pc[p] \in {"writing", "echoing", "sharing"} /\ pc'[p] \in {"writing", "echoing", "sharing"}
        /\ Led(p)' = Led(p) /\ Held(p)' = Held(p) /\ isRestart' = isRestart /\ wired \subseteq wired'
    BY <1>14 DEF RefillHeader, EchoHeader, Written, DoneThen, Led, Held
  <2> QED BY <1>12, <2>1
<1>15. ASSUME NEW e \in Ends, NEW r \in Procs, ReceiveFd(p, e) \/ SendFd(p, r, e) PROVE Goal
  <2>1. /\ pc[p] \in {"writing", "echoing", "sharing"} /\ pc'[p] \in {"writing", "echoing", "sharing"}
        /\ Led(p)' = Led(p) /\ Held(p)' = Held(p) /\ isRestart' = isRestart /\ wired \subseteq wired'
    BY <1>15 DEF ReceiveFd, SendFd, Led, Held
  <2> QED BY <1>12, <2>1
<1>16. CASE RestoreOptions(p)
  <2>1. /\ pc[p] = "echoing" /\ pc'[p] = IF isRestart THEN "sharing" ELSE "refilled"
        /\ Led(p)' = Led(p) /\ Held(p)' = Held(p) /\ isRestart' = isRestart /\ wired' = wired
    BY <1>16 DEF RestoreOptions, Led, Held
  <2>2. WiredOf(p)' = IF isRestart THEN Led(p) ELSE Held(p)
    BY <2>1 DEF WiredOf
  <2>3. WiredOf(p) = IF isRestart THEN Led(p) ELSE Held(p)
    BY <2>1 DEF WiredOf
  <2> QED BY <1>23, <2>1, <2>2, <2>3
<1>17. CASE FdsShared(p)
  <2>1. /\ pc[p] = "sharing" /\ pc'[p] = "refilled" /\ Held(p)' = Held(p) /\ wired' = wired
        /\ \A e \in Held(p) \ Led(p) : <<p, e>> \in wired
    BY <1>17 DEF FdsShared, Held
  <2>2. WiredOf(p)' = Held(p) /\ Led(p) \subseteq WiredOf(p)
    BY <1>0, <2>1 DEF WiredOf
  <2>3. ASSUME NEW f \in Led(p) PROVE Had(f)
    BY <1>0, <1>19, <1>20, <2>1, <2>2, <2>3
  <2> QED BY <2>1, <2>2, <2>3
<1> HIDE DEF Goal
<1> QED BY <1>3, <1>4, <1>5, <1>6, <1>7, <1>8, <1>9, <1>10, <1>11, <1>13, <1>14, <1>15, <1>16, <1>17, <1>21, <1>22
        DEF Application, CkptThread, Goal

(* Every step keeps the descriptors that must be in place.                  *)
LEMMA WiredStep == TypeOK /\ Phases /\ Loops /\ Fresh /\ Wired /\ Next => Wired'
<1> SUFFICES ASSUME TypeOK, Phases, Loops, Fresh, Wired, Next, NEW q \in Procs, NEW e \in WiredOf(q)'
             PROVE  <<q, e>> \in wired' \/ Left(q, e)'
  BY DEF Wired
<1>1. CASE Request
  <2>1. /\ pc[q] = "run" /\ pc'[q] = "told" /\ Held(q)' = Held(q)
        /\ UNCHANGED <<wired, type, holders, locked>> /\ ~isRestart'
    BY <1>1 DEF Request, Held, kernelVars, conVars
  <2>2. WiredOf(q)' = Held(q) /\ WiredOf(q) = Held(q)
    BY <2>1 DEF WiredOf
  <2>3. Left(q, e) => Left(q, e)'
    BY <2>1 DEF Left, LeftBehind, Lead, Open
  <2> QED BY <2>1, <2>2, <2>3 DEF Wired
<1>2. CASE Restart
  <2>1. pc'[q] = "restarting"
    BY <1>2 DEF Restart
  <2>2. WiredOf(q)' = {}
    BY <2>1 DEF WiredOf
  <2> QED BY <2>2
<1>3. ASSUME NEW p \in Procs, Application(p) \/ CkptThread(p), q # p
      PROVE  <<q, e>> \in wired' \/ Left(q, e)'
  BY <1>3, WiredOther
<1>4. CASE Application(q) \/ CkptThread(q)
  BY <1>4, WiredOwn
<1> QED BY <1>1, <1>2, <1>3, <1>4 DEF Next

(* What a process does in its two loops over the drained ends.              *)
LEMMA WhoRefills ==
    ASSUME NEW p \in Procs, Application(p) \/ CkptThread(p)
    PROVE  /\ pc[p] = "writing" => RefillData(p) \/ \E e \in Ends : RefillHeader(p, e)
           /\ pc[p] = "echoing" => \/ EchoRead(p) \/ EchoWrite(p) \/ RestoreOptions(p)
                                   \/ \E e \in Ends : EchoHeader(p, e)
<1> DEFINE Goal == /\ pc[p] = "writing" => RefillData(p) \/ \E e \in Ends : RefillHeader(p, e)
                   /\ pc[p] = "echoing" => \/ EchoRead(p) \/ EchoWrite(p) \/ RestoreOptions(p)
                                           \/ \E e \in Ends : EchoHeader(p, e)
<1>1. ASSUME NEW e \in Ends, Send(p, e) \/ Recv(p, e) \/ SetOwn(p, e) \/ Close(p, e) PROVE Goal
  BY <1>1 DEF Send, Recv, SetOwn, Close, Running
<1>2. CASE ThreadsSuspend(p) \/ LeaderElection(p) \/ BeginDrain(p) \/ PreCkpt(p) \/ WriteImage(p)
  BY <1>2 DEF ThreadsSuspend, LeaderElection, BeginDrain, PreCkpt, WriteImage
<1>3. CASE PostRestart(p) \/ RegisterNSData(p) \/ SendQueries(p) \/ BeginRefill(p)
  BY <1>3 DEF PostRestart, RegisterNSData, SendQueries, BeginRefill
<1>4. CASE RefillData(p) \/ \E e \in Ends : RefillHeader(p, e)
  BY <1>4 DEF RefillData, RefillHeader
<1>5. CASE EchoRead(p) \/ EchoWrite(p) \/ RestoreOptions(p) \/ \E e \in Ends : EchoHeader(p, e)
  BY <1>5 DEF EchoRead, EchoWrite, RestoreOptions, EchoHeader
<1>6. CASE FdsShared(p) \/ Resume(p)
  BY <1>6 DEF FdsShared, Resume
<1>7. ASSUME NEW e \in Ends, \/ DoLocking(p, e) \/ DrainWrite(p, e) \/ DrainRead(p, e)
                             \/ DrainComplete(p, e) \/ OnDisconnect(p, e)
      PROVE  Goal
  BY <1>7 DEF DoLocking, DrainWrite, DrainRead, DrainComplete, OnDisconnect
<1>8. ASSUME NEW e \in Ends, SendHandshake(p, e) \/ RecvHandshake(p, e) \/ Connect(p, e) \/ Accept(p, e)
      PROVE  Goal
  BY <1>8 DEF SendHandshake, RecvHandshake, Connect, Accept
<1>9. ASSUME NEW e \in Ends, NEW r \in Procs, ReceiveFd(p, e) \/ SendFd(p, r, e) PROVE Goal
  BY <1>9 DEF ReceiveFd, SendFd
<1> HIDE DEF Goal
<1> QED BY <1>1, <1>2, <1>3, <1>4, <1>5, <1>6, <1>7, <1>8, <1>9 DEF Application, CkptThread, Goal

(* A send buffer that is doubled is one its leader still has to echo to.    *)
LEMMA DoubledStep == TypeOK /\ Phases /\ Loops /\ Doubled /\ Next => Doubled'
<1> DEFINE AtIt(p, e) == \/ pc[p] = "writing" /\ e \in Live(p)
                         \/ pc[p] = "echoing" /\ e \in todo[p]
<1> SUFFICES ASSUME TypeOK, Phases, Loops, Doubled, Next, NEW e \in doubled'
             PROVE  \E r \in Procs : AtIt(r, e)'
  BY DEF Doubled
<1> LoopType /\ pc \in [Procs -> Stages] /\ KernelType
  BY DEF TypeOK
<1>1. CASE Request
  <2>1. e \in doubled /\ \A r \in Procs : pc[r] = "run"
    BY <1>1 DEF Request, kernelVars
  <2> QED BY <2>1 DEF Doubled
<1>2. CASE Restart
  BY <1>2 DEF Restart
<1>3. ASSUME NEW p \in Procs, Application(p) \/ CkptThread(p), NEW r \in Procs, r # p, AtIt(r, e)
      PROVE  AtIt(r, e)'
  <2>1. pc'[r] = pc[r] /\ todo'[r] = todo[r]
    BY <1>3, OtherLoops
  <2>2. Led(r)' = Led(r)
    BY <1>3, OtherHolds DEF Held, Led
  <2>3. pc[p] # "draining"
    BY <1>3, WhereTheyAre DEF Among, Back, Again, Refilling
  <2>4. type' = type
    BY <1>3, <2>3, OtherBuffers DEF OnDisconnect
  <2>5. Live(r)' = Live(r)
    BY <2>2, <2>4 DEF Live
  <2> QED BY <1>3, <2>1, <2>5
<1>4. ASSUME NEW p \in Procs, RefillData(p), AtIt(p, e) PROVE AtIt(p, e)'
  <2>1. Live(p)' = Live(p) /\ pc[p] = "writing" /\ Written(p, cur[p], Tail(drained[cur[p]]))
    BY <1>4 DEF RefillData, Live, Led, Held, conVars, appVars
  <2>2. \/ pc'[p] = "writing"
        \/ pc'[p] = "echoing" /\ todo'[p] = Live(p)
    BY <2>1 DEF Written, DoneThen, Loop, Goto, Done, LoopType
  <2> QED BY <1>4, <2>1, <2>2
<1>5. ASSUME NEW p \in Procs, NEW f \in Ends, RefillHeader(p, f), AtIt(p, e) \/ e = f PROVE AtIt(p, e)'
  <2>1. Live(p)' = Live(p) /\ pc[p] = "writing" /\ Written(p, f, drained[f]) /\ f \in todo[p]
    BY <1>5 DEF RefillHeader, IsNext, Live, Led, Held, conVars, appVars
  <2>2. \/ pc'[p] = "writing"
        \/ pc'[p] = "echoing" /\ todo'[p] = Live(p)
    BY <2>1 DEF Written, DoneThen, Loop, Goto, Done, LoopType
  <2>3. e \in Live(p)
    BY <1>5, <2>1 DEF Loops, LoopOf
  <2> QED BY <2>1, <2>2, <2>3
<1>6. ASSUME NEW p \in Procs, AtIt(p, e), pc[p] = "echoing",
             EchoRead(p) \/ EchoWrite(p) \/ RestoreOptions(p) \/ \E f \in Ends : EchoHeader(p, f)
      PROVE  AtIt(p, e)'
  <2>1. ~RestoreOptions(p)
    BY <1>6 DEF RestoreOptions
  <2>2. pc' = pc
    BY <1>6, <2>1 DEF EchoRead, EchoWrite, EchoHeader
  <2>3. CASE EchoRead(p)
    BY <1>6, <2>2, <2>3 DEF EchoRead
  <2>4. ASSUME NEW f, NEW n, NEW s, Echoed(p, f, n, s) PROVE e \in todo'[p]
    <3>1. e \in todo[p]
      BY <1>6
    <3>2. CASE n = 0 /\ s = <<>>
      <4>1. doubled' = doubled \ {f} /\ todo' = [todo EXCEPT ![p] = @ \ {f}]
        BY <2>4, <3>2 DEF Echoed, Done
      <4> QED BY <3>1, <4>1 DEF LoopType
    <3>3. CASE ~(n = 0 /\ s = <<>>)
      BY <2>4, <3>1, <3>3 DEF Echoed
    <3> QED BY <3>2, <3>3
  <2>5. CASE EchoWrite(p)
    BY <1>6, <2>2, <2>4, <2>5 DEF EchoWrite
  <2>6. ASSUME NEW f \in Ends, EchoHeader(p, f) PROVE e \in todo'[p]
    BY <2>4, <2>6 DEF EchoHeader
  <2> QED BY <1>6, <2>1, <2>2, <2>3, <2>5, <2>6
<1>7. ASSUME NEW p \in Procs, Application(p) \/ CkptThread(p) PROVE \E r \in Procs : AtIt(r, e)'
  <2>1. CASE e \notin doubled
    <3>1. PICK f \in Ends : RefillHeader(p, f)
      BY <1>7, <2>1, WhoChanges
    <3>2. e = f
      BY <2>1, <3>1 DEF RefillHeader
    <3> QED BY <1>5, <3>1, <3>2
  <2>2. CASE e \in doubled
    <3>1. PICK r \in Procs : AtIt(r, e)
      BY <2>2 DEF Doubled
    <3>2. CASE r # p
      BY <1>3, <1>7, <3>1, <3>2
    <3>3. CASE r = p
      <4>1. pc[p] = "writing" \/ pc[p] = "echoing"
        BY <3>1, <3>3
      <4> HIDE DEF AtIt
      <4> QED BY <1>4, <1>5, <1>6, <1>7, <3>1, <3>3, <4>1, WhoRefills
    <3> QED BY <3>2, <3>3
  <2> QED BY <2>1, <2>2
<1> QED BY <1>1, <1>2, <1>7 DEF Next

------------------------------------------------------------------------------
(* The owners: what a process that stops has saved is what the application  *)
(* wanted, ...                                                              *)
LEMMA OwnerSaved ==
    ASSUME TypeOK, TypeOK', Phases, Fresh, OwnersKept, NEW p \in Procs, Application(p) \/ CkptThread(p),
           NEW e \in Ends, NEW q \in holders'[e], pc'[q] \notin {"run", "told", "refilled", "sharing"}
    PROVE  savedOwner'[q][e] \in wanted'[e]
<1> AppType /\ ConType /\ pc \in [Procs -> Stages]
  BY DEF TypeOK
<1>1. q \in Procs
  BY DEF TypeOK, AppType
<1>2. CASE q # p
  <2>1. pc'[q] = pc[q] /\ q \in holders[e] /\ savedOwner'[q] = savedOwner[q]
    BY <1>1, <1>2, OtherLoops, OtherHolds
  <2>2. savedOwner[q][e] \in wanted[e]
    BY <2>1 DEF OwnersKept
  <2>3. ASSUME NEW f \in Ends, SetOwn(p, f) PROVE wanted[e] \subseteq wanted'[e]
    <3>1. ~Running(q)
      BY <2>1 DEF Running
    <3> QED BY <2>1, <2>3, <3>1 DEF SetOwn, AppType
  <2> QED BY <2>1, <2>2, <2>3, WhoChanges
<1>3. CASE q = p /\ ThreadsSuspend(p)
  <2>1. pc[p] = "told" /\ p \in holders[e] /\ <<p, e>> \in wired /\ wanted' = wanted
    BY <1>3 DEF ThreadsSuspend
  <2>2. savedOwner'[p][e] = owner[e]
    BY <1>3, <2>1 DEF ThreadsSuspend, ConType
  <2>3. Among({"told", "suspended"}) /\ e \in Open
    BY <2>1, WhereTheyAre DEF Open
  <2>4. ~Forgotten(e)
    BY <2>1 DEF Forgotten, Fresh, Among, Again, Refilling
  <2>5. owner[e] \in wanted[e]
    BY <2>3, <2>4 DEF OwnersKept, OwnerHeld, Among
  <2> QED BY <1>3, <2>1, <2>2, <2>5
<1>4. CASE q = p /\ pc[p] \notin {"run", "told", "refilled", "sharing"}
  <2>1. /\ ~ThreadsSuspend(p)
        /\ \A f \in Ends : ~SetOwn(p, f) /\ ~Close(p, f)
    BY <1>4 DEF ThreadsSuspend, SetOwn, Close, Running
  <2>2. UNCHANGED <<savedOwner, wanted, holders>>
    BY <2>1, WhoChanges
  <2> QED BY <1>4, <2>2 DEF OwnersKept
<1>5. CASE q = p /\ (RestoreOptions(p) \/ FdsShared(p) \/ Resume(p))
  BY <1>5 DEF RestoreOptions, FdsShared, Resume, Loop, Goto
<1> QED BY <1>2, <1>3, <1>4, <1>5, WhoMoves

(* ... the leader gives it back, ...                                        *)
LEMMA OwnerGiven ==
    ASSUME TypeOK, TypeOK', Phases, Fresh, Recalled, OwnersKept, NEW p \in Procs, Application(p) \/ CkptThread(p),
           NEW e \in Ends, NEW q \in holders'[e],
           pc'[q] \in {"refilled", "sharing"}, <<q, e>> \in locked'
    PROVE  OwnerHeld(e)'
<1> AppType /\ KernelType /\ pc \in [Procs -> Stages]
  BY DEF TypeOK
<1>1. q \in Procs
  BY DEF TypeOK, AppType
<1>2. ASSUME NEW f \in Ends, SetOwn(p, f), OwnerHeld(e) PROVE OwnerHeld(e)'
  BY <1>2 DEF SetOwn, AppType, KernelType, OwnerHeld, Forgotten, PidTable, runVars
<1>3. CASE q # p
  <2>1. pc'[q] = pc[q] /\ q \in holders[e] /\ <<q, e>> \in locked
    BY <1>1, <1>3, OtherLoops, OtherHolds
  <2>2. OwnerHeld(e)
    BY <2>1 DEF OwnersKept, OwnerHeld
  <2>3. pc[p] \notin {"electing", "draining"}
    BY <1>1, <2>1 DEF Phases, Among, Electing, Drain, Greet, Back, Again, Refilling
  <2>4. \A f \in Ends : ~DoLocking(p, f) /\ ~OnDisconnect(p, f)
    BY <2>3 DEF DoLocking, OnDisconnect
  <2>5. CASE RestoreOptions(p)
    <3>1. pc[p] = "echoing" /\ wanted' = wanted
      BY <2>5 DEF RestoreOptions, appVars
    <3>2. e \notin Led(p)
      BY <1>1, <1>3, <2>1, <3>1, WhereTheyAre, OneLed DEF Led, Held
    <3>3. owner'[e] = owner[e] /\ UNCHANGED <<image, isRestart>>
      BY <2>5, <3>2 DEF RestoreOptions, runVars
    <3> QED BY <2>2, <3>1, <3>3 DEF OwnerHeld, Forgotten, PidTable
  <2>6. CASE UNCHANGED <<owner, wanted, image>>
    BY <2>2, <2>6, WhoChanges DEF OwnerHeld, Forgotten, PidTable
  <2>7. ~WriteImage(p)
    BY <1>1, <2>1 DEF WriteImage, Phases, Among, Electing, Drain, Greet, Back, Again, Refilling
  <2> QED BY <1>2, <2>2, <2>4, <2>5, <2>6, <2>7, WhoChanges
<1>4. CASE q = p /\ RestoreOptions(p)
  <2>1. /\ pc[p] = "echoing" /\ e \in Led(p) /\ p \in holders[e] /\ <<p, e>> \in locked
        /\ UNCHANGED <<wanted, image, isRestart>>
        /\ owner'[e] = IF savedOwner[p][e] \in PidTable(p) THEN savedOwner[p][e] ELSE None
    BY <1>4 DEF RestoreOptions, appVars, conVars, runVars, Led, Held
  <2>2. savedOwner[p][e] \in wanted[e] /\ savedOwner[p][e] \in Procs \cup {None}
    <3>1. savedOwner[p][e] \in wanted[e]
      BY <2>1 DEF OwnersKept
    <3>2. savedOwner[p][e] \in Owners
      BY DEF TypeOK, ConType
    <3> QED BY <3>1, <3>2 DEF Owners
  <2>3. CASE savedOwner[p][e] \in PidTable(p)
    BY <2>1, <2>2, <2>3 DEF OwnerHeld
  <2>4. CASE savedOwner[p][e] \notin PidTable(p) /\ ~isRestart
    BY <2>1, <2>2, <2>4 DEF OwnerHeld, PidTable
  <2>5. CASE savedOwner[p][e] \notin PidTable(p) /\ isRestart
    <3>1. Among(Again)
      BY <2>1, <2>5, WhereTheyAre
    <3>2. <<p, e>> \in image.locked /\ image.savedOwner[p][e] \notin PidTable(p)
      BY <2>1, <2>5, <3>1 DEF Recalled
    <3>3. owner'[e] = None /\ PidTable(p)' = PidTable(p)
      BY <2>1, <2>5 DEF PidTable
    <3>4. Forgotten(e)'
      BY <2>1, <2>5, <3>2, <3>3 DEF Forgotten
    <3> QED BY <3>4 DEF OwnerHeld
  <2> QED BY <2>3, <2>4, <2>5
<1>5. CASE q = p /\ pc[p] \in {"refilled", "sharing"}
  <2>1. /\ ~ThreadsSuspend(p) /\ ~BeginDrain(p) /\ ~RestoreOptions(p) /\ ~WriteImage(p)
        /\ \A f \in Ends : ~SetOwn(p, f) /\ ~Close(p, f) /\ ~DoLocking(p, f) /\ ~OnDisconnect(p, f)
    BY <1>5 DEF ThreadsSuspend, BeginDrain, RestoreOptions, WriteImage, SetOwn, Close, DoLocking,
                OnDisconnect, Running
  <2>2. UNCHANGED <<owner, wanted, holders, locked, image, isRestart>>
    BY <2>1, WhoChanges
  <2>3. OwnerHeld(e)
    BY <1>5, <2>2 DEF OwnersKept, OwnerHeld
  <2> QED BY <2>2, <2>3 DEF OwnerHeld, Forgotten, PidTable
<1>6. CASE q = p /\ (ThreadsSuspend(p) \/ Resume(p))
  BY <1>6 DEF ThreadsSuspend, Resume, Goto
<1>7. FdsShared(p) => pc[p] = "sharing"
  BY DEF FdsShared
<1> QED BY <1>3, <1>4, <1>5, <1>6, <1>7, WhoMoves

(* ... and it is there when the last process is ready to run.               *)
LEMMA OwnerBack ==
    ASSUME TypeOK, TypeOK', Phases, Fresh, Recalled, OwnersKept, NEW p \in Procs, Application(p) \/ CkptThread(p),
           NEW e \in Ends, holders'[e] # {}, Among({"run", "told", "suspended", "refilled"})'
    PROVE  OwnerHeld(e)'
<1> AppType /\ KernelType /\ pc \in [Procs -> Stages]
  BY DEF TypeOK
<1> DEFINE S == {"run", "told", "suspended", "refilled"}
<1>1. CASE Among(S)
  <2>1. holders[e] # {}
    <3>1. ASSUME NEW f \in Ends, Close(p, f) PROVE holders[e] # {}
      BY <3>1 DEF Close, AppType
    <3>2. ThreadsSuspend(p) => holders[e] # {}
      BY DEF ThreadsSuspend
    <3> QED BY <3>1, <3>2, WhoChanges
  <2>2. OwnerHeld(e)
    BY <1>1, <2>1 DEF OwnersKept, Open, OwnerHeld
  <2>3. ASSUME NEW f \in Ends, SetOwn(p, f) PROVE OwnerHeld(e)'
    BY <2>2, <2>3 DEF SetOwn, AppType, KernelType, OwnerHeld, Forgotten, PidTable, runVars
  <2>4. /\ ~RestoreOptions(p) /\ ~WriteImage(p)
        /\ \A f \in Ends : ~DoLocking(p, f) /\ ~OnDisconnect(p, f)
    BY <1>1 DEF Among, RestoreOptions, WriteImage, DoLocking, OnDisconnect
  <2>5. CASE UNCHANGED <<owner, wanted, image>>
    BY <2>2, <2>5, WhoChanges DEF OwnerHeld, Forgotten, PidTable
  <2> QED BY <2>3, <2>4, <2>5, WhoChanges
<1>2. CASE ~Among(S)
  <2>1. \A q \in Procs \ {p} : pc[q] \in S /\ pc'[q] \in S /\ pc'[q] = pc[q]
    BY OtherLoops DEF Among
  <2>2. pc[p] \notin S /\ pc'[p] \in S
    BY <1>2, <2>1 DEF Among
  <2>3. (RestoreOptions(p) \/ FdsShared(p)) /\ pc[p] \in {"echoing", "sharing"}
    BY <2>2, WhoMoves DEF ThreadsSuspend, Resume, RestoreOptions, FdsShared
  <2>4. Elected /\ (Among(Back) \/ Among(Again))
    BY <2>3, WhereTheyAre
  <2>5. pc'[p] = "refilled" /\ UNCHANGED <<holders, locked>>
    BY <2>2, <2>3 DEF RestoreOptions, FdsShared, Loop, Goto, appVars, conVars
  <2>6. PICK l \in holders[e] : Leads(l, e)
    BY <2>4, <2>5 DEF Elected, Open
  <2>7. l \in Procs
    BY DEF AppType
  <2>8. pc[l] # "electing" /\ pc'[l] = "refilled"
    BY <2>1, <2>3, <2>4, <2>5, <2>7 DEF Among, Back, Again, Refilling
  <2>9. <<l, e>> \in locked
    BY <2>6, <2>8 DEF Leads
  <2> QED BY <2>5, <2>6, <2>8, <2>9, OwnerGiven
<1> QED BY <1>1, <1>2

(* Every step keeps the owners.                                             *)
LEMMA OwnersStep ==
    TypeOK /\ TypeOK' /\ Phases /\ Fresh /\ Recalled /\ OwnersKept /\ ImageKeeps /\ Next => OwnersKept'
<1> SUFFICES ASSUME TypeOK, TypeOK', Phases, Fresh, Recalled, OwnersKept, ImageKeeps, Next PROVE OwnersKept'
  OBVIOUS
<1>1. ASSUME NEW p \in Procs, Application(p) \/ CkptThread(p) PROVE OwnersKept'
  BY <1>1, OwnerSaved, OwnerGiven, OwnerBack DEF OwnersKept, Open
<1>2. CASE Request
  <2>1. \A e \in Ends : \A q \in holders'[e] : pc'[q] = "told"
    BY <1>2 DEF Request, TypeOK, AppType
  <2>2. \A e \in Ends : OwnerHeld(e)'
    BY <1>2 DEF Request, kernelVars, OwnerHeld
  <2> QED BY <2>1, <2>2 DEF OwnersKept
<1>3. CASE Restart
  <2>1. \A e \in Ends : \A q \in holders'[e] : q \in Procs /\ pc'[q] = "restarting"
    BY <1>3 DEF Restart, TypeOK, AppType
  <2>2. \A e \in Ends : \A q \in holders'[e] : savedOwner'[q][e] \in wanted'[e]
    BY <1>3 DEF Restart, ImageKeeps
  <2>3. \A e \in Ends : e \in Open' => ~(Among({"run", "told", "suspended", "refilled"})')
    BY <2>1 DEF Open, Among
  <2> QED BY <2>1, <2>2, <2>3 DEF OwnersKept
<1> QED BY <1>1, <1>2, <1>3 DEF Next

------------------------------------------------------------------------------
(* Whoever is the last to be ready leaves the leaders as they were.         *)
LEMMA ReadyStep == TypeOK /\ TypeOK' /\ Phases /\ Ready /\ Next => Ready'
<1> SUFFICES ASSUME TypeOK, TypeOK', Phases, Ready, Next, Among({"refilled"})' PROVE Elected'
  BY DEF Ready
<1> pc \in [Procs -> Stages]
  BY DEF TypeOK
<1>1. CASE Request \/ Restart
  <2>1. \A q \in Procs : pc'[q] # "refilled"
    BY <1>1 DEF Request, Restart
  <2>2. \A q \in Procs : FALSE
    BY <2>1 DEF Among
  <2>3. Open' = {}
    BY <2>2 DEF TypeOK, AppType, Open
  <2> QED BY <2>3 DEF Elected
<1>2. ASSUME NEW p \in Procs, Application(p) \/ CkptThread(p) PROVE Elected'
  <2>1. \A q \in Procs \ {p} : pc[q] = "refilled"
    BY <1>2, OtherLoops DEF Among
  <2>2. pc'[p] = "refilled"
    BY DEF Among
  <2>3. CASE pc[p] = "refilled"
    <3>1. Among({"refilled"})
      BY <2>1, <2>3 DEF Among
    <3>2. ~ThreadsSuspend(p) /\ ~BeginDrain(p) /\ \A f \in Ends : ~Close(p, f) /\ ~DoLocking(p, f)
      BY <2>3 DEF ThreadsSuspend, BeginDrain, Close, DoLocking, Running
    <3>3. UNCHANGED <<holders, locked>>
      BY <1>2, <3>2, WhoChanges
    <3> QED BY <3>1, <3>3, ElectedFrame DEF Ready, Among
  <2>4. CASE pc[p] # "refilled"
    <3>1. RestoreOptions(p) \/ FdsShared(p)
      BY <1>2, <2>2, <2>4, WhoMoves DEF ThreadsSuspend, Resume, Goto
    <3>2. pc[p] \in {"echoing", "sharing"} /\ UNCHANGED <<holders, locked>>
      BY <3>1 DEF RestoreOptions, FdsShared, appVars, conVars
    <3>3. Elected
      BY <3>2, WhereTheyAre
    <3>4. \A q \in Procs : pc[q] # "electing" /\ pc'[q] # "electing"
      BY <2>1, <3>2 DEF Among
    <3> QED BY <3>2, <3>3, <3>4, ElectedFrame
  <2> QED BY <2>3, <2>4
<1> QED BY <1>1, <1>2 DEF Next

(* The initial states: everyone runs, with all descriptors in place.        *)
LEMMA InitIndInv == Init => IndInv
<1> SUFFICES ASSUME Init PROVE IndInv
  OBVIOUS
<1>1. TypeOK
  BY InitTypeOK
<1>2. \A p \in Procs : pc[p] = "run"
  BY DEF Init
<1>3. Phases
  BY <1>2 DEF Phases, Among
<1>4. Ready
  <2> SUFFICES ASSUME Among({"refilled"}) PROVE Elected
    BY DEF Ready
  <2>1. Open = {}
    BY <1>1, <1>2 DEF Among, Open, TypeOK, AppType
  <2> QED BY <2>1 DEF Elected
<1>5. Loops
  BY <1>2 DEF Init, Loops, LoopOf
<1>6. Wired
  <2>1. \A p \in Procs : WiredOf(p) = Held(p)
    BY <1>2 DEF WiredOf
  <2> QED BY <2>1 DEF Wired, Init, Held
<1>7. Doubled
  BY DEF Init, Doubled
<1>8. OwnersKept
  <2>1. \A e \in Ends : OwnerHeld(e)
    BY DEF Init, OwnerHeld
  <2>2. \A e \in Ends : \A q \in holders[e] : pc[q] = "run"
    BY <1>1, <1>2 DEF TypeOK, AppType
  <2> QED BY <2>1, <2>2 DEF OwnersKept
<1>9. ImageKeeps /\ Fresh /\ Recalled
  BY DEF Init, ImageKeeps, Fresh, Recalled
<1> QED BY <1>1, <1>3, <1>4, <1>5, <1>6, <1>7, <1>8, <1>9 DEF IndInv

(* A step that changes nothing.                                             *)
LEMMA StutterIndInv == IndInv /\ UNCHANGED vars => IndInv'
<1> SUFFICES ASSUME IndInv, UNCHANGED vars PROVE IndInv'
  OBVIOUS
<1> USE DEF vars, appVars, kernelVars, conVars, drainVars, loopVars, restartVars, runVars
<1>1. TypeOK'
  BY DEF IndInv, TypeOK, AppType, KernelType, ConType, DrainType, LoopType, RestartType, RunType
<1>2. Elected' <=> Elected
  BY DEF Elected, Leads, Open
<1>3. \A S : Among(S)' <=> Among(S)
  BY DEF Among
<1>4. \A p \in Procs : Held(p)' = Held(p) /\ Led(p)' = Led(p) /\ Live(p)' = Live(p)
  BY DEF Held, Led, Live
<1>5. Phases' /\ Ready'
  BY <1>2, <1>3, <1>4 DEF IndInv, Phases, Ready
<1>6. Loops'
  BY <1>4 DEF IndInv, Loops, LoopOf
<1>7. Wired'
  <2>1. \A p \in Procs : WiredOf(p)' = WiredOf(p)
    BY <1>4 DEF WiredOf
  <2>2. \A p, e : Left(p, e)' <=> Left(p, e)
    BY <1>3 DEF Left, LeftBehind, Lead, Open
  <2> QED BY <2>1, <2>2 DEF IndInv, Wired
<1>8. Doubled'
  BY <1>4 DEF IndInv, Doubled
<1>9. OwnersKept'
  <2>1. \A e : OwnerHeld(e)' <=> OwnerHeld(e)
    BY DEF OwnerHeld, Forgotten, PidTable
  <2> QED BY <1>3, <2>1 DEF IndInv, OwnersKept, Open
<1>10. ImageKeeps' /\ Fresh' /\ Recalled'
  BY <1>3 DEF IndInv, ImageKeeps, Fresh, Recalled
<1> QED BY <1>1, <1>5, <1>6, <1>7, <1>8, <1>9, <1>10 DEF IndInv

(* The inductive invariant holds: the barriers keep the stages apart, the   *)
(* election has one winner, and what a restart takes away is accounted for. *)
THEOREM IndInvHolds == Spec => []IndInv
<1>1. IndInv /\ Next => IndInv'
  BY TypeStep, PhasesStep, ReadyStep, LoopsStep, WiredStep, DoubledStep, OwnersStep, ImageStep,
     FreshStep, RecalledStep DEF IndInv
<1>2. IndInv /\ [Next]_vars => IndInv'
  BY <1>1, StutterIndInv
<1> QED BY <1>2, InitIndInv, PTL DEF Spec

(* Once the drain has begun everywhere each open end has exactly one leader *)
(* among the processes that share it, in whatever order they have set its   *)
(* owner (doLocking, checkLock).                                            *)
THEOREM OneLeads == Spec => []OneLeader
<1>1. IndInv => OneLeader
  <2> SUFFICES ASSUME IndInv,
                      \A p \in Procs : pc[p] \in Stages \ {"run", "told", "suspended", "electing"},
                      NEW e \in Open
               PROVE  Cardinality({p \in holders[e] : <<p, e>> \in locked}) = 1
    BY DEF OneLeader, IndInv
  <2>1. \A q \in holders[e] : q \in Procs
    BY DEF IndInv, TypeOK, AppType, Open
  <2>2. PICK h \in Procs : h \in holders[e]
    BY <2>1 DEF Open
  <2>3. Elected
    BY <2>2 DEF IndInv, Phases, Ready, Among, Electing
  <2>4. PICK l \in holders[e] : Leads(l, e)
    BY <2>3 DEF Elected
  <2>5. {p \in holders[e] : <<p, e>> \in locked} = {l}
    BY <2>1, <2>4 DEF Leads
  <2> QED BY <2>5, FS_Singleton
<1> QED BY <1>1, IndInvHolds, PTL

(* A process runs again only with every descriptor in place, except those   *)
(* of a dead socket that another sharer leads, and no send buffer still     *)
(* doubled; when all run, the owner of each open end is one the application *)
(* has set, or nobody after a restart whose leader cannot translate the pid *)
(* it saved (refill, onError, sendReceiveMissingFds, restoreOptions).       *)
THEOREM ResumesAsBefore == Spec => []ResumedAsBefore
<1>1. IndInv => SharersConnected
  <2> SUFFICES ASSUME IndInv, NEW p \in Procs, pc[p] = "run"
               PROVE  /\ \A e \in Held(p) : <<p, e>> \in wired \/ LeftBehind(e)
                      /\ doubled \cap Held(p) = {}
    BY DEF SharersConnected
  <2>1. WiredOf(p) = Held(p)
    BY DEF WiredOf
  <2>2. Among({"run", "refilled"})
    BY WhereTheyAre DEF IndInv
  <2>3. doubled = {}
    BY <2>2 DEF IndInv, Doubled, Among
  <2> QED BY <2>1, <2>3 DEF IndInv, Wired, Left
<1>2. IndInv => OwnerKept
  BY DEF IndInv, OwnersKept, OwnerHeld, OwnerKept, Among, Open
<1> QED BY <1>1, <1>2, IndInvHolds, PTL DEF ResumedAsBefore

------------------------------------------------------------------------------
(* What the buffers hold.                                                   *)

(* The data on their way to e.                                              *)
DataFor(e) == [kind : {"data"}, to : {e}, n : 1 .. MaxSent]

(* The stages in which the buffers hold the application's data only, those  *)
(* of the drain up to the images, and those of putting back.                *)
Still == {"run", "told", "suspended", "electing", "refilled"}
Draining == (Among(Drain) \/ Among(Greet)) /\ ~Among({"electing"})
PuttingBack == (Among(Back) /\ ~isRestart) \/ (Among(Again) /\ isRestart)

(* Outside a checkpoint the kernel holds what the application has written.  *)
Quiet ==
    \A e \in Ends : kernel[e] \in Seq(DataFor(e)) /\ drained[e] = <<>> /\ disconnected[e] = <<>>

(* Where the leader of an end is with it before the image: it drains the    *)
(* end, it has written the cookie, sent the handshake, read the other's.    *)
Drains(l, e) == pc[l] = "electing" \/ (pc[l] = "draining" /\ e \in todo[l])
Cookied(l, e) == pc[l] # "electing" /\ e \notin cookieDue
Greeted(l, e) == (pc[l] = "greeting" /\ e \notin todo[l]) \/ pc[l] \in {"greeted", "checkpointed"}
Heard(l, e) == (pc[l] = "greeted" /\ e \notin todo[l]) \/ pc[l] = "checkpointed"

(* What the leader of e has read and what it will read.                     *)
Inbound(e) == drained[e] \o kernel[e]

(* What is read at e ends with the cookie of the peer's leader m, if that   *)
(* is written, and then there is nothing but m's handshake.                 *)
DrainPair(l, m, e) ==
    /\ type[e] # "ERROR"
    /\ pc[l] = "electing" => drained[e] = <<>>
    /\ Drains(l, e) =>
          IF Cookied(m, Peer[e])
          THEN Inbound(e) # <<>> /\ Last(Inbound(e)) = Cookie /\ Front(Inbound(e)) \in Seq(DataFor(e))
          ELSE Inbound(e) \in Seq(DataFor(e))
    /\ ~Drains(l, e) =>
          /\ Cookied(m, Peer[e]) /\ drained[e] \in Seq(DataFor(e))
          /\ kernel[e] = IF Greeted(m, Peer[e]) /\ ~Heard(l, e) THEN <<Handshake(Peer[e])>> ELSE <<>>
    /\ Heard(l, e) => Greeted(m, Peer[e]) /\ remotePeerId[l][e] = Peer[e]

(* The same for an end whose peer is closed: nothing follows the data.      *)
DrainDead(l, e) ==
    /\ pc[l] = "electing" => drained[e] = <<>>
    /\ Drains(l, e) => Inbound(e) \in Seq(DataFor(e))
    /\ ~Drains(l, e) =>
          /\ type[e] = "ERROR" /\ drained[e] = <<>>
          /\ kernel[e] = disconnected[e] /\ kernel[e] \in Seq(DataFor(e))

(* Handshakes are sent when every drain is over.                            *)
DrainedFirst ==
    (\E q \in Procs : pc[q] \in {"greeting", "greeted", "checkpointed"}) =>
        \A q \in Procs : pc[q] = "draining" => Finished(q)

(* From the drain to the images.                                            *)
DrainBuffers ==
    /\ \A e \in Ends, l \in Procs : Lead(l, e) =>
          IF Peer[e] \in Open
          THEN \A m \in Procs : Lead(m, Peer[e]) => DrainPair(l, m, e)
          ELSE DrainDead(l, e)
    /\ DrainedFirst

(* Where the leader of an end is with it after the image: it has written    *)
(* the header, all it drained, and has read the other's header.             *)
Headed(l, e) == \/ pc[l] = "writing" /\ (cur[l] = e \/ e \notin todo[l])
                \/ pc[l] \in {"echoing", "sharing", "refilled"}
Emptied(l, e) == \/ pc[l] = "writing" /\ e \notin todo[l]
                 \/ pc[l] \in {"echoing", "sharing", "refilled"}
Opened(l, e) == \/ pc[l] = "echoing" /\ (cur[l] = e \/ e \notin todo[l])
                \/ pc[l] \in {"sharing", "refilled"}

(* In s, n items for the peer of e come before those for e, and no item for *)
(* e is there before all that are to be sent to the peer, d.                *)
Split(s, n, d, e) ==
    /\ n \in 0 .. Len(s) /\ (d # <<>> => n = Len(s))
    /\ \A i \in 1 .. Len(s) : s[i] \in DataFor(IF i <= n THEN Peer[e] ELSE e)

(* What is put back comes as a header and the data that m has drained, for  *)
(* l to echo, and after that come the echoes of what l has drained.         *)
RefillPair(l, m, e) ==
    /\ type[e] # "ERROR" /\ remotePeerId[l][e] = Peer[e]
    /\ drained[e] \in Seq(DataFor(e)) /\ (Emptied(l, e) => drained[e] = <<>>)
    /\ Opened(l, e) => Headed(m, Peer[e])
    /\ ~Headed(m, Peer[e]) => kernel[e] = <<>>
    /\ Headed(m, Peer[e]) /\ ~Opened(l, e) =>
          /\ kernel[e] # <<>> /\ Head(kernel[e]).kind = "REFILL"
          /\ Split(Tail(kernel[e]), Head(kernel[e]).extraBytes - Len(drained[Peer[e]]),
                   drained[Peer[e]], e)
    /\ Opened(l, e) =>
          Split(kernel[e], (IF cur[l] = e THEN left[l] ELSE 0) - Len(drained[Peer[e]]),
                drained[Peer[e]], e)

(* A dead socket holds what was read of it before.                          *)
RefillDead(l, e) ==
    /\ type[e] = "ERROR" /\ drained[e] = <<>> /\ kernel[e] \in Seq(DataFor(e))
    /\ pc[l] = "restarting" => disconnected[e] \in Seq(DataFor(e))

(* What p has read and not yet echoed is for the other end.                 *)
EchoOf(p) ==
    IF pc[p] = "echoing" /\ cur[p] # None THEN tmp[p] \in Seq(DataFor(Peer[cur[p]])) ELSE tmp[p] = <<>>

Echoes == \A p \in Procs : EchoOf(p)

(* From the images, or the restart, until all is put back.                  *)
RefillBuffers ==
    /\ \A e \in Ends, l \in Procs : Lead(l, e) =>
          /\ IF Peer[e] \in Open
             THEN \A m \in Procs : Lead(m, Peer[e]) => RefillPair(l, m, e)
             ELSE RefillDead(l, e)
          /\ pc[l] \in {"sharing", "refilled"} => disconnected[e] = <<>>

(* The phases, and what is in the buffers then.                             *)
Buffers ==
    /\ Among(Still) => Quiet
    /\ Draining => DrainBuffers
    /\ PuttingBack => RefillBuffers

(* The ends of a connection know each other.                                *)
Known ==
    \A e \in Ends :
        /\ type[e] \in {"ERROR", IF e \in Accepting THEN "ACCEPT" ELSE "CONNECT"}
        /\ type[e] = "ERROR" => Peer[e] \notin Open
        /\ \A p \in Procs : remotePeerId[p][e] \in {None, Peer[e]}
        /\ e \notin Open => kernel[e] = <<>> /\ drained[e] = <<>> /\ disconnected[e] = <<>>

(* Nothing waits at an end that nobody can use.                             *)
Unused == \A e \in Ends \ Usable : kernel[e] = <<>>

(* Nobody asks the name service before all have registered.                 *)
Registered ==
    Among(Again) /\ isRestart =>
        \A q \in Procs :
            IF pc[q] \in {"restarting", "restored"}
            THEN \A p \in Procs : pc[p] # "connecting"
            ELSE {e \in Led(q) : type[e] = "ACCEPT"} \subseteq nameService

(* The images hold what was drained, and who is whose peer.                 *)
ImageBuffers ==
    image # NoImage =>
        \A e \in Ends :
            /\ image.type[e] \in {"ERROR", IF e \in Accepting THEN "ACCEPT" ELSE "CONNECT"}
            /\ image.type[e] = "ERROR" => image.holders[Peer[e]] = {}
            /\ \A p \in Procs : image.remotePeerId[p][e] \in {None, Peer[e]}
            /\ IF image.holders[e] = {}
               THEN image.drained[e] = <<>> /\ image.disconnected[e] = <<>>
               ELSE IF image.holders[Peer[e]] = {}
               THEN /\ image.type[e] = "ERROR" /\ image.drained[e] = <<>>
                    /\ image.disconnected[e] \in Seq(DataFor(e))
               ELSE /\ image.type[e] # "ERROR" /\ image.drained[e] \in Seq(DataFor(e))
                    /\ \A p \in image.holders[e] :
                          <<p, e>> \in image.locked => image.remotePeerId[p][e] = Peer[e]

(* All of it, which is inductive together with IndInv.                      *)
BufInv == Known /\ Unused /\ Registered /\ Echoes /\ Buffers /\ ImageBuffers
------------------------------------------------------------------------------
(* Reading the first item of t after s leaves the whole as it is.           *)
LEMMA ConcatRead ==
    ASSUME NEW S, NEW s \in Seq(S), NEW t \in Seq(S), t # <<>>
    PROVE  Append(s, Head(t)) \o Tail(t) = s \o t
<1>1. Head(t) \in S /\ Tail(t) \in Seq(S)
  BY HeadTailProperties
<1>2. Append(s, Head(t)) = s \o <<Head(t)>>
  BY <1>1, AppendIsConcat
<1>3. (s \o <<Head(t)>>) \o Tail(t) = s \o (<<Head(t)>> \o Tail(t))
  BY <1>1, ConcatAssociative
<1>4. <<Head(t)>> \o Tail(t) = t
  BY <1>1
<1> QED BY <1>2, <1>3, <1>4

(* Writing after t is writing after both.                                   *)
LEMMA ConcatWrite ==
    ASSUME NEW S, NEW s \in Seq(S), NEW t \in Seq(S), NEW x \in S
    PROVE  s \o Append(t, x) = Append(s \o t, x)
<1>1. Append(t, x) = t \o <<x>> /\ Append(s \o t, x) = (s \o t) \o <<x>>
  BY AppendIsConcat, ConcatProperties
<1>2. <<x>> \in Seq(S)
  OBVIOUS
<1> QED BY <1>1, <1>2, ConcatAssociative

(* The last item and those in front of it.                                  *)
LEMMA AppendLast ==
    ASSUME NEW S, NEW s \in Seq(S), NEW x \in S
    PROVE  Append(s, x) # <<>> /\ Last(Append(s, x)) = x /\ Front(Append(s, x)) = s
<1>1. /\ Append(s, x) \in Seq(S) /\ Len(Append(s, x)) = Len(s) + 1 /\ Len(s) \in Nat
      /\ \A i \in 1 .. Len(s) : Append(s, x)[i] = s[i]
      /\ Append(s, x)[Len(s) + 1] = x
  BY AppendProperties, LenProperties
<1>2. Append(s, x) # <<>>
  BY <1>1
<1>3. Last(Append(s, x)) = x
  BY <1>1 DEF Last
<1>4. PICK u : u = Front(Append(s, x))
  OBVIOUS
<1>5. u \in Seq(S) /\ Len(u) = Len(s) /\ \A i \in 1 .. Len(s) : u[i] = s[i]
  BY <1>1, <1>4 DEF Front
<1>6. u = s
  BY <1>5, SeqEqual
<1> QED BY <1>2, <1>3, <1>4, <1>6

(* The first item stays the first.                                          *)
LEMMA AppendFirst ==
    ASSUME NEW S, NEW s \in Seq(S), s # <<>>, NEW x \in S
    PROVE  Head(Append(s, x)) = Head(s) /\ Tail(Append(s, x)) = Append(Tail(s), x)
<1>1. Len(s) \in Nat /\ Len(s) > 0
  BY LenProperties, EmptySeq
<1>2. Append(s, x) \in Seq(S) /\ Append(s, x) # <<>> /\ Len(Append(s, x)) = Len(s) + 1
  BY <1>1, AppendProperties
<1>3. Tail(s) \in Seq(S) /\ Len(Tail(s)) = Len(s) - 1 /\ \A i \in 1 .. Len(Tail(s)) : Tail(s)[i] = s[i + 1]
  BY <1>1, HeadTailProperties
<1>4. Head(Append(s, x)) = Head(s)
  BY <1>1, <1>2, AppendProperties
<1>5. PICK u : u = Tail(Append(s, x))
  OBVIOUS
<1>6. PICK v : v = Append(Tail(s), x)
  OBVIOUS
<1>7. u \in Seq(S) /\ Len(u) = Len(s) /\ \A i \in 1 .. Len(s) : u[i] = Append(s, x)[i + 1]
  BY <1>1, <1>2, <1>5, HeadTailProperties
<1>8. v \in Seq(S) /\ Len(v) = Len(s)
  BY <1>1, <1>3, <1>6, AppendProperties
<1>9. ASSUME NEW i \in 1 .. Len(s) PROVE u[i] = v[i]
  <2>1. CASE i = Len(s)
    BY <1>1, <1>3, <1>6, <1>7, <2>1, AppendProperties
  <2>2. CASE i # Len(s)
    <3>1. u[i] = s[i + 1]
      BY <1>1, <1>7, <2>2, AppendProperties
    <3>0. i \in 1 .. Len(s) - 1
      BY <1>1, <2>2
    <3>2. i \in 1 .. Len(Tail(s))
      BY <1>3, <3>0, Zenon
    <3>3. v[i] = Tail(s)[i]
      BY <1>3, <1>6, <3>2, AppendProperties
    <3>4. v[i] = s[i + 1]
      BY <1>3, <3>2, <3>3
    <3> QED BY <3>1, <3>4
  <2> QED BY <2>1, <2>2
<1>10. u = v
  BY <1>7, <1>8, <1>9, SeqEqual
<1> QED BY <1>4, <1>5, <1>6, <1>10

(* A mark that ends d, and stands nowhere in d \o k but possibly at its end, *)
(* is the end of the whole.                                                 *)
LEMMA MarkIsLast ==
    ASSUME NEW S, NEW D, NEW d \in Seq(S), NEW k \in Seq(S), NEW c, c \notin D,
           d # <<>>, Last(d) = c
    PROVE  /\ d \o k \notin Seq(D)
           /\ Front(d \o k) \in Seq(D) => k = <<>> /\ Front(d) \in Seq(D)
<1>1. Len(d) \in Nat /\ Len(d) > 0 /\ Len(k) \in Nat
  BY LenProperties, EmptySeq
<1>2. PICK s : s = d \o k
  OBVIOUS
<1>3. s \in Seq(S) /\ Len(s) = Len(d) + Len(k) /\ \A i \in 1 .. Len(d) : s[i] = d[i]
  BY <1>2, ConcatProperties
<1>4. s[Len(d)] = c
  BY <1>1, <1>3 DEF Last
<1>5. s \notin Seq(D)
  BY <1>1, <1>3, <1>4
<1>6. ASSUME Front(s) \in Seq(D) PROVE k = <<>>
  <2>1. Len(Front(s)) = Len(s) - 1 /\ \A i \in 1 .. Len(s) - 1 : Front(s)[i] = s[i]
    BY <1>1, <1>3 DEF Front
  <2>2. ~(Len(d) <= Len(s) - 1)
    BY <1>1, <1>4, <1>6, <2>1, <1>3
  <2>3. Len(k) = 0
    BY <1>1, <1>3, <2>2
  <2> QED BY <2>3, EmptySeq
<1>7. ASSUME k = <<>> PROVE s = d
  BY <1>2, <1>7, ConcatEmptySeq
<1> QED BY <1>2, <1>5, <1>6, <1>7
(* Data are items, none of them is a message of DMTCP, and those for one    *)
(* end are not for another.                                                 *)
LEMMA DataFacts ==
    /\ \A e \in Ends : DataFor(e) \subseteq Item /\ Seq(DataFor(e)) \subseteq Seq(Item)
    /\ \A e : \A x \in DataFor(e) : x.kind = "data" /\ x.to = e /\ x.n \in 1 .. MaxSent
    /\ \A e : Cookie \notin DataFor(e)
    /\ Cookie.kind = "cookie"
    /\ \A f : Handshake(f).kind = "HANDSHAKE" /\ Handshake(f).from = f
    /\ \A n : Refill(n).kind = "REFILL" /\ Refill(n).extraBytes = n
<1>1. \A e \in Ends : DataFor(e) \subseteq Item
  BY DEF DataFor, Item
<1>2. ASSUME NEW e \in Ends, NEW s \in Seq(DataFor(e)) PROVE s \in Seq(Item)
  <2>1. PICK D : D = DataFor(e)
    OBVIOUS
  <2>2. s \in Seq(D) /\ D \subseteq Item
    BY <1>1, <2>1
  <2> QED BY <2>2
<1>3. \A e : \A x \in DataFor(e) : x.kind = "data" /\ x.to = e /\ x.n \in 1 .. MaxSent
  BY DEF DataFor
<1>4. Cookie.kind = "cookie" /\ "cookie" # "data"
  BY DEF Cookie
<1>5. \A e : Cookie \notin DataFor(e)
  BY <1>3, <1>4, Zenon
<1>6. \A f : Handshake(f).kind = "HANDSHAKE" /\ Handshake(f).from = f
  BY DEF Handshake
<1>7. \A n : Refill(n).kind = "REFILL" /\ Refill(n).extraBytes = n
  BY DEF Refill
<1> QED BY <1>1, <1>2, <1>3, <1>4, <1>5, <1>6, <1>7

(* Peers are each other's.                                                  *)
LEMMA PeerFacts ==
    \A e \in Ends : Peer[e] \in Ends /\ Peer[Peer[e]] = e /\ Peer[e] # e
BY ConnectionsAssumption

(* What is written to be echoed, and what comes back, keeps its place.      *)
LEMMA SplitEmpty == ASSUME NEW d, NEW e PROVE Split(<<>>, 0, d, e)
BY EmptySeq DEF Split

(* An item for the peer is written while the peer's leader has more of them.*)
LEMMA SplitForeign ==
    ASSUME NEW e \in Ends, NEW s \in Seq(Item), NEW n, NEW d, d # <<>>, NEW c, Split(s, n, d, e),
           NEW x \in DataFor(Peer[e])
    PROVE  Split(Append(s, x), n + 1, c, e)
<1>1. n = Len(s) /\ Len(s) \in Nat /\ \A i \in 1 .. Len(s) : s[i] \in DataFor(Peer[e])
  BY LenProperties DEF Split
<1>2. x \in Item
  BY DataFacts, PeerFacts
<1>3. /\ Len(Append(s, x)) = n + 1
      /\ \A i \in 1 .. n : Append(s, x)[i] = s[i]
      /\ Append(s, x)[n + 1] = x
  BY <1>1, <1>2, AppendProperties
<1>4. ASSUME NEW i \in 1 .. n + 1 PROVE Append(s, x)[i] \in DataFor(Peer[e])
  <2>1. i = n + 1 \/ i \in 1 .. n
    BY <1>1
  <2> QED BY <1>1, <1>3, <2>1, Zenon
<1>5. n + 1 \in 0 .. n + 1 /\ \A i \in 1 .. n + 1 : i <= n + 1
  BY <1>1
<1> QED BY <1>3, <1>4, <1>5 DEF Split

(* What is echoed goes behind all that was to be echoed.                    *)
LEMMA SplitOwn ==
    ASSUME NEW e \in Ends, NEW s \in Seq(Item), NEW n, Split(s, n, <<>>, e), NEW x \in DataFor(e)
    PROVE  Split(Append(s, x), n, <<>>, e)
<1>1. n \in 0 .. Len(s) /\ Len(s) \in Nat
  BY LenProperties DEF Split
<1>2. x \in Item
  BY DataFacts
<1>3. /\ Len(Append(s, x)) = Len(s) + 1
      /\ \A i \in 1 .. Len(s) : Append(s, x)[i] = s[i]
      /\ Append(s, x)[Len(s) + 1] = x
  BY <1>1, <1>2, AppendProperties
<1>4. ASSUME NEW i \in 1 .. Len(s) + 1 PROVE Append(s, x)[i] \in DataFor(IF i <= n THEN Peer[e] ELSE e)
  <2>1. CASE i \in 1 .. Len(s)
    BY <1>3, <2>1 DEF Split
  <2>2. CASE i = Len(s) + 1
    <3>1. ~(i <= n)
      BY <1>1, <2>2
    <3> QED BY <1>3, <2>2, <3>1
  <2> QED BY <1>1, <2>1, <2>2
<1>5. n \in 0 .. Len(s) + 1
  BY <1>1
<1> QED BY <1>3, <1>4, <1>5 DEF Split

(* The first of the items is read to be echoed.                             *)
LEMMA SplitRead ==
    ASSUME NEW e \in Ends, NEW s \in Seq(Item), s # <<>>, NEW n, n # 0, NEW d, Split(s, n, d, e)
    PROVE  Head(s) \in DataFor(Peer[e]) /\ Split(Tail(s), n - 1, d, e)
<1>1. n \in 1 .. Len(s) /\ Len(s) \in Nat /\ Len(s) > 0
  BY LenProperties, EmptySeq DEF Split
<1>2. Head(s) \in DataFor(Peer[e])
  BY <1>1 DEF Split
<1>3. PICK t : t = Tail(s)
  OBVIOUS
<1>4. Len(t) = Len(s) - 1 /\ \A i \in 1 .. Len(s) - 1 : t[i] = s[i + 1]
  BY <1>1, <1>3
<1>5. ASSUME NEW i \in 1 .. Len(s) - 1 PROVE t[i] \in DataFor(IF i <= n - 1 THEN Peer[e] ELSE e)
  <2>1. i + 1 \in 1 .. Len(s) /\ (i + 1 <= n <=> i <= n - 1)
    BY <1>1
  <2>2. s[i + 1] \in DataFor(IF i + 1 <= n THEN Peer[e] ELSE e)
    BY <2>1 DEF Split
  <2> QED BY <1>4, <2>1, <2>2
<1>6. n - 1 \in 0 .. Len(s) - 1 /\ (d # <<>> => n - 1 = Len(s) - 1)
  BY <1>1 DEF Split
<1>7. Split(t, n - 1, d, e)
  BY <1>4, <1>5, <1>6 DEF Split
<1> QED BY <1>2, <1>3, <1>7

(* When none is left to echo, all that is there is for the end.             *)
LEMMA SplitDone ==
    ASSUME NEW e \in Ends, NEW s \in Seq(Item), NEW d, Split(s, 0, d, e)
    PROVE  s \in Seq(DataFor(e))
<1>1. Len(s) \in Nat /\ \A i \in 1 .. Len(s) : ~(i <= 0)
  BY LenProperties
<1>2. \A i \in 1 .. Len(s) : s[i] \in DataFor(e)
  BY <1>1 DEF Split
<1> QED BY <1>2, LenProperties

------------------------------------------------------------------------------
(* No end has two that lead it, and every open one has one.                 *)
LEMMA OneLead ==
    ASSUME Elected, TypeOK, NEW e \in Ends
    PROVE  /\ \A l, m \in Procs : Lead(l, e) /\ Lead(m, e) => l = m
           /\ e \in Open => \E l \in Procs : Lead(l, e)
           /\ \A l \in Procs : Lead(l, e) => e \in Open
           /\ \A l \in Procs : pc[l] # "electing" => (Lead(l, e) <=> e \in Led(l))
<1>1. \A l \in Procs : Lead(l, e) => e \in Open /\ l \in holders[e]
  BY DEF Lead, Open
<1>2. ASSUME e \in Open PROVE \E l \in Procs : Lead(l, e) /\ \A m \in Procs : Lead(m, e) => m = l
  <2>1. PICK l \in holders[e] : Leads(l, e)
    BY <1>2 DEF Elected
  <2>2. l \in Procs
    BY <1>2 DEF TypeOK, AppType
  <2>3. Lead(l, e) /\ \A m \in Procs : Lead(m, e) => m = l
    BY <2>1 DEF Leads, Lead
  <2> QED BY <2>2, <2>3
<1>3. \A l \in Procs : pc[l] # "electing" => (Lead(l, e) <=> e \in Led(l))
  BY DEF Lead, Led, Held
<1> QED BY <1>1, <1>2, <1>3

(* Nothing happens to an end, and where its leaders are with it stays.      *)
LEMMA DrainPairFrame ==
    ASSUME NEW l, NEW m, NEW e, DrainPair(l, m, e),
           kernel'[e] = kernel[e], drained'[e] = drained[e], type'[e] = type[e],
           remotePeerId'[l][e] = remotePeerId[l][e],
           pc'[l] = "electing" => pc[l] = "electing",
           Drains(l, e)' <=> Drains(l, e), Heard(l, e)' <=> Heard(l, e),
           Cookied(m, Peer[e])' <=> Cookied(m, Peer[e]), Greeted(m, Peer[e])' <=> Greeted(m, Peer[e])
    PROVE  DrainPair(l, m, e)'
BY DEF DrainPair, Inbound

(* The same for an end whose peer is closed.                                *)
LEMMA DrainDeadFrame ==
    ASSUME NEW l, NEW e, DrainDead(l, e),
           kernel'[e] = kernel[e], drained'[e] = drained[e], type'[e] = type[e],
           disconnected'[e] = disconnected[e],
           pc'[l] = "electing" => pc[l] = "electing",
           Drains(l, e)' <=> Drains(l, e)
    PROVE  DrainDead(l, e)'
BY DEF DrainDead, Inbound

(* The same while the data are put back.                                    *)
LEMMA RefillPairFrame ==
    ASSUME NEW l, NEW m, NEW e, RefillPair(l, m, e),
           kernel'[e] = kernel[e], drained'[Peer[e]] = drained[Peer[e]],
           type'[e] = type[e], remotePeerId'[l][e] = remotePeerId[l][e],
           drained'[e] \in Seq(DataFor(e)), Emptied(l, e)' => drained'[e] = <<>>,
           Opened(l, e)' <=> Opened(l, e), Headed(m, Peer[e])' <=> Headed(m, Peer[e]),
           Opened(l, e) => (IF cur'[l] = e THEN left'[l] ELSE 0) = (IF cur[l] = e THEN left[l] ELSE 0)
    PROVE  RefillPair(l, m, e)'
BY DEF RefillPair

(* The same for a dead socket.                                              *)
LEMMA RefillDeadFrame ==
    ASSUME NEW l, NEW e, RefillDead(l, e),
           kernel'[e] = kernel[e], drained'[e] = drained[e], type'[e] = type[e],
           disconnected'[e] = disconnected[e], pc'[l] = "restarting" => pc[l] = "restarting"
    PROVE  RefillDead(l, e)'
BY DEF RefillDead
------------------------------------------------------------------------------
(* The phase that the stage of one process stands for.                      *)
LEMMA WhichPhase ==
    ASSUME TypeOK, Phases, NEW p \in Procs
    PROVE  /\ pc[p] \in {"draining", "greeting", "greeted"} => Draining /\ Elected
           /\ pc[p] \in {"greeting", "greeted"} => Among(Greet)
           /\ pc[p] \in {"restarting", "restored", "registered", "connecting",
                         "writing", "echoing", "sharing"} => PuttingBack /\ Elected
           /\ pc[p] \in {"run", "told"} => Among(Still)
<1>1. pc[p] \in {"draining", "greeting", "greeted"} => (Among(Drain) \/ Among(Greet)) /\ Elected
  BY WhereTheyAre
<1>2. pc[p] \in {"draining", "greeting", "greeted"} => ~Among({"electing"})
  BY DEF Among
<1>3. pc[p] \in {"restarting", "restored", "registered", "connecting",
                 "writing", "echoing", "sharing"} => PuttingBack /\ Elected
  BY WhereTheyAre DEF PuttingBack
<1>4. pc[p] \in {"run", "told"} => Among({"run", "refilled"}) \/ Among({"told", "suspended"})
  BY WhereTheyAre
<1>5. pc[p] \in {"greeting", "greeted"} => Among(Greet)
  BY WhereTheyAre
<1> QED BY <1>1, <1>2, <1>3, <1>4, <1>5 DEF Draining, Among, Still

(* A cookie is written behind all that was written before.                  *)
LEMMA DrainWriteStep ==
    ASSUME TypeOK, Phases, Elected, DrainBuffers, NEW p \in Procs, NEW x \in Ends, DrainWrite(p, x)
    PROVE  DrainBuffers'
<1> KernelType /\ DrainType
  BY DEF TypeOK
<1>1. /\ UNCHANGED <<holders, locked, owner, pc, todo, drained, disconnected, type, remotePeerId>>
      /\ pc[p] = "draining" /\ x \in Led(p) /\ x \in cookieDue /\ cookieDue' = cookieDue \ {x}
  BY DEF DrainWrite, appVars, conVars, loopVars
<1>2. Lead(p, x) /\ x \in Open
  BY <1>1, OneLead
<1>3. Open' = Open /\ \A l \in Procs, e \in Ends : Lead(l, e)' => Lead(l, e)
  BY <1>1 DEF Open, Lead
<1>4. \A l \in Procs, e \in Ends : /\ Drains(l, e)' <=> Drains(l, e)
                                   /\ Heard(l, e)' <=> Heard(l, e)
                                   /\ Greeted(l, e)' <=> Greeted(l, e)
                                   /\ e # x => (Cookied(l, e)' <=> Cookied(l, e))
  BY <1>1 DEF Drains, Heard, Greeted, Cookied
<1>5. \A e \in Ends : Peer[e] # x \/ e \notin Open => kernel'[e] = kernel[e]
  BY <1>1, PeerFacts DEF DrainWrite, Write, KernelType
<1>6. ASSUME NEW e \in Ends, NEW l \in Procs, NEW m \in Procs, Peer[e] \in Open,
             Lead(l, e), Lead(m, Peer[e])
      PROVE  DrainPair(l, m, e)'
  <2>0. DrainPair(l, m, e)
    BY <1>6 DEF DrainBuffers
  <2>1. CASE Peer[e] # x
    BY <1>1, <1>4, <1>5, <2>0, <2>1, PeerFacts, DrainPairFrame
  <2>2. CASE Peer[e] = x
    <3>1. e = Peer[x] /\ e \in Open /\ m = p
      BY <1>2, <1>6, <2>2, PeerFacts, OneLead
    <3>2. kernel'[e] = Append(kernel[e], Cookie)
      BY <3>1 DEF DrainWrite, Write, KernelType
    <3>3. ~Cookied(m, Peer[e]) /\ Cookied(m, Peer[e])'
      BY <1>1, <2>2, <3>1 DEF Cookied
    <3>4. Drains(l, e)
      BY <2>0, <3>3 DEF DrainPair
    <3>5. Inbound(e) \in Seq(DataFor(e))
      BY <2>0, <3>3, <3>4 DEF DrainPair
    <3>6. drained[e] \in Seq(Item) /\ kernel[e] \in Seq(Item) /\ Cookie \in Item
      BY ItemFacts DEF KernelType, DrainType
    <3>7. Inbound(e)' = Append(Inbound(e), Cookie)
      <4>1. drained[e] \o Append(kernel[e], Cookie) = Append(drained[e] \o kernel[e], Cookie)
        <5>1. PICK d \in Seq(Item), k \in Seq(Item), c \in Item :
                  d = drained[e] /\ k = kernel[e] /\ c = Cookie
          BY <3>6
        <5>2. d \o Append(k, c) = Append(d \o k, c)
          BY ConcatWrite
        <5> QED BY <5>1, <5>2
      <4> QED BY <1>1, <3>2, <4>1 DEF Inbound
    <3>8. Inbound(e) \in Seq(Item)
      BY <3>6, ConcatProperties DEF Inbound
    <3>9. PICK s : s = Inbound(e)
      OBVIOUS
    <3>10. Append(s, Cookie) # <<>> /\ Last(Append(s, Cookie)) = Cookie /\ Front(Append(s, Cookie)) = s
      BY <3>6, <3>8, <3>9, AppendLast
    <3>11. Inbound(e)' # <<>> /\ Last(Inbound(e)') = Cookie /\ Front(Inbound(e)') \in Seq(DataFor(e))
      BY <3>5, <3>7, <3>9, <3>10
    <3>12. ~Heard(l, e)'
      BY <1>4, <3>4 DEF Drains, Heard
    <3> QED BY <1>1, <1>4, <2>0, <3>3, <3>4, <3>11, <3>12 DEF DrainPair
  <2> QED BY <2>1, <2>2
<1>7. ASSUME NEW e \in Ends, NEW l \in Procs, Peer[e] \notin Open, Lead(l, e) PROVE DrainDead(l, e)'
  <2>1. kernel'[e] = kernel[e]
    BY <1>2, <1>5, <1>7
  <2> QED BY <1>1, <1>4, <1>7, <2>1, DrainDeadFrame DEF DrainBuffers
<1>8. DrainedFirst'
  BY <1>1 DEF DrainBuffers, DrainedFirst, Finished, Led, Held
<1> QED BY <1>3, <1>6, <1>7, <1>8, PeerFacts DEF DrainBuffers

(* What is read is kept in its order.                                       *)
LEMMA DrainReadStep ==
    ASSUME TypeOK, Phases, Loops, Elected, DrainBuffers, NEW p \in Procs, NEW x \in Ends, DrainRead(p, x)
    PROVE  DrainBuffers'
<1> KernelType /\ DrainType
  BY DEF TypeOK
<1>1. /\ UNCHANGED <<holders, locked, owner, pc, todo, cookieDue, disconnected, type, remotePeerId>>
      /\ pc[p] = "draining" /\ x \in todo[p] /\ kernel[x] # <<>>
      /\ \A e \in Ends \ {x} : kernel'[e] = kernel[e] /\ drained'[e] = drained[e]
      /\ kernel'[x] = Tail(kernel[x]) /\ drained'[x] = Append(drained[x], Head(kernel[x]))
  BY DEF DrainRead, appVars, conVars, loopVars, KernelType, DrainType
<1>2. Lead(p, x) /\ Drains(p, x)
  BY <1>1, OneLead DEF Loops, LoopOf, Drains
<1>3. Open' = Open /\ \A l \in Procs, e \in Ends : Lead(l, e)' => Lead(l, e)
  BY <1>1 DEF Open, Lead
<1>4. \A l \in Procs, e \in Ends : /\ Drains(l, e)' <=> Drains(l, e)
                                   /\ Heard(l, e)' <=> Heard(l, e)
                                   /\ Greeted(l, e)' <=> Greeted(l, e)
                                   /\ Cookied(l, e)' <=> Cookied(l, e)
  BY <1>1 DEF Drains, Heard, Greeted, Cookied
<1>5. Inbound(x)' = Inbound(x)
  BY <1>1, ConcatRead DEF Inbound, KernelType, DrainType
<1>6. \A l \in Procs : Lead(l, x) => l = p
  BY <1>2, OneLead
<1>7. ASSUME NEW e \in Ends, NEW l \in Procs, NEW m \in Procs, Peer[e] \in Open,
             Lead(l, e), Lead(m, Peer[e])
      PROVE  DrainPair(l, m, e)'
  <2>0. DrainPair(l, m, e)
    BY <1>7 DEF DrainBuffers
  <2>1. CASE e # x
    BY <1>1, <1>4, <2>0, <2>1, PeerFacts, DrainPairFrame
  <2>2. CASE e = x
    <3>1. pc[l] # "electing" /\ Drains(l, e) /\ ~Heard(l, e)
      BY <1>1, <1>2, <1>6, <1>7, <2>2 DEF Heard
    <3> QED BY <1>1, <1>4, <1>5, <2>0, <2>2, <3>1, PeerFacts DEF DrainPair
  <2> QED BY <2>1, <2>2
<1>8. ASSUME NEW e \in Ends, NEW l \in Procs, Peer[e] \notin Open, Lead(l, e) PROVE DrainDead(l, e)'
  <2>0. DrainDead(l, e)
    BY <1>8 DEF DrainBuffers
  <2>1. CASE e # x
    BY <1>1, <1>4, <2>0, <2>1, DrainDeadFrame
  <2>2. CASE e = x
    <3>1. pc[l] # "electing" /\ Drains(l, e)
      BY <1>1, <1>2, <1>6, <1>8, <2>2
    <3> QED BY <1>1, <1>4, <1>5, <2>0, <2>2, <3>1 DEF DrainDead
  <2> QED BY <2>1, <2>2
<1>9. DrainedFirst'
  BY <1>1 DEF DrainBuffers, DrainedFirst, Finished, Led, Held
<1> QED BY <1>3, <1>7, <1>8, <1>9, PeerFacts DEF DrainBuffers
(* Who drains an end that is not finished knows that nobody greets yet.     *)
LEMMA NobodyGreets ==
    ASSUME DrainedFirst, NEW p \in Procs, pc[p] = "draining", todo[p] # {}
    PROVE  \A q \in Procs : pc[q] \notin {"greeting", "greeted", "checkpointed"}
BY DEF DrainedFirst, Finished

(* The cookie that ends what was read is the peer's, and nothing follows.   *)
LEMMA DrainCompleteStep ==
    ASSUME TypeOK, Phases, Loops, Elected, DrainBuffers, NEW p \in Procs, NEW x \in Ends,
           DrainComplete(p, x)
    PROVE  DrainBuffers'
<1> KernelType /\ DrainType /\ LoopType
  BY DEF TypeOK
<1>1. /\ UNCHANGED <<holders, locked, owner, pc, cookieDue, kernel, disconnected, type, remotePeerId>>
      /\ pc[p] = "draining" /\ x \in todo[p] /\ drained[x] # <<>> /\ Last(drained[x]) = Cookie
      /\ \A e \in Ends \ {x} : drained'[e] = drained[e]
      /\ drained'[x] = Front(drained[x])
      /\ \A l \in Procs \ {p} : todo'[l] = todo[l]
      /\ todo'[p] = todo[p] \ {x}
  BY DEF DrainComplete, Done, appVars, conVars, kernelVars, DrainType, LoopType
<1>2. Lead(p, x) /\ Drains(p, x)
  BY <1>1, OneLead DEF Loops, LoopOf, Drains
<1>3. Open' = Open /\ \A l \in Procs, e \in Ends : Lead(l, e)' => Lead(l, e)
  BY <1>1 DEF Open, Lead
<1>4. \A l \in Procs, e \in Ends : /\ e # x => (Drains(l, e)' <=> Drains(l, e))
                                   /\ Heard(l, e)' <=> Heard(l, e)
                                   /\ Greeted(l, e)' <=> Greeted(l, e)
                                   /\ Cookied(l, e)' <=> Cookied(l, e)
  BY <1>1 DEF Drains, Heard, Greeted, Cookied
<1>5. /\ Inbound(x) \notin Seq(DataFor(x))
      /\ Front(Inbound(x)) \in Seq(DataFor(x)) => kernel[x] = <<>> /\ drained'[x] \in Seq(DataFor(x))
  <2>1. PICK d \in Seq(Item), k \in Seq(Item) : d = drained[x] /\ k = kernel[x]
    BY DEF KernelType, DrainType
  <2>2. PICK D : D = DataFor(x)
    OBVIOUS
  <2>3. Cookie \notin D
    BY <2>2, DataFacts
  <2>4. /\ d \o k \notin Seq(D)
        /\ Front(d \o k) \in Seq(D) => k = <<>> /\ Front(d) \in Seq(D)
    BY <1>1, <2>1, <2>3, MarkIsLast
  <2> QED BY <1>1, <2>1, <2>2, <2>4 DEF Inbound
<1>6. \A l \in Procs : Lead(l, x) => l = p
  BY <1>2, OneLead
<1>7. \A q \in Procs : pc[q] \notin {"greeting", "greeted", "checkpointed"}
  BY <1>1, NobodyGreets DEF DrainBuffers
<1>8. ASSUME NEW e \in Ends, NEW l \in Procs, NEW m \in Procs, Peer[e] \in Open,
             Lead(l, e), Lead(m, Peer[e])
      PROVE  DrainPair(l, m, e)'
  <2>0. DrainPair(l, m, e)
    BY <1>8 DEF DrainBuffers
  <2>1. CASE e # x
    BY <1>1, <1>4, <2>0, <2>1, PeerFacts, DrainPairFrame
  <2>2. CASE e = x
    <3>1. l = p
      BY <1>6, <1>8, <2>2
    <3>2. Cookied(m, Peer[e]) /\ Front(Inbound(e)) \in Seq(DataFor(e))
      BY <1>2, <1>5, <2>0, <2>2, <3>1 DEF DrainPair
    <3>3. kernel[e] = <<>> /\ drained'[e] \in Seq(DataFor(e))
      BY <1>5, <2>2, <3>2
    <3>4. ~Greeted(m, Peer[e]) /\ ~Heard(l, e) /\ ~Drains(l, e)'
      BY <1>1, <1>7, <2>2, <3>1 DEF Greeted, Heard, Drains
    <3> QED BY <1>1, <1>4, <2>0, <2>2, <3>1, <3>2, <3>3, <3>4, PeerFacts DEF DrainPair
  <2> QED BY <2>1, <2>2
<1>9. ASSUME NEW e \in Ends, NEW l \in Procs, Peer[e] \notin Open, Lead(l, e) PROVE DrainDead(l, e)'
  <2>0. DrainDead(l, e)
    BY <1>9 DEF DrainBuffers
  <2>1. CASE e # x
    BY <1>1, <1>4, <2>0, <2>1, DrainDeadFrame
  <2>2. CASE e = x
    BY <1>2, <1>5, <1>6, <1>9, <2>0, <2>2 DEF DrainDead
  <2> QED BY <2>1, <2>2
<1>10. DrainedFirst'
  BY <1>1, <1>7 DEF DrainedFirst
<1> QED BY <1>3, <1>8, <1>9, <1>10, PeerFacts DEF DrainBuffers

(* A dead socket holds what was read of the old one.                        *)
LEMMA OnDisconnectStep ==
    ASSUME TypeOK, Phases, Loops, Elected, DrainBuffers, NEW p \in Procs, NEW x \in Ends,
           OnDisconnect(p, x)
    PROVE  DrainBuffers'
<1> KernelType /\ DrainType /\ LoopType /\ ConType
  BY DEF TypeOK
<1>1. /\ UNCHANGED <<holders, locked, pc, remotePeerId>>
      /\ pc[p] = "draining" /\ x \in todo[p] /\ kernel[x] = <<>> /\ Peer[x] \notin Open
      /\ \A e \in Ends \ {x} : /\ drained'[e] = drained[e] /\ kernel'[e] = kernel[e]
                               /\ disconnected'[e] = disconnected[e] /\ type'[e] = type[e]
                               /\ owner'[e] = owner[e] /\ (e \in cookieDue' <=> e \in cookieDue)
      /\ drained'[x] = <<>> /\ kernel'[x] = drained[x] /\ disconnected'[x] = drained[x]
      /\ type'[x] = "ERROR" /\ owner'[x] = None
      /\ \A l \in Procs \ {p} : todo'[l] = todo[l]
      /\ todo'[p] = todo[p] \ {x}
  BY DEF OnDisconnect, Done, appVars, conVars, kernelVars, KernelType, ConType, DrainType, LoopType
<1>2. Lead(p, x) /\ Drains(p, x)
  BY <1>1, OneLead DEF Loops, LoopOf, Drains
<1>3. Open' = Open /\ \A l \in Procs, e \in Ends : Lead(l, e)' => Lead(l, e)
  <2>1. Open' = Open
    BY <1>1 DEF Open
  <2>2. \A l \in Procs, e \in Ends \ {x} : Lead(l, e)' => Lead(l, e)
    BY <1>1 DEF Lead
  <2>3. \A l \in Procs : Lead(l, x)' => Lead(l, x)
    <3>1. \A l \in Procs : l # None
      BY SocketsAssumption
    <3> QED BY <1>1, <3>1 DEF Lead
  <2> QED BY <2>1, <2>2, <2>3
<1>4. \A l \in Procs, e \in Ends : /\ e # x => (Drains(l, e)' <=> Drains(l, e))
                                   /\ Heard(l, e)' <=> Heard(l, e)
                                   /\ Greeted(l, e)' <=> Greeted(l, e)
                                   /\ e # x => (Cookied(l, e)' <=> Cookied(l, e))
  BY <1>1 DEF Drains, Heard, Greeted, Cookied
<1>5. Inbound(x) = drained[x]
  <2>1. PICK d \in Seq(Item) : d = drained[x]
    BY DEF DrainType
  <2>2. d \o <<>> = d
    BY ConcatEmptySeq
  <2> QED BY <1>1, <2>1, <2>2 DEF Inbound
<1>6. \A l \in Procs : Lead(l, x) => l = p
  BY <1>2, OneLead
<1>7. \A q \in Procs : pc[q] \notin {"greeting", "greeted", "checkpointed"}
  BY <1>1, NobodyGreets DEF DrainBuffers
<1>8. ASSUME NEW e \in Ends, NEW l \in Procs, NEW m \in Procs, Peer[e] \in Open,
             Lead(l, e), Lead(m, Peer[e])
      PROVE  DrainPair(l, m, e)'
  <2>1. DrainPair(l, m, e)
    BY <1>8 DEF DrainBuffers
  <2>2. e \in Open /\ e # x /\ Peer[e] # x
    BY <1>1, <1>8, OneLead, PeerFacts
  <2> QED BY <1>1, <1>4, <2>1, <2>2, PeerFacts, DrainPairFrame
<1>9. ASSUME NEW e \in Ends, NEW l \in Procs, Peer[e] \notin Open, Lead(l, e) PROVE DrainDead(l, e)'
  <2>0. DrainDead(l, e)
    BY <1>9 DEF DrainBuffers
  <2>1. CASE e # x
    BY <1>1, <1>4, <2>0, <2>1, DrainDeadFrame
  <2>2. CASE e = x
    <3>1. l = p /\ ~Drains(l, e)' /\ pc'[l] # "electing"
      BY <1>1, <1>6, <1>9, <2>2 DEF Drains
    <3>2. drained[e] \in Seq(DataFor(e))
      BY <1>2, <1>5, <2>0, <2>2, <3>1 DEF DrainDead
    <3> QED BY <1>1, <2>2, <3>1, <3>2 DEF DrainDead
  <2> QED BY <2>1, <2>2
<1>10. DrainedFirst'
  BY <1>1, <1>7 DEF DrainedFirst
<1> QED BY <1>3, <1>8, <1>9, <1>10, PeerFacts DEF DrainBuffers

(* Greeting begins when all have drained.                                   *)
LEMMA PreCkptStep ==
    ASSUME TypeOK, Phases, Elected, DrainBuffers, NEW p \in Procs, PreCkpt(p)
    PROVE  DrainBuffers'
<1> LoopType /\ pc \in [Procs -> Stages]
  BY DEF TypeOK
<1>1. /\ UNCHANGED <<holders, locked, owner, cookieDue, kernel, drained, disconnected, type, remotePeerId>>
      /\ pc[p] = "draining" /\ \A l \in Procs \ {p} : pc'[l] = pc[l] /\ todo'[l] = todo[l]
      /\ pc'[p] = (IF Live(p) = {} THEN "greeted" ELSE "greeting") /\ todo'[p] = Live(p)
  BY DEF PreCkpt, Loop, Goto, appVars, conVars, drainVars, kernelVars, LoopType
<1>2. \A q \in Procs : \/ pc[q] = "draining" /\ Finished(q)
                       \/ pc[q] \in {"greeting", "greeted", "checkpointed"}
  BY DEF PreCkpt, Barrier
<1>3. todo[p] = {}
  BY <1>1, <1>2 DEF Finished
<1>4. Open' = Open /\ \A l \in Procs, e \in Ends : Lead(l, e)' => Lead(l, e)
  BY <1>1, <1>2 DEF Open, Lead
<1>5. \A l \in Procs, e \in Ends :
          /\ Drains(l, e)' <=> Drains(l, e)
          /\ Cookied(l, e)' <=> Cookied(l, e)
          /\ l # p \/ e \in Live(p) => /\ Heard(l, e)' <=> Heard(l, e)
                                       /\ Greeted(l, e)' <=> Greeted(l, e)
  BY <1>1, <1>3 DEF Drains, Heard, Greeted, Cookied
<1>6. \A e \in Ends : Lead(p, e) /\ type[e] # "ERROR" => e \in Live(p)
  BY <1>1, OneLead DEF Live
<1>7. ASSUME NEW e \in Ends, NEW l \in Procs, NEW m \in Procs, Peer[e] \in Open,
             Lead(l, e), Lead(m, Peer[e])
      PROVE  DrainPair(l, m, e)'
  <2>1. DrainPair(l, m, e) /\ DrainPair(m, l, Peer[e])
    BY <1>7, OneLead, PeerFacts DEF DrainBuffers
  <2>2. type[e] # "ERROR" /\ type[Peer[e]] # "ERROR"
    BY <2>1 DEF DrainPair
  <2>3. (l # p \/ e \in Live(p)) /\ (m # p \/ Peer[e] \in Live(p))
    BY <1>6, <1>7, <2>2, PeerFacts
  <2>4. pc'[l] = "electing" => pc[l] = "electing"
    BY <1>1
  <2> QED BY <1>1, <1>5, <2>1, <2>3, <2>4, PeerFacts, DrainPairFrame
<1>8. ASSUME NEW e \in Ends, NEW l \in Procs, Peer[e] \notin Open, Lead(l, e) PROVE DrainDead(l, e)'
  <2>1. DrainDead(l, e) /\ (pc'[l] = "electing" => pc[l] = "electing")
    BY <1>1, <1>8 DEF DrainBuffers
  <2> QED BY <1>1, <1>5, <2>1, DrainDeadFrame
<1>9. DrainedFirst'
  <2>1. ASSUME NEW q \in Procs, pc'[q] = "draining" PROVE Finished(q)'
    <3>1. q # p /\ pc[q] = "draining" /\ todo'[q] = todo[q]
      BY <1>1, <2>1
    <3>2. Finished(q)
      BY <1>2, <3>1
    <3> QED BY <1>1, <3>1, <3>2 DEF Finished, Led, Held
  <2> QED BY <2>1 DEF DrainedFirst
<1> QED BY <1>4, <1>7, <1>8, <1>9, PeerFacts DEF DrainBuffers
(* A handshake is written into a buffer that is empty.                      *)
LEMMA SendHandshakeStep ==
    ASSUME TypeOK, Phases, Loops, Elected, Among(Greet), DrainBuffers,
           NEW p \in Procs, NEW x \in Ends, SendHandshake(p, x)
    PROVE  DrainBuffers'
<1> LoopType /\ pc \in [Procs -> Stages] /\ KernelType
  BY DEF TypeOK
<1>1. /\ UNCHANGED <<holders, locked, owner, cookieDue, drained, disconnected, type, remotePeerId>>
      /\ pc[p] = "greeting" /\ x \in todo[p]
      /\ \A l \in Procs \ {p} : pc'[l] = pc[l] /\ todo'[l] = todo[l]
      /\ \/ todo[p] = {x} /\ pc'[p] = "greeted" /\ todo'[p] = Live(p)
         \/ pc'[p] = "greeting" /\ todo'[p] = todo[p] \ {x}
      /\ kernel'[Peer[x]] = Append(kernel[Peer[x]], Handshake(x))
      /\ \A e \in Ends : e # Peer[x] => kernel'[e] = kernel[e]
  BY PeerFacts DEF SendHandshake, DoneThen, Loop, Done, Goto, Write, appVars, conVars, drainVars,
                   LoopType, KernelType
<1>2. x \in Live(p) /\ Lead(p, x) /\ \A l \in Procs : Lead(l, x) => l = p
  BY <1>1, OneLead DEF Loops, LoopOf, Live
<1>3. Open' = Open /\ \A l \in Procs, e \in Ends : Lead(l, e)' => Lead(l, e)
  BY <1>1 DEF Open, Lead
<1>4. \A l \in Procs, e \in Ends : Lead(l, e) => ~Drains(l, e) /\ ~Drains(l, e)'
  <2>1. \A q \in Procs : pc[q] # "electing" /\ (pc[q] = "draining" => todo[q] = {})
    BY <1>1 DEF DrainBuffers, DrainedFirst, Finished, Among, Greet
  <2> QED BY <1>1, <2>1 DEF Drains
<1>5. \A l \in Procs, e \in Ends : /\ Cookied(l, e)' <=> Cookied(l, e)
                                   /\ l # p \/ e \in Live(p) => (Heard(l, e)' <=> Heard(l, e))
                                   /\ l # p \/ e # x => (Greeted(l, e)' <=> Greeted(l, e))
  BY <1>1 DEF Heard, Greeted, Cookied
<1>6. \A e \in Ends : Lead(p, e) /\ type[e] # "ERROR" => e \in Live(p)
  BY <1>1, OneLead DEF Live
<1>7. ASSUME NEW e \in Ends, NEW l \in Procs, NEW m \in Procs, Peer[e] \in Open,
             Lead(l, e), Lead(m, Peer[e])
      PROVE  DrainPair(l, m, e)'
  <2>0. DrainPair(l, m, e) /\ (pc'[l] = "electing" => pc[l] = "electing")
    BY <1>1, <1>7 DEF DrainBuffers
  <2>1. Heard(l, e)' <=> Heard(l, e)
    BY <1>5, <1>6, <1>7, <2>0 DEF DrainPair
  <2>2. CASE Peer[e] # x
    <3>1. e # Peer[x]
      BY <2>2, PeerFacts
    <3> QED BY <1>1, <1>4, <1>5, <1>7, <2>0, <2>1, <2>2, <3>1, PeerFacts, DrainPairFrame
  <2>3. CASE Peer[e] = x
    <3>1. e = Peer[x] /\ m = p
      BY <1>2, <1>7, <2>3, PeerFacts
    <3>2. ~Greeted(m, Peer[e]) /\ Greeted(m, Peer[e])'
      BY <1>1, <2>3, <3>1 DEF Greeted
    <3>3. ~Heard(l, e) /\ kernel[e] = <<>>
      BY <1>4, <1>7, <2>0, <3>2 DEF DrainPair
    <3>4. kernel'[e] = <<Handshake(Peer[e])>>
      BY <1>1, <2>3, <3>1, <3>3
    <3> QED BY <1>1, <1>4, <1>5, <1>7, <2>0, <2>1, <3>2, <3>3, <3>4, PeerFacts DEF DrainPair
  <2> QED BY <2>2, <2>3
<1>8. ASSUME NEW e \in Ends, NEW l \in Procs, Peer[e] \notin Open, Lead(l, e) PROVE DrainDead(l, e)'
  <2>0. DrainDead(l, e) /\ (pc'[l] = "electing" => pc[l] = "electing")
    BY <1>1, <1>8 DEF DrainBuffers
  <2>1. e # Peer[x]
    BY <1>2, <1>8, OneLead, PeerFacts
  <2> QED BY <1>1, <1>4, <1>8, <2>0, <2>1, DrainDeadFrame
<1>9. DrainedFirst'
  <2>1. ASSUME NEW q \in Procs, pc'[q] = "draining" PROVE Finished(q)'
    <3>1. q # p /\ pc[q] = "draining" /\ todo'[q] = todo[q]
      BY <1>1, <2>1
    <3>2. Finished(q)
      BY <1>1, <3>1 DEF DrainBuffers, DrainedFirst
    <3> QED BY <1>1, <3>1, <3>2 DEF Finished, Led, Held
  <2> QED BY <2>1 DEF DrainedFirst
<1> QED BY <1>3, <1>7, <1>8, <1>9, PeerFacts DEF DrainBuffers

(* The handshake that is read is the peer's.                                *)
LEMMA RecvHandshakeStep ==
    ASSUME TypeOK, Phases, Loops, Elected, Among(Greet), DrainBuffers,
           NEW p \in Procs, NEW x \in Ends, RecvHandshake(p, x)
    PROVE  /\ DrainBuffers'
           /\ Peer[x] \in Open /\ kernel[x] = <<Handshake(Peer[x])>> /\ remotePeerId'[p][x] = Peer[x]
<1> LoopType /\ KernelType /\ ConType
  BY DEF TypeOK
<1>1. /\ UNCHANGED <<holders, locked, owner, pc, cookieDue, drained, disconnected, type>>
      /\ pc[p] = "greeted" /\ x \in todo[p] /\ kernel[x] # <<>>
      /\ \A l \in Procs \ {p} : todo'[l] = todo[l]
      /\ todo'[p] = todo[p] \ {x}
      /\ kernel'[x] = Tail(kernel[x])
      /\ \A e \in Ends \ {x} : kernel'[e] = kernel[e]
      /\ remotePeerId'[p][x] = Head(kernel[x]).from
      /\ \A l \in Procs, e \in Ends : l # p \/ e # x => remotePeerId'[l][e] = remotePeerId[l][e]
  BY DEF RecvHandshake, Done, appVars, drainVars, LoopType, KernelType, ConType
<1>2. x \in Live(p) /\ Lead(p, x) /\ (\A l \in Procs : Lead(l, x) => l = p) /\ type[x] # "ERROR"
  BY <1>1, OneLead DEF Loops, LoopOf, Live
<1>3. Open' = Open /\ \A l \in Procs, e \in Ends : Lead(l, e)' => Lead(l, e)
  BY <1>1 DEF Open, Lead
<1>4. \A l \in Procs, e \in Ends : /\ Drains(l, e)' <=> Drains(l, e)
                                   /\ Cookied(l, e)' <=> Cookied(l, e)
                                   /\ l # p \/ e # x => (Heard(l, e)' <=> Heard(l, e))
                                   /\ Greeted(l, e)' <=> Greeted(l, e)
  BY <1>1 DEF Drains, Heard, Greeted, Cookied
<1>5. ~Drains(p, x) /\ ~Heard(p, x) /\ Heard(p, x)'
  BY <1>1 DEF Drains, Heard
<1>6. Peer[x] \in Open
  BY <1>2, <1>5 DEF DrainBuffers, DrainDead
<1>7. PICK m \in Procs : Lead(m, Peer[x])
  BY <1>6, OneLead, PeerFacts
<1>8. DrainPair(p, m, x)
  BY <1>2, <1>6, <1>7 DEF DrainBuffers
<1>9. Greeted(m, Peer[x]) /\ kernel[x] = <<Handshake(Peer[x])>>
  BY <1>1, <1>5, <1>8 DEF DrainPair
<1>10. kernel'[x] = <<>> /\ remotePeerId'[p][x] = Peer[x]
  BY <1>1, <1>9, DataFacts
<1>11. ASSUME NEW e \in Ends, NEW l \in Procs, NEW n \in Procs, Peer[e] \in Open,
              Lead(l, e), Lead(n, Peer[e])
       PROVE  DrainPair(l, n, e)'
  <2>0. DrainPair(l, n, e)
    BY <1>11 DEF DrainBuffers
  <2>1. CASE e # x
    BY <1>1, <1>4, <2>0, <2>1, PeerFacts, DrainPairFrame
  <2>2. CASE e = x
    <3>1. l = p /\ n = m
      BY <1>2, <1>7, <1>11, <2>2, OneLead, PeerFacts
    <3> QED BY <1>1, <1>4, <1>5, <1>9, <1>10, <2>0, <2>2, <3>1, PeerFacts DEF DrainPair
  <2> QED BY <2>1, <2>2
<1>12. ASSUME NEW e \in Ends, NEW l \in Procs, Peer[e] \notin Open, Lead(l, e) PROVE DrainDead(l, e)'
  <2>1. DrainDead(l, e) /\ e # x
    BY <1>6, <1>12 DEF DrainBuffers
  <2> QED BY <1>1, <1>4, <2>1, DrainDeadFrame
<1>13. DrainedFirst'
  BY <1>1 DEF DrainBuffers, DrainedFirst, Finished, Led, Held
<1> QED BY <1>3, <1>6, <1>9, <1>10, <1>11, <1>12, <1>13, PeerFacts DEF DrainBuffers

(* Writing the image changes nothing of the sockets.                        *)
LEMMA WriteImageStep ==
    ASSUME TypeOK, Phases, Elected, DrainBuffers, NEW p \in Procs, WriteImage(p)
    PROVE  DrainBuffers'
<1> pc \in [Procs -> Stages]
  BY DEF TypeOK
<1>1. /\ UNCHANGED <<holders, locked, owner, cookieDue, kernel, drained, disconnected, type,
                     remotePeerId, todo>>
      /\ pc[p] = "greeted" /\ todo[p] = {} /\ pc'[p] = "checkpointed"
      /\ \A l \in Procs \ {p} : pc'[l] = pc[l]
  BY DEF WriteImage, Goto, appVars, conVars, drainVars, kernelVars, loopVars
<1>2. Open' = Open /\ \A l \in Procs, e \in Ends : Lead(l, e)' => Lead(l, e)
  BY <1>1 DEF Open, Lead
<1>3. \A l \in Procs, e \in Ends : /\ Drains(l, e)' <=> Drains(l, e)
                                   /\ Cookied(l, e)' <=> Cookied(l, e)
                                   /\ Heard(l, e)' <=> Heard(l, e)
                                   /\ Greeted(l, e)' <=> Greeted(l, e)
                                   /\ pc'[l] = "electing" => pc[l] = "electing"
  BY <1>1 DEF Drains, Heard, Greeted, Cookied
<1>4. ASSUME NEW e \in Ends, NEW l \in Procs, NEW m \in Procs, Peer[e] \in Open,
             Lead(l, e), Lead(m, Peer[e])
      PROVE  DrainPair(l, m, e)'
  <2>1. DrainPair(l, m, e)
    BY <1>4 DEF DrainBuffers
  <2> QED BY <1>1, <1>3, <2>1, PeerFacts, DrainPairFrame
<1>5. ASSUME NEW e \in Ends, NEW l \in Procs, Peer[e] \notin Open, Lead(l, e) PROVE DrainDead(l, e)'
  <2>1. DrainDead(l, e)
    BY <1>5 DEF DrainBuffers
  <2> QED BY <1>1, <1>3, <2>1, DrainDeadFrame
<1>6. DrainedFirst'
  <2>1. ASSUME NEW q \in Procs, pc'[q] = "draining" PROVE Finished(q)'
    <3>1. q # p /\ pc[q] = "draining"
      BY <1>1, <2>1
    <3>2. Finished(q)
      BY <1>1, <3>1 DEF DrainBuffers, DrainedFirst
    <3> QED BY <1>1, <3>2 DEF Finished, Led, Held
  <2> QED BY <2>1 DEF DrainedFirst
<1> QED BY <1>2, <1>4, <1>5, <1>6, PeerFacts DEF DrainBuffers

(* The drain begins with buffers that hold data only.                       *)
LEMMA DrainBegins ==
    ASSUME TypeOK, Among({"electing"}), Quiet, Known PROVE DrainBuffers
<1> KernelType
  BY DEF TypeOK
<1>1. \A l \in Procs, e \in Ends : Drains(l, e) /\ ~Cookied(l, e) /\ ~Heard(l, e) /\ pc[l] = "electing"
  BY DEF Among, Drains, Cookied, Heard
<1>2. ASSUME NEW e \in Ends PROVE Inbound(e) = kernel[e]
  <2>1. PICK k \in Seq(Item) : k = kernel[e]
    BY DEF KernelType
  <2>2. <<>> \o k = k
    BY ConcatEmptySeq
  <2> QED BY <2>1, <2>2 DEF Quiet, Inbound
<1>3. ASSUME NEW e \in Ends, NEW l \in Procs, NEW m \in Procs, Peer[e] \in Open PROVE DrainPair(l, m, e)
  BY <1>1, <1>2, <1>3, PeerFacts DEF DrainPair, Quiet, Known
<1>4. ASSUME NEW e \in Ends, NEW l \in Procs PROVE DrainDead(l, e)
  BY <1>1, <1>2 DEF DrainDead, Quiet
<1>5. DrainedFirst
  BY DEF DrainedFirst, Among
<1> QED BY <1>3, <1>4, <1>5 DEF DrainBuffers

(* The leaders come to the drain one after the other.                       *)
LEMMA BeginDrainStep ==
    ASSUME TypeOK, Phases, DrainBuffers, NEW p \in Procs, BeginDrain(p)
    PROVE  DrainBuffers'
<1> pc \in [Procs -> Stages] /\ LoopType /\ AppType /\ ConType
  BY DEF TypeOK
<1> DEFINE lead == {e \in Held(p) : owner[e] = p}
<1>1. /\ UNCHANGED <<holders, owner, kernel, drained, disconnected, type, remotePeerId>>
      /\ pc[p] = "electing" /\ pc'[p] = "draining" /\ todo'[p] = lead
      /\ \A l \in Procs \ {p} : pc'[l] = pc[l] /\ todo'[l] = todo[l]
      /\ cookieDue' = cookieDue \cup lead
      /\ locked' = (locked \ ({p} \X Held(p))) \cup ({p} \X lead)
  BY DEF BeginDrain, Loop, Goto, appVars, conVars, kernelVars, LoopType
<1>2. \A q \in Procs : pc[q] \in Drain
  BY DEF BeginDrain, Barrier, Drain
<1>3. \A e \in Ends : e \in lead <=> Lead(p, e)
  BY <1>1 DEF Lead, Held
<1>4. \A e \in Ends, l \in Procs : <<l, e>> \in locked' => IF l = p /\ e \in Held(p) THEN e \in lead ELSE <<l, e>> \in locked
  BY <1>1
<1>5. \A l \in Procs, e \in Ends : Lead(l, e)' => Lead(l, e)
  BY <1>1, <1>3, <1>4 DEF Lead, Held
<1>6. Open' = Open
  BY <1>1 DEF Open
<1>7. ASSUME NEW l \in Procs, NEW e \in Ends, Lead(l, e) PROVE Cookied(l, e)' <=> Cookied(l, e)
  <2>1. CASE l = p
    BY <1>1, <1>3, <1>7, <2>1 DEF Cookied
  <2>2. CASE l # p /\ pc[l] = "electing"
    BY <1>1, <2>2 DEF Cookied
  <2>3. CASE l # p /\ pc[l] = "draining"
    <3>1. Elected
      BY <2>3, WhereTheyAre
    <3>2. e \notin lead
      BY <1>3, <1>7, <2>3, <3>1, OneLead
    <3> QED BY <1>1, <2>3, <3>2 DEF Cookied
  <2> QED BY <1>2, <2>1, <2>2, <2>3 DEF Drain
<1>8. ASSUME NEW l \in Procs, NEW e \in Ends, Lead(l, e) PROVE Drains(l, e)' <=> Drains(l, e)
  BY <1>1, <1>3, <1>8 DEF Drains
<1>9. \A l \in Procs, e \in Ends : /\ ~Heard(l, e)' /\ ~Heard(l, e) /\ ~Greeted(l, e)' /\ ~Greeted(l, e)
                                   /\ pc'[l] = "electing" => pc[l] = "electing"
  BY <1>1, <1>2 DEF Heard, Greeted, Drain
<1>10. ASSUME NEW e \in Ends, NEW l \in Procs, NEW m \in Procs, Peer[e] \in Open,
             Lead(l, e), Lead(m, Peer[e])
      PROVE  DrainPair(l, m, e)'
  <2>1. DrainPair(l, m, e)
    BY <1>10 DEF DrainBuffers
  <2> QED BY <1>1, <1>7, <1>8, <1>9, <1>10, <2>1, PeerFacts, DrainPairFrame
<1>11. ASSUME NEW e \in Ends, NEW l \in Procs, Peer[e] \notin Open, Lead(l, e) PROVE DrainDead(l, e)'
  <2>1. DrainDead(l, e)
    BY <1>11 DEF DrainBuffers
  <2> QED BY <1>1, <1>8, <1>9, <1>11, <2>1, DrainDeadFrame
<1>12. DrainedFirst'
  BY <1>1, <1>2 DEF DrainedFirst, Drain
<1> QED BY <1>5, <1>6, <1>10, <1>11, <1>12, PeerFacts DEF DrainBuffers
------------------------------------------------------------------------------
(* Steps that write nothing to a socket in use.                             *)
LEMMA RefillKept ==
    ASSUME TypeOK, Elected, RefillBuffers, UNCHANGED <<holders, locked, type, remotePeerId, drained>>,
           \A l \in Procs : pc[l] # "electing" /\ pc'[l] # "electing",
           \A e \in Ends : kernel'[e] = kernel[e] \/ (type[e] = "ERROR" /\ kernel'[e] \in Seq(DataFor(e))),
           \A e \in Ends : disconnected'[e] \in {disconnected[e], <<>>},
           \A l \in Procs : pc'[l] = "restarting" => pc[l] = "restarting",
           \A l \in Procs : \A e \in Led(l) : pc'[l] \in {"sharing", "refilled"} => disconnected'[e] = <<>>,
           \A l \in Procs : \A e \in Live(l) :
               /\ Emptied(l, e)' => Emptied(l, e)
               /\ Opened(l, e)' <=> Opened(l, e)
               /\ Headed(l, e)' <=> Headed(l, e)
               /\ (IF cur'[l] = e THEN left'[l] ELSE 0) = (IF cur[l] = e THEN left[l] ELSE 0)
    PROVE  RefillBuffers'
<1>1. Open' = Open
  BY DEF Open
<1>2. \A l \in Procs, e \in Ends : /\ Lead(l, e)' => Lead(l, e)
                                   /\ Lead(l, e) => e \in Led(l)
                                   /\ Lead(l, e) /\ type[e] # "ERROR" => e \in Live(l)
  BY DEF Lead, Led, Held, Live
<1>3. ASSUME NEW e \in Ends, NEW l \in Procs, NEW m \in Procs, Peer[e] \in Open, Lead(l, e), Lead(m, Peer[e])
      PROVE  RefillPair(l, m, e)'
  <2>1. RefillPair(l, m, e) /\ RefillPair(m, l, Peer[e])
    BY <1>3, OneLead, PeerFacts DEF RefillBuffers
  <2>2. e \in Live(l) /\ Peer[e] \in Live(m) /\ kernel'[e] = kernel[e]
    BY <1>2, <1>3, <2>1, PeerFacts DEF RefillPair
  <2>3. drained'[e] \in Seq(DataFor(e)) /\ (Emptied(l, e)' => drained'[e] = <<>>)
    BY <2>1, <2>2 DEF RefillPair
  <2> QED BY <2>1, <2>2, <2>3, RefillPairFrame
<1>4. ASSUME NEW e \in Ends, NEW l \in Procs, Peer[e] \notin Open, Lead(l, e) PROVE RefillDead(l, e)'
  <2>1. RefillDead(l, e)
    BY <1>4 DEF RefillBuffers
  <2>2. <<>> \in Seq(DataFor(e))
    BY EmptySeq
  <2> QED BY <2>1, <2>2 DEF RefillDead
<1>5. \A e \in Ends, l \in Procs : Lead(l, e) /\ pc'[l] \in {"sharing", "refilled"} => disconnected'[e] = <<>>
  BY <1>2
<1> QED BY <1>1, <1>2, <1>3, <1>4, <1>5, PeerFacts DEF RefillBuffers

(* The steps of a restart up to the connections, and the sharing.           *)
LEMMA ReconnectStep ==
    ASSUME TypeOK, Phases, Loops, Elected, PuttingBack, RefillBuffers, NEW p \in Procs, CkptThread(p),
           \/ PostRestart(p) \/ RegisterNSData(p) \/ SendQueries(p) \/ FdsShared(p)
           \/ BeginRefill(p) \/ RestoreOptions(p)
           \/ \E e \in Ends : Connect(p, e) \/ Accept(p, e) \/ ReceiveFd(p, e)
           \/ \E e \in Ends, q \in Procs : SendFd(p, q, e)
    PROVE  RefillBuffers'
<1> LoopType /\ pc \in [Procs -> Stages] /\ KernelType /\ DrainType
  BY DEF TypeOK
<1>1. \A l \in Procs \ {p} : /\ pc'[l] = pc[l] /\ todo'[l] = todo[l]
                             /\ cur'[l] = cur[l] /\ left'[l] = left[l]
  BY OtherLoops
<1>2. \A l \in Procs : pc[l] # "electing"
  BY DEF PuttingBack, Among, Back, Again, Refilling
<1> DEFINE Same(l, e) == /\ Emptied(l, e)' => Emptied(l, e)
                         /\ Opened(l, e)' <=> Opened(l, e)
                         /\ Headed(l, e)' <=> Headed(l, e)
                         /\ (IF cur'[l] = e THEN left'[l] ELSE 0) = (IF cur[l] = e THEN left[l] ELSE 0)
<1>3. \A l \in Procs \ {p} : \A e \in Live(l) : Same(l, e)
  BY <1>1 DEF Emptied, Opened, Headed
<1>4. \A l \in Procs : \A e \in Led(l) : pc[l] \in {"sharing", "refilled"} => disconnected[e] = <<>>
  BY <1>2 DEF RefillBuffers, Lead, Led, Held
<1>5. CASE PostRestart(p)
  <2>1. /\ UNCHANGED <<holders, locked, type, remotePeerId, drained, disconnected, todo, cur, left>>
        /\ pc[p] = "restarting" /\ pc'[p] = "restored"
    BY <1>5 DEF PostRestart, Goto, appVars, conVars, drainVars, loopVars
  <2>2. ASSUME NEW e \in Ends
        PROVE  kernel'[e] = kernel[e] \/ (type[e] = "ERROR" /\ kernel'[e] \in Seq(DataFor(e)))
    <3>1. CASE e \in Led(p) /\ type[e] = "ERROR"
      <4>1. kernel'[e] = disconnected[e] /\ Lead(p, e)
        BY <1>2, <1>5, <3>1, OneLead DEF PostRestart
      <4>2. disconnected[e] \in Seq(DataFor(e))
        <5>1. CASE Peer[e] \in Open
          <6>1. PICK m \in Procs : Lead(m, Peer[e])
            BY <5>1, OneLead, PeerFacts
          <6> QED BY <3>1, <4>1, <5>1, <6>1 DEF RefillBuffers, RefillPair
        <5>2. CASE Peer[e] \notin Open
          BY <2>1, <4>1, <5>2 DEF RefillBuffers, RefillDead
        <5> QED BY <5>1, <5>2
      <4> QED BY <3>1, <4>1, <4>2
    <3>2. CASE ~(e \in Led(p) /\ type[e] = "ERROR")
      BY <1>5, <3>2 DEF PostRestart
    <3> QED BY <3>1, <3>2
  <2>3. \A e \in Live(p) : Same(p, e)
    BY <2>1 DEF Emptied, Opened, Headed
  <2>4. \A l \in Procs : /\ pc'[l] # "electing"
                         /\ pc'[l] = "restarting" => pc[l] = "restarting"
                         /\ pc'[l] \in {"sharing", "refilled"} => pc[l] \in {"sharing", "refilled"}
    BY <1>1, <1>2, <2>1
  <2> QED BY <1>2, <1>3, <1>4, <2>1, <2>2, <2>3, <2>4, RefillKept
<1>6. CASE RegisterNSData(p) \/ \E e \in Ends : ReceiveFd(p, e) \/ \E q \in Procs : SendFd(p, q, e)
  <2>1. /\ UNCHANGED <<holders, locked, type, remotePeerId, drained, disconnected, kernel, todo, cur, left>>
        /\ pc' = pc \/ (pc[p] = "restored" /\ pc'[p] = "registered")
    BY <1>6 DEF RegisterNSData, ReceiveFd, SendFd, Goto, appVars, conVars, drainVars, loopVars, kernelVars
  <2>3. \A e \in Live(p) : Same(p, e)
    BY <2>1 DEF Emptied, Opened, Headed
  <2>4. \A l \in Procs : /\ pc'[l] # "electing"
                         /\ pc'[l] = "restarting" => pc[l] = "restarting"
                         /\ pc'[l] \in {"sharing", "refilled"} => pc[l] \in {"sharing", "refilled"}
    BY <1>1, <1>2, <2>1
  <2> QED BY <1>2, <1>3, <1>4, <2>1, <2>3, <2>4, RefillKept
<1>7. CASE SendQueries(p) \/ \E e \in Ends : Connect(p, e) \/ Accept(p, e)
  <2>1. /\ UNCHANGED <<holders, locked, type, remotePeerId, drained, disconnected, kernel, cur, left>>
        /\ pc[p] \in {"registered", "connecting"} /\ pc'[p] = "connecting"
    BY <1>7 DEF SendQueries, Connect, Accept, Loop, Goto, appVars, conVars, drainVars, kernelVars
  <2>3. \A e \in Live(p) : Same(p, e)
    BY <2>1 DEF Emptied, Opened, Headed
  <2>4. \A l \in Procs : /\ pc'[l] # "electing"
                         /\ pc'[l] = "restarting" => pc[l] = "restarting"
                         /\ pc'[l] \in {"sharing", "refilled"} => pc[l] \in {"sharing", "refilled"}
    BY <1>1, <1>2, <2>1
  <2> QED BY <1>2, <1>3, <1>4, <2>1, <2>3, <2>4, RefillKept
<1>8. CASE BeginRefill(p)
  <2>1. /\ UNCHANGED <<holders, locked, type, remotePeerId, drained, disconnected, kernel, cur, left>>
        /\ pc[p] \in {"checkpointed", "connecting"} /\ todo'[p] = Live(p)
        /\ pc'[p] = (IF Live(p) = {} THEN "echoing" ELSE "writing")
    BY <1>8 DEF BeginRefill, Loop, Goto, appVars, conVars, drainVars, kernelVars, LoopType
  <2>2. cur[p] = None
    BY <2>1 DEF Loops, LoopOf
  <2>3. \A e \in Live(p) : Same(p, e)
    BY <2>1, <2>2, SocketsAssumption DEF Emptied, Opened, Headed, Live, Led, Held
  <2>4. \A l \in Procs : /\ pc'[l] # "electing"
                         /\ pc'[l] = "restarting" => pc[l] = "restarting"
                         /\ pc'[l] \in {"sharing", "refilled"} => pc[l] \in {"sharing", "refilled"}
    BY <1>1, <1>2, <2>1
  <2> QED BY <1>2, <1>3, <1>4, <2>1, <2>3, <2>4, RefillKept
<1>9. CASE FdsShared(p)
  <2>1. /\ UNCHANGED <<holders, locked, type, remotePeerId, drained, disconnected, kernel, cur, left>>
        /\ pc[p] = "sharing" /\ pc'[p] = "refilled"
    BY <1>9 DEF FdsShared, Loop, Goto, appVars, conVars, drainVars, kernelVars
  <2>3. \A e \in Live(p) : Same(p, e)
    BY <2>1 DEF Emptied, Opened, Headed
  <2>4. \A l \in Procs : /\ pc'[l] # "electing"
                         /\ pc'[l] = "restarting" => pc[l] = "restarting"
                         /\ pc'[l] \in {"sharing", "refilled"} => pc[l] \in {"sharing", "refilled"}
    BY <1>1, <1>2, <2>1
  <2> QED BY <1>2, <1>3, <1>4, <2>1, <2>3, <2>4, RefillKept
<1>10. CASE RestoreOptions(p)
  <2>1. /\ UNCHANGED <<holders, locked, type, remotePeerId, drained, kernel, cur, left>>
        /\ pc[p] = "echoing" /\ todo[p] = {} /\ pc'[p] \in {"sharing", "refilled"}
        /\ \A e \in Ends : disconnected'[e] = IF e \in Led(p) THEN <<>> ELSE disconnected[e]
    BY <1>10 DEF RestoreOptions, Loop, Goto, appVars, conVars, drainVars, kernelVars
  <2>3. \A e \in Live(p) : Same(p, e)
    BY <2>1 DEF Emptied, Opened, Headed
  <2>4. \A l \in Procs : /\ pc'[l] # "electing"
                         /\ pc'[l] = "restarting" => pc[l] = "restarting"
    BY <1>1, <1>2, <2>1
  <2>5. \A l \in Procs : \A e \in Led(l) : e \in Ends
    BY DEF Led, Held
  <2>6. \A l \in Procs : \A e \in Led(l) : pc'[l] \in {"sharing", "refilled"} => disconnected'[e] = <<>>
    BY <1>1, <1>4, <2>1, <2>5
  <2> QED BY <1>2, <1>3, <2>1, <2>3, <2>4, <2>6, RefillKept
<1> QED BY <1>5, <1>6, <1>7, <1>8, <1>9, <1>10
------------------------------------------------------------------------------
(* A step of the refill by p that reads or writes the buffer of one end, t. *)
LEMMA RefillTouches ==
    ASSUME TypeOK, Elected, RefillBuffers, UNCHANGED <<holders, locked, type, remotePeerId, disconnected>>,
           NEW p \in Procs, pc'[p] \in {"writing", "echoing"},
           \A l \in Procs : pc[l] # "electing",
           \A l \in Procs \ {p} : /\ pc'[l] = pc[l] /\ todo'[l] = todo[l]
                                  /\ cur'[l] = cur[l] /\ left'[l] = left[l],
           NEW t \in Ends, t \in Open, Peer[t] \in Open,
           \A e \in Ends \ {t} : kernel'[e] = kernel[e],
           \A e \in Ends : \/ drained'[e] = drained[e]
                           \/ e = Peer[t] /\ e \in Live(p) /\ drained'[e] \in Seq(DataFor(e)),
           \A e \in Live(p) :
               /\ Emptied(p, e)' => drained'[e] = <<>> \/ (Emptied(p, e) /\ drained'[e] = drained[e])
               /\ e # t => /\ Opened(p, e)' <=> Opened(p, e)
                           /\ (IF cur'[p] = e THEN left'[p] ELSE 0) = (IF cur[p] = e THEN left[p] ELSE 0)
               /\ e # Peer[t] => (Headed(p, e)' <=> Headed(p, e)),
           \A l, m \in Procs : Lead(l, t) /\ Lead(m, Peer[t]) /\ RefillPair(l, m, t) => RefillPair(l, m, t)'
    PROVE  RefillBuffers'
<1>1. Open' = Open
  BY DEF Open
<1>2. \A l \in Procs, e \in Ends : /\ Lead(l, e)' => Lead(l, e)
                                   /\ Lead(l, e) => e \in Led(l)
                                   /\ Lead(l, e) /\ type[e] # "ERROR" => e \in Live(l)
                                   /\ e \in Live(l) => Lead(l, e)
  BY DEF Lead, Led, Held, Live
<1>3. \A l \in Procs \ {p} : \A e \in Ends : /\ Emptied(l, e)' <=> Emptied(l, e)
                                             /\ Opened(l, e)' <=> Opened(l, e)
                                             /\ Headed(l, e)' <=> Headed(l, e)
  BY DEF Emptied, Opened, Headed
<1>4. ASSUME NEW e \in Ends, NEW l \in Procs, NEW m \in Procs, Peer[e] \in Open, Lead(l, e), Lead(m, Peer[e]),
             e # t
      PROVE  RefillPair(l, m, e)'
  <2>1. RefillPair(l, m, e) /\ RefillPair(m, l, Peer[e])
    BY <1>4, OneLead, PeerFacts DEF RefillBuffers
  <2>2. e \in Live(l) /\ Peer[e] \in Live(m) /\ Peer[e] \in Ends /\ Peer[e] # Peer[t]
    BY <1>2, <1>4, <2>1, PeerFacts DEF RefillPair
  <2>3. kernel'[e] = kernel[e] /\ drained'[Peer[e]] = drained[Peer[e]]
    BY <1>4, <2>2
  <2>4. drained'[e] \in Seq(DataFor(e))
    BY <2>1 DEF RefillPair
  <2>5. Emptied(l, e)' => drained'[e] = <<>>
    <3>1. CASE l = p
      BY <2>1, <2>2, <3>1 DEF RefillPair
    <3>2. CASE l # p
      <4>1. drained'[e] = drained[e]
        BY <1>2, <1>4, <3>2, OneLead
      <4> QED BY <1>3, <2>1, <3>2, <4>1 DEF RefillPair
    <3> QED BY <3>1, <3>2
  <2>6. /\ Opened(l, e)' <=> Opened(l, e)
        /\ Opened(l, e) => (IF cur'[l] = e THEN left'[l] ELSE 0) = (IF cur[l] = e THEN left[l] ELSE 0)
    BY <1>3, <1>4, <2>2
  <2>7. Headed(m, Peer[e])' <=> Headed(m, Peer[e])
    BY <1>3, <2>2
  <2> QED BY <2>1, <2>3, <2>4, <2>5, <2>6, <2>7, RefillPairFrame
<1>5. ASSUME NEW l \in Procs, NEW m \in Procs, Lead(l, t), Lead(m, Peer[t]) PROVE RefillPair(l, m, t)'
  BY <1>5 DEF RefillBuffers
<1>6. ASSUME NEW e \in Ends, NEW l \in Procs, Peer[e] \notin Open, Lead(l, e) PROVE RefillDead(l, e)'
  <2>1. RefillDead(l, e)
    BY <1>6 DEF RefillBuffers
  <2>2. e # t /\ e # Peer[t]
    BY <1>6, PeerFacts
  <2>3. pc'[l] = "restarting" => pc[l] = "restarting"
    OBVIOUS
  <2> QED BY <2>1, <2>2, <2>3, RefillDeadFrame
<1>7. \A e \in Ends, l \in Procs : Lead(l, e) /\ pc'[l] \in {"sharing", "refilled"} => disconnected'[e] = <<>>
  BY DEF RefillBuffers
<1> QED BY <1>1, <1>2, <1>4, <1>5, <1>6, <1>7, PeerFacts DEF RefillBuffers

(* A leader puts back to sockets in use only, and their peers are led too.  *)
LEMMA InUse ==
    ASSUME TypeOK, Elected, RefillBuffers, NEW p \in Procs, pc[p] # "electing", NEW x \in Live(p)
    PROVE  /\ x \in Ends /\ x \in Open /\ Peer[x] \in Open /\ Lead(p, x)
           /\ \A l \in Procs : Lead(l, x) => l = p
<1>1. x \in Ends /\ x \in Open /\ Lead(p, x)
  BY OneLead DEF Live, Led, Held, Lead
<1>2. Peer[x] \in Open
  BY <1>1 DEF RefillBuffers, RefillDead, Live
<1> QED BY <1>1, <1>2, OneLead

(* The two loops of the refill, as their steps change them.                 *)
LEMMA WrittenFacts ==
    ASSUME TypeOK, Loops, NEW p \in Procs, pc[p] = "writing", NEW x \in todo[p], cur[p] \in {None, x},
           NEW rest, Written(p, x, rest), left' = left
    PROVE  /\ pc'[p] \in {"writing", "echoing"} /\ \A l \in Procs \ {p} : pc'[l] = pc[l] /\ todo'[l] = todo[l]
                                                                        /\ cur'[l] = cur[l]
           /\ Headed(p, x)'
           /\ \A e \in Live(p) : /\ Emptied(p, e)' => Emptied(p, e) \/ (e = x /\ rest = <<>>)
                                 /\ ~Opened(p, e) /\ ~Opened(p, e)'
                                 /\ (IF cur'[p] = e THEN left'[p] ELSE 0) = (IF cur[p] = e THEN left[p] ELSE 0)
                                 /\ e # x => (Headed(p, e)' <=> Headed(p, e))
<1> LoopType /\ pc \in [Procs -> Stages]
  BY DEF TypeOK
<1>1. left[p] = 0
  BY DEF Loops, LoopOf
<1>2. \A e \in Live(p) : e # None
  BY SocketsAssumption DEF Live, Led, Held
<1>3. x \in Live(p) /\ x # None
  BY <1>2 DEF Loops, LoopOf
<1>4. CASE rest # <<>>
  <2>1. pc' = pc /\ todo' = todo /\ cur' = [cur EXCEPT ![p] = x]
    BY <1>4 DEF Written
  <2> QED BY <1>1, <1>2, <1>3, <2>1 DEF Headed, Emptied, Opened, LoopType
<1>5. CASE rest = <<>> /\ todo[p] = {x}
  <2>1. /\ pc' = [pc EXCEPT ![p] = "echoing"] /\ todo' = [todo EXCEPT ![p] = Live(p)]
        /\ cur' = [cur EXCEPT ![p] = None]
    BY <1>5 DEF Written, DoneThen, Loop, Goto
  <2> QED BY <1>1, <1>2, <1>3, <1>5, <2>1 DEF Headed, Emptied, Opened, LoopType
<1>6. CASE rest = <<>> /\ todo[p] # {x}
  <2>1. /\ pc' = pc /\ todo' = [todo EXCEPT ![p] = @ \ {x}]
        /\ cur' = [cur EXCEPT ![p] = None]
    BY <1>6 DEF Written, DoneThen, Done
  <2> QED BY <1>1, <1>2, <1>3, <1>6, <2>1 DEF Headed, Emptied, Opened, LoopType
<1> QED BY <1>4, <1>5, <1>6

(* The second loop.                                                         *)
LEMMA EchoedFacts ==
    ASSUME TypeOK, Loops, NEW p \in Procs, pc[p] = "echoing", NEW x \in todo[p], cur[p] \in {None, x},
           NEW n \in Nat, NEW rest, Echoed(p, x, n, rest), pc' = pc, \A l \in Procs \ {p} : left'[l] = left[l],
           left'[p] = n
    PROVE  /\ \A l \in Procs \ {p} : pc'[l] = pc[l] /\ todo'[l] = todo[l] /\ cur'[l] = cur[l]
           /\ \A e \in Ends : Headed(p, e) /\ Headed(p, e)' /\ Emptied(p, e)
           /\ Opened(p, x)' /\ (Opened(p, x) <=> cur[p] = x)
           /\ (IF cur'[p] = x THEN left'[p] ELSE 0) = n
           /\ \A e \in Live(p) : e # x =>
                 /\ Opened(p, e)' <=> Opened(p, e)
                 /\ (IF cur'[p] = e THEN left'[p] ELSE 0) = (IF cur[p] = e THEN left[p] ELSE 0)
<1> LoopType
  BY DEF TypeOK
<1>1. \A e \in Live(p) : e # None
  BY SocketsAssumption DEF Live, Led, Held
<1>2. x \in Live(p) /\ x # None
  BY <1>1 DEF Loops, LoopOf
<1>3. CASE ~(n = 0 /\ rest = <<>>)
  <2>1. todo' = todo /\ cur' = [cur EXCEPT ![p] = x]
    BY <1>3 DEF Echoed
  <2> QED BY <1>1, <1>2, <2>1 DEF Headed, Emptied, Opened, LoopType
<1>4. CASE n = 0 /\ rest = <<>>
  <2>1. todo' = [todo EXCEPT ![p] = @ \ {x}] /\ cur' = [cur EXCEPT ![p] = None]
    BY <1>4 DEF Echoed, Done
  <2> QED BY <1>1, <1>2, <1>4, <2>1 DEF Headed, Emptied, Opened, LoopType
<1> QED BY <1>3, <1>4

(* The header is the first that is written.                                 *)
LEMMA RefillHeaderStep ==
    ASSUME TypeOK, Loops, Elected, PuttingBack, RefillBuffers, NEW p \in Procs, NEW x \in Ends,
           RefillHeader(p, x)
    PROVE  RefillBuffers'
<1> LoopType /\ KernelType /\ DrainType
  BY DEF TypeOK
<1>1. /\ UNCHANGED <<holders, locked, type, remotePeerId, disconnected, drained, left>>
      /\ pc[p] = "writing" /\ x \in todo[p] /\ cur[p] = None /\ Written(p, x, drained[x])
  BY DEF RefillHeader, IsNext, appVars, conVars, drainVars
<1>2. \A l \in Procs : pc[l] # "electing"
  BY DEF PuttingBack, Among, Back, Again, Refilling
<1>3. x \in Live(p)
  BY <1>1 DEF Loops, LoopOf
<1>4. PICK t \in Ends : t = Peer[x] /\ Peer[t] = x
  BY PeerFacts
<1>5. t \in Open /\ Peer[t] \in Open /\ \A l \in Procs : Lead(l, x) => l = p
  BY <1>1, <1>3, <1>4, InUse
<1>6. /\ kernel'[t] = Append(kernel[t], Refill(Len(drained[x])))
      /\ \A e \in Ends \ {t} : kernel'[e] = kernel[e]
  BY <1>4 DEF RefillHeader, Write, KernelType
<1>7. /\ pc'[p] \in {"writing", "echoing"}
      /\ \A l \in Procs \ {p} : pc'[l] = pc[l] /\ todo'[l] = todo[l] /\ cur'[l] = cur[l]
      /\ Headed(p, x)'
      /\ \A e \in Live(p) : /\ Emptied(p, e)' => Emptied(p, e) \/ (e = x /\ drained[x] = <<>>)
                            /\ ~Opened(p, e) /\ ~Opened(p, e)'
                            /\ (IF cur'[p] = e THEN left'[p] ELSE 0) = (IF cur[p] = e THEN left[p] ELSE 0)
                            /\ e # x => (Headed(p, e)' <=> Headed(p, e))
  BY <1>1, WrittenFacts
<1>8. ~Headed(p, x)
  BY <1>1, <1>3, SocketsAssumption DEF Headed
<1>9. ASSUME NEW l \in Procs, NEW m \in Procs, Lead(l, t), Lead(m, Peer[t]), RefillPair(l, m, t)
      PROVE  RefillPair(l, m, t)'
  <2>1. m = p /\ kernel[t] = <<>> /\ ~Opened(l, t)
    BY <1>4, <1>5, <1>8, <1>9 DEF RefillPair
  <2>2. t \in Live(l)
    BY <1>2, <1>9 DEF RefillPair, Lead, Live, Led, Held
  <2>3. ~Opened(l, t)' /\ (Emptied(l, t)' => Emptied(l, t) \/ (t = x /\ drained[x] = <<>>))
    <3>1. CASE l = p
      BY <1>7, <2>2, <3>1
    <3>2. CASE l # p
      BY <1>7, <2>1, <3>2 DEF Opened, Emptied
    <3> QED BY <3>1, <3>2
  <2>4. PICK n \in Nat : n = Len(drained[x])
    BY LenProperties DEF DrainType
  <2>5. kernel'[t] # <<>> /\ Head(kernel'[t]) = Refill(n) /\ Tail(kernel'[t]) = <<>>
    BY <1>6, <2>1, <2>4
  <2>6. Head(kernel'[t]).kind = "REFILL" /\ Head(kernel'[t]).extraBytes - Len(drained'[x]) = 0
    BY <1>1, <2>4, <2>5, DataFacts
  <2>7. Split(Tail(kernel'[t]), Head(kernel'[t]).extraBytes - Len(drained'[x]), drained'[x], t)
    BY <2>5, <2>6, SplitEmpty
  <2>8. drained'[t] \in Seq(DataFor(t)) /\ (Emptied(l, t)' => drained'[t] = <<>>)
    BY <1>1, <1>9, <2>3 DEF RefillPair
  <2>9. type'[t] # "ERROR" /\ remotePeerId'[l][t] = Peer[t]
    BY <1>1, <1>9 DEF RefillPair
  <2> QED BY <1>4, <1>7, <2>1, <2>3, <2>5, <2>6, <2>7, <2>8, <2>9 DEF RefillPair
<1>10. \A e \in Live(p) :
               /\ Emptied(p, e)' => drained'[e] = <<>> \/ (Emptied(p, e) /\ drained'[e] = drained[e])
               /\ e # t => /\ Opened(p, e)' <=> Opened(p, e)
                           /\ (IF cur'[p] = e THEN left'[p] ELSE 0) = (IF cur[p] = e THEN left[p] ELSE 0)
               /\ e # Peer[t] => (Headed(p, e)' <=> Headed(p, e))
  BY <1>1, <1>4, <1>7
<1> QED BY <1>1, <1>2, <1>5, <1>6, <1>7, <1>9, <1>10, RefillTouches

(* What was drained follows its header.                                     *)
LEMMA RefillDataStep ==
    ASSUME TypeOK, Loops, Elected, PuttingBack, RefillBuffers, NEW p \in Procs, RefillData(p)
    PROVE  RefillBuffers'
<1> LoopType /\ KernelType /\ DrainType
  BY DEF TypeOK
<1>1. PICK x \in Ends : x = cur[p] /\ x \in todo[p]
  BY DEF RefillData, Loops, LoopOf, LoopType
<1>2. /\ UNCHANGED <<holders, locked, type, remotePeerId, disconnected, left>>
      /\ pc[p] = "writing" /\ cur[p] \in {None, x} /\ Written(p, x, Tail(drained[x]))
  BY <1>1 DEF RefillData, appVars, conVars
<1>3. \A l \in Procs : pc[l] # "electing"
  BY DEF PuttingBack, Among, Back, Again, Refilling
<1>4. x \in Live(p) /\ drained[x] # <<>>
  BY <1>1, <1>2, SocketsAssumption DEF Loops, LoopOf
<1>5. PICK t \in Ends : t = Peer[x] /\ Peer[t] = x /\ t # x
  BY PeerFacts
<1>6. t \in Open /\ Peer[t] \in Open /\ Lead(p, x) /\ \A l \in Procs : Lead(l, x) => l = p
  BY <1>2, <1>4, <1>5, InUse
<1>7. PICK d \in Seq(Item) : d = drained[x]
  BY DEF DrainType
<1>8. /\ kernel'[t] = Append(kernel[t], Head(d)) /\ \A e \in Ends \ {t} : kernel'[e] = kernel[e]
      /\ drained'[x] = Tail(d) /\ \A e \in Ends \ {x} : drained'[e] = drained[e]
  BY <1>1, <1>5, <1>7 DEF RefillData, Write, KernelType, DrainType
<1>9. d \in Seq(DataFor(x))
  <2>1. PICK l \in Procs : Lead(l, t)
    BY <1>6, OneLead
  <2> QED BY <1>5, <1>6, <1>7, <2>1 DEF RefillBuffers, RefillPair
<1>10. Head(d) \in DataFor(x) /\ Head(d) \in Item /\ Tail(d) \in Seq(DataFor(x))
  BY <1>4, <1>7, <1>9, HeadTailProperties
<1>11. PICK u \in Nat : Len(d) = u /\ Len(Tail(d)) = u - 1
  BY <1>4, <1>7, HeadTailProperties, LenProperties
<1>12. /\ pc'[p] \in {"writing", "echoing"}
       /\ \A l \in Procs \ {p} : pc'[l] = pc[l] /\ todo'[l] = todo[l] /\ cur'[l] = cur[l]
       /\ Headed(p, x)'
       /\ \A e \in Live(p) : /\ Emptied(p, e)' => Emptied(p, e) \/ (e = x /\ Tail(d) = <<>>)
                             /\ ~Opened(p, e) /\ ~Opened(p, e)'
                             /\ (IF cur'[p] = e THEN left'[p] ELSE 0) = (IF cur[p] = e THEN left[p] ELSE 0)
                             /\ e # x => (Headed(p, e)' <=> Headed(p, e))
  BY <1>1, <1>2, <1>7, WrittenFacts
<1>13. Headed(p, x) /\ ~Emptied(p, x)
  BY <1>1, <1>2 DEF Headed, Emptied
<1>14. ASSUME NEW l \in Procs, NEW m \in Procs, Lead(l, t), Lead(m, Peer[t]), RefillPair(l, m, t)
       PROVE  RefillPair(l, m, t)'
  <2>1. m = p /\ Headed(m, Peer[t]) /\ Headed(m, Peer[t])'
    BY <1>5, <1>6, <1>12, <1>13, <1>14
  <2>2. t \in Live(l)
    BY <1>3, <1>14 DEF RefillPair, Lead, Live, Led, Held
  <2>3. /\ Opened(l, t)' <=> Opened(l, t)
        /\ Emptied(l, t)' => Emptied(l, t)
        /\ (IF cur'[l] = t THEN left'[l] ELSE 0) = (IF cur[l] = t THEN left[l] ELSE 0)
    <3>1. CASE l = p
      BY <1>5, <1>12, <2>2, <3>1
    <3>2. CASE l # p
      BY <1>2, <1>12, <3>2 DEF Opened, Emptied
    <3> QED BY <3>1, <3>2
  <2>4. PICK k \in Seq(Item) : k = kernel[t]
    BY DEF KernelType
  <2>5. /\ drained'[t] \in Seq(DataFor(t)) /\ (Emptied(l, t)' => drained'[t] = <<>>)
        /\ type'[t] # "ERROR" /\ remotePeerId'[l][t] = Peer[t]
    BY <1>2, <1>5, <1>8, <1>14, <2>3 DEF RefillPair
  <2>6. CASE ~Opened(l, t)
    <3>1. /\ k # <<>> /\ Head(k).kind = "REFILL"
          /\ Split(Tail(k), Head(k).extraBytes - Len(d), d, t)
      BY <1>5, <1>7, <1>14, <2>1, <2>4, <2>6 DEF RefillPair
    <3>2. Head(k) \in Item /\ Tail(k) \in Seq(Item)
      BY <3>1, HeadTailProperties
    <3>3. PICK b \in Nat : b = Head(k).extraBytes
      BY <3>1, <3>2, ItemFacts
    <3>4. Append(k, Head(d)) # <<>> /\ Head(Append(k, Head(d))) = Head(k)
          /\ Tail(Append(k, Head(d))) = Append(Tail(k), Head(d))
      BY <1>10, <3>1, AppendFirst, AppendLast
    <3>5. Split(Append(Tail(k), Head(d)), b - Len(d) + 1, Tail(d), t)
      BY <1>4, <1>5, <1>7, <1>10, <3>1, <3>2, <3>3, SplitForeign
    <3>6. b - u + 1 = b - (u - 1)
      OBVIOUS
    <3>7. /\ kernel'[t] # <<>> /\ Head(kernel'[t]).kind = "REFILL"
          /\ Split(Tail(kernel'[t]), Head(kernel'[t]).extraBytes - Len(drained'[Peer[t]]), drained'[Peer[t]], t)
      <4>1. Split(Append(Tail(k), Head(d)), b - (u - 1), Tail(d), t)
        BY <1>11, <3>5, <3>6
      <4>2. Len(drained'[Peer[t]]) = u - 1 /\ drained'[Peer[t]] = Tail(d)
        BY <1>5, <1>8, <1>11
      <4>3. /\ kernel'[t] # <<>> /\ Head(kernel'[t]).kind = "REFILL" /\ Head(kernel'[t]).extraBytes = b
            /\ Tail(kernel'[t]) = Append(Tail(k), Head(d))
        BY <1>8, <2>4, <3>1, <3>3, <3>4
      <4> QED BY <4>1, <4>2, <4>3
    <3> QED BY <2>1, <2>3, <2>5, <2>6, <3>7 DEF RefillPair
  <2>7. CASE Opened(l, t)
    <3>1. PICK c \in Nat : c = (IF cur[l] = t THEN left[l] ELSE 0)
      BY DEF LoopType
    <3>2. Split(k, c - Len(d), d, t)
      BY <1>5, <1>7, <1>14, <2>4, <2>7, <3>1 DEF RefillPair
    <3>3. Split(Append(k, Head(d)), c - Len(d) + 1, Tail(d), t)
      BY <1>4, <1>5, <1>7, <1>10, <3>2, SplitForeign
    <3>4. c - u + 1 = c - (u - 1)
      OBVIOUS
    <3>5. Split(kernel'[t], (IF cur'[l] = t THEN left'[l] ELSE 0) - Len(drained'[Peer[t]]), drained'[Peer[t]], t)
      BY <1>5, <1>8, <1>11, <2>3, <2>4, <3>1, <3>3, <3>4
    <3> QED BY <2>1, <2>3, <2>5, <2>7, <3>5 DEF RefillPair
  <2> QED BY <2>6, <2>7
<1>15. \A e \in Live(p) :
               /\ Emptied(p, e)' => drained'[e] = <<>> \/ (Emptied(p, e) /\ drained'[e] = drained[e])
               /\ e # t => /\ Opened(p, e)' <=> Opened(p, e)
                           /\ (IF cur'[p] = e THEN left'[p] ELSE 0) = (IF cur[p] = e THEN left[p] ELSE 0)
               /\ e # Peer[t] => (Headed(p, e)' <=> Headed(p, e))
  <2>1. \A e \in Live(p) : e \in Ends
    BY DEF Live, Led, Held
  <2> QED BY <1>5, <1>8, <1>12, <1>13, <2>1
<1>16. \A e \in Ends : \/ drained'[e] = drained[e]
                       \/ e = Peer[t] /\ e \in Live(p) /\ drained'[e] \in Seq(DataFor(e))
  BY <1>4, <1>5, <1>8, <1>10
<1> QED BY <1>2, <1>3, <1>6, <1>8, <1>12, <1>14, <1>15, <1>16, RefillTouches

(* The header tells how much is to be echoed.                               *)
LEMMA EchoHeaderStep ==
    ASSUME TypeOK, Loops, Elected, PuttingBack, RefillBuffers, NEW p \in Procs, NEW x \in Ends,
           EchoHeader(p, x)
    PROVE  RefillBuffers'
<1> LoopType /\ KernelType /\ DrainType
  BY DEF TypeOK
<1>1. PICK k \in Seq(Item) : k = kernel[x] /\ k # <<>> /\ Head(k).kind = "REFILL"
  BY DEF EchoHeader, KernelType
<1>2. PICK b \in Nat : b = Head(k).extraBytes
  BY <1>1, ItemFacts, HeadTailProperties
<1>3. /\ UNCHANGED <<holders, locked, type, remotePeerId, disconnected, drained, pc>>
      /\ pc[p] = "echoing" /\ x \in todo[p] /\ cur[p] \in {None, x} /\ cur[p] # x /\ Echoed(p, x, b, <<>>)
      /\ left'[p] = b /\ \A l \in Procs \ {p} : left'[l] = left[l]
      /\ kernel'[x] = Tail(k) /\ \A e \in Ends \ {x} : kernel'[e] = kernel[e]
  BY <1>1, <1>2, SocketsAssumption DEF EchoHeader, IsNext, appVars, conVars, drainVars, LoopType, KernelType
<1>4. \A l \in Procs : pc[l] # "electing"
  BY DEF PuttingBack, Among, Back, Again, Refilling
<1>5. x \in Live(p)
  BY <1>3 DEF Loops, LoopOf
<1>6. x \in Open /\ Peer[x] \in Open /\ \A l \in Procs : Lead(l, x) => l = p
  BY <1>3, <1>5, InUse
<1>7. /\ \A l \in Procs \ {p} : pc'[l] = pc[l] /\ todo'[l] = todo[l] /\ cur'[l] = cur[l]
      /\ \A e \in Ends : Headed(p, e) /\ Headed(p, e)' /\ Emptied(p, e)
      /\ Opened(p, x)' /\ (Opened(p, x) <=> cur[p] = x)
      /\ (IF cur'[p] = x THEN left'[p] ELSE 0) = b
      /\ \A e \in Live(p) : e # x =>
                 /\ Opened(p, e)' <=> Opened(p, e)
                 /\ (IF cur'[p] = e THEN left'[p] ELSE 0) = (IF cur[p] = e THEN left[p] ELSE 0)
  <2>1. pc' = pc
    BY <1>3
  <2> QED BY <1>3, <2>1, EchoedFacts
<1>8. ASSUME NEW l \in Procs, NEW m \in Procs, Lead(l, x), Lead(m, Peer[x]), RefillPair(l, m, x)
      PROVE  RefillPair(l, m, x)'
  <2>1. l = p /\ Headed(m, Peer[x])
    BY <1>1, <1>6, <1>8 DEF RefillPair
  <2>2. Headed(m, Peer[x])'
    <3>1. CASE m = p
      BY <1>7, <3>1, PeerFacts
    <3>2. CASE m # p
      BY <1>7, <2>1, <3>2 DEF Headed
    <3> QED BY <3>1, <3>2
  <2>3. Split(Tail(k), b - Len(drained[Peer[x]]), drained[Peer[x]], x)
    BY <1>1, <1>2, <1>3, <1>7, <1>8, <2>1 DEF RefillPair
  <2>4. Split(kernel'[x], (IF cur'[l] = x THEN left'[l] ELSE 0) - Len(drained'[Peer[x]]), drained'[Peer[x]], x)
    BY <1>3, <1>7, <2>1, <2>3
  <2>5. /\ drained'[x] \in Seq(DataFor(x)) /\ drained'[x] = <<>>
        /\ type'[x] # "ERROR" /\ remotePeerId'[l][x] = Peer[x]
    BY <1>3, <1>7, <1>8, <2>1 DEF RefillPair
  <2> QED BY <1>7, <2>1, <2>2, <2>4, <2>5 DEF RefillPair
<1>9. \A e \in Live(p) : e \in Ends
  BY DEF Live, Led, Held
<1>10. \A e \in Live(p) :
               /\ Emptied(p, e)' => drained'[e] = <<>> \/ (Emptied(p, e) /\ drained'[e] = drained[e])
               /\ e # x => /\ Opened(p, e)' <=> Opened(p, e)
                           /\ (IF cur'[p] = e THEN left'[p] ELSE 0) = (IF cur[p] = e THEN left[p] ELSE 0)
               /\ e # Peer[x] => (Headed(p, e)' <=> Headed(p, e))
  BY <1>3, <1>7, <1>9
<1> QED BY <1>3, <1>4, <1>6, <1>7, <1>8, <1>10, RefillTouches

(* What is read to be echoed is what the peer's leader has written.         *)
LEMMA EchoReadStep ==
    ASSUME TypeOK, Loops, Elected, PuttingBack, RefillBuffers, Echoes, NEW p \in Procs, EchoRead(p)
    PROVE  RefillBuffers' /\ EchoOf(p)'
<1> LoopType /\ KernelType /\ DrainType
  BY DEF TypeOK
<1>1. PICK x \in Ends : x = cur[p] /\ x \in todo[p] /\ cur[p] # None
  BY DEF EchoRead, Loops, LoopOf, LoopType
<1>2. PICK k \in Seq(Item), b \in Nat : k = kernel[x] /\ k # <<>> /\ b = left[p] /\ b > 0
  BY <1>1 DEF EchoRead, KernelType, LoopType
<1>3. /\ UNCHANGED <<holders, locked, type, remotePeerId, disconnected, drained, pc, todo, cur>>
      /\ pc[p] = "echoing" /\ tmp'[p] = Append(tmp[p], Head(k))
      /\ left'[p] = b - 1 /\ \A l \in Procs \ {p} : left'[l] = left[l]
      /\ kernel'[x] = Tail(k) /\ \A e \in Ends \ {x} : kernel'[e] = kernel[e]
  BY <1>1, <1>2 DEF EchoRead, appVars, conVars, drainVars, LoopType, KernelType
<1>4. \A l \in Procs : pc[l] # "electing"
  BY DEF PuttingBack, Among, Back, Again, Refilling
<1>5. x \in Live(p)
  BY <1>1, <1>3 DEF Loops, LoopOf
<1>6. x \in Open /\ Peer[x] \in Open /\ Lead(p, x) /\ \A l \in Procs : Lead(l, x) => l = p
  BY <1>3, <1>5, InUse
<1>7. \A l \in Procs, e \in Ends : /\ Opened(l, e)' <=> Opened(l, e)
                                   /\ Headed(l, e)' <=> Headed(l, e)
                                   /\ Emptied(l, e)' <=> Emptied(l, e)
  BY <1>3 DEF Opened, Headed, Emptied
<1>8. Opened(p, x)
  BY <1>1, <1>3 DEF Opened
<1>9. ASSUME NEW m \in Procs, RefillPair(p, m, x)
      PROVE  RefillPair(p, m, x)' /\ Head(k) \in DataFor(Peer[x])
  <2>1. PICK d \in Seq(Item) : d = drained[Peer[x]]
    BY PeerFacts DEF DrainType
  <2>2. PICK u \in Nat : Len(d) = u /\ (d = <<>> => u = 0)
    BY LenProperties
  <2>3. Split(k, b - u, d, x)
    BY <1>1, <1>2, <1>8, <1>9, <2>1, <2>2 DEF RefillPair
  <2>4. b - u # 0
    <3>1. CASE d = <<>>
      BY <1>2, <2>2, <3>1
    <3>2. CASE d # <<>>
      <4>1. b - u = Len(k)
        BY <2>3, <3>2 DEF Split
      <4>2. Len(k) # 0
        BY <1>2, EmptySeq
      <4> QED BY <4>1, <4>2
    <3> QED BY <3>1, <3>2
  <2>5. Head(k) \in DataFor(Peer[x]) /\ Split(Tail(k), b - u - 1, d, x)
    BY <1>2, <2>3, <2>4, SplitRead
  <2>6. b - u - 1 = (b - 1) - u
    OBVIOUS
  <2>7. Split(Tail(k), (b - 1) - u, d, x)
    BY <2>5, <2>6
  <2>8. Split(kernel'[x], (IF cur'[p] = x THEN left'[p] ELSE 0) - Len(drained'[Peer[x]]), drained'[Peer[x]], x)
    BY <1>1, <1>3, <2>1, <2>2, <2>7
  <2>9. /\ drained'[x] \in Seq(DataFor(x)) /\ (Emptied(p, x)' => drained'[x] = <<>>)
        /\ type'[x] # "ERROR" /\ remotePeerId'[p][x] = Peer[x] /\ Headed(m, Peer[x])'
    BY <1>3, <1>7, <1>8, <1>9, PeerFacts DEF RefillPair
  <2> QED BY <1>7, <1>8, <2>5, <2>8, <2>9 DEF RefillPair
<1>10. \A e \in Live(p) : e \in Ends
  BY DEF Live, Led, Held
<1>11. RefillBuffers'
  <2>1. \A e \in Live(p) :
               /\ Emptied(p, e)' => drained'[e] = <<>> \/ (Emptied(p, e) /\ drained'[e] = drained[e])
               /\ e # x => /\ Opened(p, e)' <=> Opened(p, e)
                           /\ (IF cur'[p] = e THEN left'[p] ELSE 0) = (IF cur[p] = e THEN left[p] ELSE 0)
               /\ e # Peer[x] => (Headed(p, e)' <=> Headed(p, e))
    BY <1>1, <1>3, <1>7, <1>10
  <2>2. \A l, m \in Procs : Lead(l, x) /\ Lead(m, Peer[x]) /\ RefillPair(l, m, x) => RefillPair(l, m, x)'
    BY <1>6, <1>9
  <2>3. pc'[p] \in {"writing", "echoing"}
    BY <1>3
  <2> QED BY <1>3, <1>4, <1>6, <2>1, <2>2, <2>3, RefillTouches
<1>12. EchoOf(p)'
  <2>1. PICK m \in Procs : Lead(m, Peer[x])
    BY <1>6, OneLead, PeerFacts
  <2>2. Head(k) \in DataFor(Peer[x])
    BY <1>6, <1>9, <2>1 DEF RefillBuffers
  <2>3. tmp[p] \in Seq(DataFor(Peer[x]))
    BY <1>1, <1>3 DEF Echoes, EchoOf
  <2>4. Append(tmp[p], Head(k)) \in Seq(DataFor(Peer[x]))
    BY <2>2, <2>3, AppendProperties
  <2> QED BY <1>1, <1>3, <2>4 DEF EchoOf
<1> QED BY <1>11, <1>12

(* What is echoed comes back behind it.                                     *)
LEMMA EchoWriteStep ==
    ASSUME TypeOK, Loops, Elected, PuttingBack, RefillBuffers, Echoes, NEW p \in Procs, EchoWrite(p)
    PROVE  RefillBuffers' /\ EchoOf(p)'
<1> LoopType /\ KernelType /\ DrainType
  BY DEF TypeOK
<1>1. PICK x \in Ends : x = cur[p] /\ x \in todo[p] /\ cur[p] # None
  BY DEF EchoWrite, Loops, LoopOf, LoopType
<1>2. /\ UNCHANGED <<holders, locked, type, remotePeerId, disconnected, drained, pc, left>>
      /\ pc[p] = "echoing" /\ left[p] = 0 /\ cur[p] \in {None, x} /\ Echoed(p, x, 0, Tail(tmp[p]))
      /\ tmp'[p] = Tail(tmp[p]) /\ tmp[p] # <<>>
  BY <1>1 DEF EchoWrite, appVars, conVars, drainVars, LoopType, Loops, LoopOf
<1>3. \A l \in Procs : pc[l] # "electing"
  BY DEF PuttingBack, Among, Back, Again, Refilling
<1>4. x \in Live(p)
  BY <1>1, <1>2 DEF Loops, LoopOf
<1>5. PICK t \in Ends : t = Peer[x] /\ Peer[t] = x /\ t # x
  BY PeerFacts
<1>6. t \in Open /\ Peer[t] \in Open /\ Lead(p, x) /\ \A l \in Procs : Lead(l, x) => l = p
  BY <1>2, <1>4, <1>5, InUse
<1>7. PICK h : h = Head(tmp[p])
  OBVIOUS
<1>8. h \in DataFor(t) /\ h \in Item /\ Tail(tmp[p]) \in Seq(DataFor(t))
  <2>1. tmp[p] \in Seq(DataFor(t))
    BY <1>1, <1>2, <1>5 DEF Echoes, EchoOf
  <2> QED BY <1>2, <1>7, <2>1, HeadTailProperties, DataFacts
<1>9. kernel'[t] = Append(kernel[t], h) /\ \A e \in Ends \ {t} : kernel'[e] = kernel[e]
  BY <1>1, <1>5, <1>7 DEF EchoWrite, Write, KernelType
<1>10. /\ \A l \in Procs \ {p} : pc'[l] = pc[l] /\ todo'[l] = todo[l] /\ cur'[l] = cur[l]
       /\ \A e \in Ends : Headed(p, e) /\ Headed(p, e)' /\ Emptied(p, e)
       /\ Opened(p, x)' /\ (Opened(p, x) <=> cur[p] = x)
       /\ (IF cur'[p] = x THEN left'[p] ELSE 0) = 0
       /\ \A e \in Live(p) : e # x =>
                 /\ Opened(p, e)' <=> Opened(p, e)
                 /\ (IF cur'[p] = e THEN left'[p] ELSE 0) = (IF cur[p] = e THEN left[p] ELSE 0)
  <2>1. pc' = pc /\ left' = left
    BY <1>2
  <2>2. PICK rest : rest = Tail(tmp[p])
    OBVIOUS
  <2>3. Echoed(p, x, 0, rest)
    BY <1>2, <2>2
  <2> QED BY <1>1, <1>2, <2>1, <2>3, EchoedFacts
<1>11. ASSUME NEW l \in Procs, NEW m \in Procs, Lead(l, t), Lead(m, Peer[t]), RefillPair(l, m, t)
       PROVE  RefillPair(l, m, t)'
  <2>1. m = p /\ Headed(m, Peer[t]) /\ Headed(m, Peer[t])'
    BY <1>5, <1>6, <1>10, <1>11
  <2>2. t \in Live(l)
    BY <1>3, <1>11 DEF RefillPair, Lead, Live, Led, Held
  <2>3. /\ Opened(l, t)' <=> Opened(l, t)
        /\ Emptied(l, t)' => Emptied(l, t)
        /\ (IF cur'[l] = t THEN left'[l] ELSE 0) = (IF cur[l] = t THEN left[l] ELSE 0)
    <3>1. CASE l = p
      BY <1>5, <1>10, <2>2, <3>1
    <3>2. CASE l # p
      BY <1>2, <1>10, <3>2 DEF Opened, Emptied
    <3> QED BY <3>1, <3>2
  <2>4. PICK k \in Seq(Item) : k = kernel[t]
    BY DEF KernelType
  <2>5. /\ drained'[t] \in Seq(DataFor(t)) /\ (Emptied(l, t)' => drained'[t] = <<>>)
        /\ type'[t] # "ERROR" /\ remotePeerId'[l][t] = Peer[t]
    BY <1>2, <1>11, <2>3 DEF RefillPair
  <2>6. drained[Peer[t]] = <<>> /\ drained'[Peer[t]] = <<>> /\ Len(drained[Peer[t]]) = 0
    <3>1. RefillPair(p, l, x)
      BY <1>5, <1>6, <1>11 DEF RefillBuffers
    <3>2. drained[x] = <<>>
      BY <1>10, <3>1 DEF RefillPair
    <3> QED BY <1>2, <1>5, <3>2
  <2>7. CASE ~Opened(l, t)
    <3>1. /\ k # <<>> /\ Head(k).kind = "REFILL"
          /\ Split(Tail(k), Head(k).extraBytes - Len(drained[Peer[t]]), drained[Peer[t]], t)
      BY <1>11, <2>1, <2>4, <2>7 DEF RefillPair
    <3>2. Head(k) \in Item /\ Tail(k) \in Seq(Item)
      BY <3>1, HeadTailProperties
    <3>3. PICK n : n = Head(k).extraBytes - Len(drained[Peer[t]])
      OBVIOUS
    <3>4. Append(k, h) # <<>> /\ Head(Append(k, h)) = Head(k) /\ Tail(Append(k, h)) = Append(Tail(k), h)
      BY <1>8, <3>1, AppendFirst, AppendLast
    <3>5. Split(Append(Tail(k), h), n, <<>>, t)
      BY <1>8, <2>6, <3>1, <3>2, <3>3, SplitOwn
    <3>6. n = Head(Append(k, h)).extraBytes - Len(drained'[Peer[t]])
      BY <2>6, <3>3, <3>4
    <3>7. /\ kernel'[t] # <<>> /\ Head(kernel'[t]).kind = "REFILL"
          /\ Split(Tail(kernel'[t]), Head(kernel'[t]).extraBytes - Len(drained'[Peer[t]]), drained'[Peer[t]], t)
      BY <1>9, <2>4, <2>6, <3>1, <3>4, <3>5, <3>6
    <3> QED BY <2>1, <2>3, <2>5, <2>7, <3>7 DEF RefillPair
  <2>8. CASE Opened(l, t)
    <3>1. PICK n : n = (IF cur[l] = t THEN left[l] ELSE 0) - Len(drained[Peer[t]])
      OBVIOUS
    <3>2. Split(k, n, <<>>, t)
      BY <1>11, <2>4, <2>6, <2>8, <3>1 DEF RefillPair
    <3>3. Split(Append(k, h), n, <<>>, t)
      BY <1>8, <3>2, SplitOwn
    <3>4. n = (IF cur'[l] = t THEN left'[l] ELSE 0) - Len(drained'[Peer[t]])
      BY <2>3, <2>6, <3>1
    <3>5. Split(kernel'[t], (IF cur'[l] = t THEN left'[l] ELSE 0) - Len(drained'[Peer[t]]), drained'[Peer[t]], t)
      BY <1>9, <2>4, <2>6, <3>3, <3>4
    <3> QED BY <2>1, <2>3, <2>5, <2>8, <3>5 DEF RefillPair
  <2> QED BY <2>7, <2>8
<1>12. RefillBuffers'
  <2>1. \A e \in Live(p) : e \in Ends
    BY DEF Live, Led, Held
  <2>2. \A e \in Live(p) :
               /\ Emptied(p, e)' => drained'[e] = <<>> \/ (Emptied(p, e) /\ drained'[e] = drained[e])
               /\ e # t => /\ Opened(p, e)' <=> Opened(p, e)
                           /\ (IF cur'[p] = e THEN left'[p] ELSE 0) = (IF cur[p] = e THEN left[p] ELSE 0)
               /\ e # Peer[t] => (Headed(p, e)' <=> Headed(p, e))
    <3>1. (IF cur[p] = x THEN left[p] ELSE 0) = 0
      BY <1>2
    <3> QED BY <1>1, <1>2, <1>10, <2>1, <3>1
  <2>3. pc'[p] \in {"writing", "echoing"}
    BY <1>2
  <2> QED BY <1>2, <1>3, <1>6, <1>9, <1>10, <1>11, <2>2, <2>3, RefillTouches
<1>13. EchoOf(p)'
  <2>1. CASE Tail(tmp[p]) = <<>>
    <3>1. cur'[p] = None
      BY <1>2, <2>1 DEF Echoed, LoopType
    <3> QED BY <1>2, <2>1, <3>1 DEF EchoOf
  <2>2. CASE Tail(tmp[p]) # <<>>
    <3>1. cur'[p] = x
      BY <1>2, <2>2 DEF Echoed, LoopType
    <3> QED BY <1>1, <1>2, <1>5, <1>8, <3>1 DEF EchoOf
  <2> QED BY <2>1, <2>2
<1> QED BY <1>12, <1>13
------------------------------------------------------------------------------
(* The steps of a process, by what they do to the buffers.                  *)
StillStep(p) ==
    \/ ThreadsSuspend(p) \/ LeaderElection(p) \/ Resume(p)
    \/ \E e \in Ends : Send(p, e) \/ Recv(p, e) \/ SetOwn(p, e) \/ Close(p, e) \/ DoLocking(p, e)

DrainStep(p) ==
    \/ PreCkpt(p) \/ WriteImage(p)
    \/ \E e \in Ends : \/ DrainWrite(p, e) \/ DrainRead(p, e) \/ DrainComplete(p, e) \/ OnDisconnect(p, e)
                       \/ SendHandshake(p, e) \/ RecvHandshake(p, e)

MendStep(p) ==
    \/ PostRestart(p) \/ RegisterNSData(p) \/ SendQueries(p) \/ FdsShared(p)
    \/ BeginRefill(p) \/ RestoreOptions(p)
    \/ \E e \in Ends : Connect(p, e) \/ Accept(p, e) \/ ReceiveFd(p, e)
    \/ \E e \in Ends, q \in Procs : SendFd(p, q, e)

RefillStep(p) ==
    \/ RefillData(p) \/ EchoRead(p) \/ EchoWrite(p)
    \/ \E e \in Ends : RefillHeader(p, e) \/ EchoHeader(p, e)

(* Every step of a process is one of them.                                  *)
LEMMA WhichStep ==
    ASSUME NEW p \in Procs, Application(p) \/ CkptThread(p)
    PROVE  StillStep(p) \/ BeginDrain(p) \/ DrainStep(p) \/ MendStep(p) \/ RefillStep(p)
BY DEF Application, CkptThread, StillStep, DrainStep, MendStep, RefillStep

(* The phases in which they are taken, and where they lead to.              *)
LEMMA StillPhase ==
    ASSUME TypeOK, Phases, NEW p \in Procs, Application(p) \/ CkptThread(p), StillStep(p)
    PROVE  /\ Among(Still) /\ Among(Still)' /\ isRestart' = isRestart
           /\ pc'[p] \in {"run", "told", "suspended", "electing"}
<1> pc \in [Procs -> Stages]
  BY DEF TypeOK
<1>1. Among(Still) /\ isRestart' = isRestart /\ pc'[p] \in {"run", "told", "suspended", "electing"}
  <2>1. CASE ThreadsSuspend(p)
    BY <2>1, WhichPhase, WhereTheyAre DEF ThreadsSuspend, Goto, runVars
  <2>2. CASE LeaderElection(p)
    BY <2>2 DEF LeaderElection, Loop, Goto, Barrier, Among, Still, runVars
  <2>3. CASE Resume(p)
    BY <2>3 DEF Resume, Goto, Barrier, Among, Still, runVars
  <2>4. ASSUME NEW e \in Ends, Send(p, e) \/ Recv(p, e) \/ SetOwn(p, e) \/ Close(p, e)
        PROVE  Among(Still) /\ isRestart' = isRestart /\ pc'[p] \in {"run", "told", "suspended", "electing"}
    <3>1. pc[p] \in {"run", "told"} /\ pc' = pc /\ isRestart' = isRestart
      BY <2>4 DEF Send, Recv, SetOwn, Close, Running, runVars
    <3> QED BY <3>1, WhichPhase
  <2>5. ASSUME NEW e \in Ends, DoLocking(p, e)
        PROVE  Among(Still) /\ isRestart' = isRestart /\ pc'[p] \in {"run", "told", "suspended", "electing"}
    <3>1. pc[p] = "electing" /\ todo[p] # {} /\ pc' = pc /\ isRestart' = isRestart
      BY <2>5 DEF DoLocking, runVars
    <3>2. Among(Electing)
      BY <3>1 DEF Phases, Among, Greet, Back, Again, Refilling
    <3> QED BY <3>1, <3>2 DEF Among, Electing, Still
  <2> QED BY <2>1, <2>2, <2>3, <2>4, <2>5 DEF StillStep
<1>2. Among(Still)'
  BY <1>1, OneGoes DEF Still
<1> QED BY <1>1, <1>2

(* The same for the drain.                                                  *)
LEMMA DrainPhase ==
    ASSUME TypeOK, Phases, NEW p \in Procs, Application(p) \/ CkptThread(p), DrainStep(p)
    PROVE  /\ Draining /\ Elected /\ isRestart' = isRestart
           /\ pc[p] \in {"draining", "greeting", "greeted"}
           /\ pc'[p] \in {"draining", "greeting", "greeted"} \/ (WriteImage(p) /\ pc'[p] = "checkpointed")
<1> pc \in [Procs -> Stages]
  BY DEF TypeOK
<1> DEFINE Goal == /\ isRestart' = isRestart
                   /\ pc[p] \in {"draining", "greeting", "greeted"}
                   /\ pc'[p] \in {"draining", "greeting", "greeted"} \/ (WriteImage(p) /\ pc'[p] = "checkpointed")
<1>1. ASSUME PreCkpt(p) PROVE Goal
  BY <1>1 DEF PreCkpt, Loop, Goto, runVars
<1>2. ASSUME WriteImage(p) PROVE Goal
  BY <1>2 DEF WriteImage, Goto
<1>3. ASSUME NEW e \in Ends, \/ DrainWrite(p, e) \/ DrainRead(p, e) \/ DrainComplete(p, e) \/ OnDisconnect(p, e)
                             \/ RecvHandshake(p, e)
      PROVE  Goal
  BY <1>3 DEF DrainWrite, DrainRead, DrainComplete, OnDisconnect, RecvHandshake, runVars
<1>4. ASSUME NEW e \in Ends, SendHandshake(p, e) PROVE Goal
  BY <1>4 DEF SendHandshake, DoneThen, Loop, Goto, runVars
<1>5. Goal
  BY <1>1, <1>2, <1>3, <1>4 DEF DrainStep
<1> QED BY <1>5, WhichPhase

(* The same for the refill.                                                 *)
LEMMA RefillPhase ==
    ASSUME TypeOK, Phases, NEW p \in Procs, Application(p) \/ CkptThread(p), MendStep(p) \/ RefillStep(p)
    PROVE  /\ PuttingBack /\ Elected /\ isRestart' = isRestart
           /\ pc'[p] \in (Back \cup Again) \ {"checkpointed", "restarting"}
           /\ BeginRefill(p) \/ pc[p] # "checkpointed"
<1> pc \in [Procs -> Stages]
  BY DEF TypeOK
<1> USE DEF Goto, Loop, runVars
<1> DEFINE Goal == /\ isRestart' = isRestart
                   /\ pc[p] \in {"restarting", "restored", "registered", "connecting",
                                 "writing", "echoing", "sharing"}
                   /\ pc'[p] \in (Back \cup Again) \ {"checkpointed", "restarting"}
<1>1. ASSUME PostRestart(p) \/ RegisterNSData(p) \/ SendQueries(p) \/ FdsShared(p) PROVE Goal
  BY <1>1 DEF PostRestart, RegisterNSData, SendQueries, FdsShared, Again, Refilling
<1>2. ASSUME RestoreOptions(p) PROVE Goal
  BY <1>2 DEF RestoreOptions, Again, Refilling
<1>3. ASSUME NEW e \in Ends, NEW q \in Procs, Connect(p, e) \/ Accept(p, e) \/ ReceiveFd(p, e) \/ SendFd(p, q, e)
      PROVE  Goal
  BY <1>3 DEF Connect, Accept, ReceiveFd, SendFd, Again, Refilling
<1>4. ASSUME RefillData(p) PROVE Goal
  BY <1>4 DEF RefillData, Written, DoneThen, Again, Refilling
<1>5. ASSUME EchoRead(p) \/ EchoWrite(p) PROVE Goal
  BY <1>5 DEF EchoRead, EchoWrite, Again, Refilling
<1>6. ASSUME NEW e \in Ends, RefillHeader(p, e) PROVE Goal
  BY <1>6 DEF RefillHeader, Written, DoneThen, Again, Refilling
<1>7. ASSUME NEW e \in Ends, EchoHeader(p, e) PROVE Goal
  BY <1>7 DEF EchoHeader, Again, Refilling
<1>8. CASE ~BeginRefill(p)
  <2>1. Goal
    BY <1>1, <1>2, <1>3, <1>4, <1>5, <1>6, <1>7, <1>8 DEF MendStep, RefillStep
  <2> QED BY <2>1, WhichPhase
<1>9. CASE BeginRefill(p)
  <2>1. /\ isRestart' = isRestart /\ pc[p] \in {"checkpointed", "connecting"}
        /\ pc'[p] \in (Back \cup Again) \ {"checkpointed", "restarting"}
    BY <1>9 DEF BeginRefill, Again, Refilling
  <2>2. Elected
    BY <2>1, WhereTheyAre
  <2>3. PuttingBack
    BY <1>9 DEF BeginRefill, Barrier, PuttingBack, Among, Back, Again
  <2> QED BY <1>9, <2>1, <2>2, <2>3
<1> QED BY <1>8, <1>9

(* While the application runs, the sockets hold its data.                   *)
LEMMA QuietStep ==
    ASSUME TypeOK, Quiet, NEW p \in Procs, StillStep(p) PROVE Quiet'
<1> KernelType /\ AppType
  BY DEF TypeOK
<1>1. CASE \E e \in Ends : Send(p, e)
  <2>1. PICK e \in Ends : Send(p, e)
    BY <1>1
  <2>2. PICK x : x = Data(Peer[e], sent[e] + 1)
    OBVIOUS
  <2>3. x \in DataFor(Peer[e])
    <3>1. sent[e] + 1 \in 1 .. MaxSent
      BY <2>1, ConnectionsAssumption DEF Send, AppType
    <3> QED BY <2>2, <3>1 DEF Data, DataFor
  <2>4. /\ kernel'[Peer[e]] = Append(kernel[Peer[e]], x) /\ \A f \in Ends \ {Peer[e]} : kernel'[f] = kernel[f]
        /\ UNCHANGED <<drained, disconnected>>
    BY <2>1, <2>2, PeerFacts DEF Send, Write, KernelType, drainVars
  <2>5. kernel[Peer[e]] \in Seq(DataFor(Peer[e]))
    BY PeerFacts DEF Quiet
  <2>6. Append(kernel[Peer[e]], x) \in Seq(DataFor(Peer[e]))
    BY <2>3, <2>5, AppendProperties
  <2> QED BY <2>4, <2>6 DEF Quiet
<1>2. CASE \E e \in Ends : Recv(p, e)
  <2>1. PICK e \in Ends : Recv(p, e)
    BY <1>2
  <2>2. /\ kernel[e] # <<>> /\ kernel'[e] = Tail(kernel[e]) /\ \A f \in Ends \ {e} : kernel'[f] = kernel[f]
        /\ UNCHANGED <<drained, disconnected>>
    BY <2>1 DEF Recv, KernelType, drainVars
  <2>3. kernel'[e] \in Seq(DataFor(e))
    BY <2>2, HeadTailProperties DEF Quiet
  <2> QED BY <2>2, <2>3 DEF Quiet
<1>3. CASE \E e \in Ends : Close(p, e)
  <2>1. PICK e \in Ends : Close(p, e)
    BY <1>3
  <2>2. /\ kernel'[e] \in {kernel[e], <<>>} /\ \A f \in Ends \ {e} : kernel'[f] = kernel[f]
        /\ UNCHANGED <<drained, disconnected>>
    BY <2>1 DEF Close, KernelType, drainVars
  <2>3. <<>> \in Seq(DataFor(e))
    BY EmptySeq
  <2> QED BY <2>2, <2>3 DEF Quiet
<1>4. CASE \/ ThreadsSuspend(p) \/ LeaderElection(p) \/ Resume(p)
           \/ \E e \in Ends : SetOwn(p, e) \/ DoLocking(p, e)
  BY <1>4 DEF ThreadsSuspend, LeaderElection, Resume, SetOwn, DoLocking, Quiet, kernelVars, drainVars
<1> QED BY <1>1, <1>2, <1>3, <1>4 DEF StillStep

(* When the last image is written, what was drained is there to be put back. *)
LEMMA RefillBegins == TypeOK /\ Among({"checkpointed"}) /\ DrainBuffers => RefillBuffers
<1> SUFFICES ASSUME TypeOK, Among({"checkpointed"}), DrainBuffers PROVE RefillBuffers
  OBVIOUS
<1>1. \A l \in Procs : pc[l] = "checkpointed"
  BY DEF Among
<1>2. \A l \in Procs, e \in Ends : /\ ~Drains(l, e) /\ Heard(l, e)
                                   /\ ~Headed(l, e) /\ ~Opened(l, e) /\ ~Emptied(l, e)
  BY <1>1 DEF Drains, Heard, Headed, Opened, Emptied
<1>3. ASSUME NEW e \in Ends, NEW l \in Procs, NEW m \in Procs, Peer[e] \in Open, Lead(l, e), Lead(m, Peer[e])
      PROVE  RefillPair(l, m, e)
  <2>1. DrainPair(l, m, e)
    BY <1>3 DEF DrainBuffers
  <2> QED BY <1>2, <2>1, PeerFacts DEF DrainPair, RefillPair
<1>4. ASSUME NEW e \in Ends, NEW l \in Procs, Peer[e] \notin Open, Lead(l, e) PROVE RefillDead(l, e)
  BY <1>1, <1>2, <1>4 DEF DrainBuffers, DrainDead, RefillDead
<1>5. \A l \in Procs : pc[l] \notin {"sharing", "refilled"}
  BY <1>1
<1> QED BY <1>3, <1>4, <1>5 DEF RefillBuffers

(* When the last is ready to run, all is put back and nothing else is left. *)
LEMMA RefillEnds ==
    TypeOK /\ Elected /\ Loops /\ Known /\ Among({"refilled"}) /\ RefillBuffers => Quiet
<1> SUFFICES ASSUME TypeOK, Elected, Loops, Known, Among({"refilled"}), RefillBuffers, NEW e \in Ends
             PROVE  kernel[e] \in Seq(DataFor(e)) /\ drained[e] = <<>> /\ disconnected[e] = <<>>
  BY DEF Quiet
<1>1. \A l \in Procs : pc[l] = "refilled"
  BY DEF Among
<1>2. \A l \in Procs, f \in Ends : Headed(l, f) /\ Opened(l, f) /\ Emptied(l, f)
  BY <1>1 DEF Headed, Opened, Emptied
<1>3. CASE e \notin Open
  <2>1. <<>> \in Seq(DataFor(e))
    BY EmptySeq
  <2> QED BY <1>3, <2>1 DEF Known
<1>4. CASE e \in Open
  <2>1. PICK l \in Procs : Lead(l, e)
    BY <1>4, OneLead
  <2>2. disconnected[e] = <<>>
    BY <1>1, <2>1 DEF RefillBuffers
  <2>3. CASE Peer[e] \notin Open
    BY <2>1, <2>2, <2>3 DEF RefillBuffers, RefillDead
  <2>4. CASE Peer[e] \in Open
    <3>1. PICK m \in Procs : Lead(m, Peer[e])
      BY <2>4, OneLead, PeerFacts
    <3>2. RefillPair(l, m, e) /\ RefillPair(m, l, Peer[e])
      BY <1>4, <2>1, <2>4, <3>1, PeerFacts DEF RefillBuffers
    <3>3. drained[e] = <<>> /\ drained[Peer[e]] = <<>>
      BY <1>2, <3>2, PeerFacts DEF RefillPair
    <3>4. cur[l] # e
      BY <1>1, SocketsAssumption DEF Loops, LoopOf
    <3>5. Split(kernel[e], 0 - Len(drained[Peer[e]]), drained[Peer[e]], e)
      BY <1>2, <3>2, <3>4 DEF RefillPair
    <3>6. 0 - Len(drained[Peer[e]]) = 0
      <4>1. Len(drained[Peer[e]]) = 0
        BY <3>3
      <4> QED BY <4>1
    <3>7. kernel[e] \in Seq(Item)
      BY DEF TypeOK, KernelType
    <3>8. kernel[e] \in Seq(DataFor(e))
      BY <3>5, <3>6, <3>7, SplitDone
    <3> QED BY <2>2, <3>3, <3>8
  <2> QED BY <2>3, <2>4
<1> QED BY <1>3, <1>4

(* What the images hold is there to be put back after a restart.            *)
LEMMA RestartBuffers ==
    ASSUME TypeOK, ImageKeeps, ImageBuffers, Restart
    PROVE  RefillBuffers' /\ (Procs = {} => Quiet')
<1>1. image # NoImage /\ image \in Images
  BY DEF Restart, TypeOK, RunType
<1>2. /\ holders' = image.holders /\ type' = image.type /\ locked' = image.locked
      /\ remotePeerId' = image.remotePeerId /\ drained' = image.drained /\ disconnected' = image.disconnected
      /\ \A e \in Ends : kernel'[e] = <<>>
      /\ \A l \in Procs : pc'[l] = "restarting"
  BY DEF Restart
<1>3. \A e \in Ends : Peer[e] \in Ends /\ (e \in Open' <=> image.holders[e] # {})
  BY <1>2, PeerFacts DEF Open
<1>4. \A l \in Procs, e \in Ends : /\ Lead(l, e)' => l \in image.holders[e] /\ <<l, e>> \in image.locked
                                   /\ ~Headed(l, e)' /\ ~Opened(l, e)' /\ ~Emptied(l, e)'
  BY <1>2 DEF Lead, Headed, Opened, Emptied
<1>5. ASSUME NEW e \in Ends, NEW l \in Procs, NEW m \in Procs, Peer[e] \in Open', Lead(l, e)', Lead(m, Peer[e])'
      PROVE  RefillPair(l, m, e)'
  <2>1. image.holders[e] # {} /\ image.holders[Peer[e]] # {} /\ l \in image.holders[e] /\ <<l, e>> \in image.locked
    BY <1>3, <1>4, <1>5
  <2>2. /\ image.type[e] # "ERROR" /\ image.drained[e] \in Seq(DataFor(e))
        /\ image.remotePeerId[l][e] = Peer[e]
    BY <1>1, <2>1 DEF ImageBuffers
  <2> QED BY <1>2, <1>3, <1>4, <2>2 DEF RefillPair
<1>6. ASSUME NEW e \in Ends, NEW l \in Procs, Peer[e] \notin Open', Lead(l, e)' PROVE RefillDead(l, e)'
  <2>1. image.holders[e] # {} /\ image.holders[Peer[e]] = {}
    BY <1>3, <1>4, <1>6
  <2>2. /\ image.type[e] = "ERROR" /\ image.drained[e] = <<>>
        /\ image.disconnected[e] \in Seq(DataFor(e))
    BY <1>1, <2>1 DEF ImageBuffers
  <2>3. <<>> \in Seq(DataFor(e))
    BY EmptySeq
  <2> QED BY <1>2, <2>2, <2>3 DEF RefillDead
<1>7. RefillBuffers'
  BY <1>2, <1>3, <1>5, <1>6, PeerFacts DEF RefillBuffers
<1>8. ASSUME Procs = {}, NEW e \in Ends PROVE kernel'[e] \in Seq(DataFor(e)) /\ drained'[e] = <<>> /\ disconnected'[e] = <<>>
  <2>1. image.holders[e] = {}
    BY <1>1, <1>8 DEF Images
  <2>2. <<>> \in Seq(DataFor(e))
    BY EmptySeq
  <2> QED BY <1>1, <1>2, <2>1, <2>2 DEF ImageBuffers
<1> QED BY <1>7, <1>8 DEF Quiet

(* Every step keeps what the buffers hold.                                  *)
LEMMA DrainStepBuffers ==
    ASSUME TypeOK, Phases, Loops, Elected, Draining, DrainBuffers,
           NEW p \in Procs, CkptThread(p), DrainStep(p)
    PROVE  DrainBuffers'
<1>1. CASE PreCkpt(p) \/ WriteImage(p)
  BY <1>1, PreCkptStep, WriteImageStep
<1>2. CASE \E e \in Ends : DrainWrite(p, e) \/ DrainRead(p, e) \/ DrainComplete(p, e) \/ OnDisconnect(p, e)
  BY <1>2, DrainWriteStep, DrainReadStep, DrainCompleteStep, OnDisconnectStep
<1>3. ASSUME NEW e \in Ends, SendHandshake(p, e) \/ RecvHandshake(p, e) PROVE DrainBuffers'
  <2>1. pc[p] \in {"greeting", "greeted"}
    BY <1>3 DEF SendHandshake, RecvHandshake
  <2>2. Among(Greet)
    BY <2>1, WhichPhase
  <2> QED BY <1>3, <2>2, SendHandshakeStep, RecvHandshakeStep
<1> QED BY <1>1, <1>2, <1>3 DEF DrainStep

(* The same for what is put back.                                           *)
LEMMA RefillStepBuffers ==
    ASSUME TypeOK, Phases, Loops, Elected, PuttingBack, RefillBuffers, Echoes,
           NEW p \in Procs, CkptThread(p), MendStep(p) \/ RefillStep(p)
    PROVE  RefillBuffers'
<1>1. CASE MendStep(p)
  <2>1. \/ PostRestart(p) \/ RegisterNSData(p) \/ SendQueries(p) \/ FdsShared(p)
        \/ BeginRefill(p) \/ RestoreOptions(p)
        \/ \E e \in Ends : Connect(p, e) \/ Accept(p, e) \/ ReceiveFd(p, e)
        \/ \E e \in Ends, q \in Procs : SendFd(p, q, e)
    BY <1>1 DEF MendStep
  <2> QED BY <2>1, ReconnectStep
<1>2. CASE RefillStep(p)
  <2>1. CASE RefillData(p)
    BY <2>1, RefillDataStep
  <2>2. CASE EchoRead(p)
    BY <2>2, EchoReadStep
  <2>3. CASE EchoWrite(p)
    BY <2>3, EchoWriteStep
  <2>4. CASE \E e \in Ends : RefillHeader(p, e)
    BY <2>4, RefillHeaderStep
  <2>5. CASE \E e \in Ends : EchoHeader(p, e)
    BY <2>5, EchoHeaderStep
  <2> QED BY <1>2, <2>1, <2>2, <2>3, <2>4, <2>5 DEF RefillStep
<1> QED BY <1>1, <1>2

(* A lock that an application keeps is on a descriptor in place, so the     *)
(* ends it can use are those some sharer is attached to.                    *)
LEMMA InPlace ==
    ASSUME IndInv, Among({"run", "refilled"}) \/ Among({"told", "suspended"}) \/ Among(Electing)
    PROVE  /\ \A e \in Ends : \A q \in holders[e] : <<q, e>> \in wired \/ (Left(q, e) /\ <<q, e>> \notin locked)
           /\ Usable = {e \in Ends : Attached(e) # {}}
<1> TypeOK /\ Wired
  BY DEF IndInv
<1>1. ASSUME NEW e \in Ends, NEW q \in holders[e]
      PROVE  <<q, e>> \in wired \/ (Left(q, e) /\ <<q, e>> \notin locked)
  <2>1. q \in Procs
    BY DEF TypeOK, AppType
  <2>2. pc[q] \in {"run", "refilled", "told", "suspended", "electing"}
    BY <2>1 DEF Among, Electing
  <2>3. e \in WiredOf(q)
    BY <2>1, <2>2 DEF WiredOf, Held
  <2>4. <<q, e>> \in wired \/ Left(q, e)
    BY <2>1, <2>3 DEF Wired
  <2>5. pc[q] = "electing" => Among(Electing)
    BY <2>1 DEF Among
  <2> QED BY <2>4, <2>5 DEF Left, Lead
<1> QED BY <1>1 DEF Usable, Attached

(* Once the leaders are known every open end can be used.                   *)
LEMMA ElectedUsable ==
    ASSUME IndInv, Elected \/ Among(Electing) PROVE Usable = Open
<1> TypeOK /\ Wired
  BY DEF IndInv
<1>1. Usable \subseteq Open
  BY DEF Usable, Open
<1>2. ASSUME NEW e \in Open, Elected PROVE e \in Usable
  <2>1. e \in Ends
    BY DEF Open
  <2>2. PICK l \in Procs : Lead(l, e)
    BY <1>2, <2>1, OneLead
  <2>3. pc[l] # "electing" => <<l, e>> \in locked
    BY <2>2 DEF Lead
  <2>4. pc[l] = "electing" => <<l, e>> \in wired
    BY <2>1, <2>2 DEF Wired, WiredOf, Held, Left, Lead
  <2> QED BY <2>1, <2>2, <2>3, <2>4 DEF Usable, Lead
<1>3. ASSUME NEW e \in Open, Among(Electing) PROVE e \in Usable
  <2>1. e \in Ends
    BY DEF Open
  <2>2. PICK q \in holders[e] : q \in Procs
    BY <2>1 DEF Open, TypeOK, AppType
  <2>3. <<q, e>> \in wired
    BY <1>3, <2>1, <2>2, InPlace DEF Left, Among, Electing
  <2> QED BY <2>1, <2>2, <2>3 DEF Usable
<1> QED BY <1>1, <1>2, <1>3

(* Who has an end that cannot be used shares a dead socket it does not lead. *)
LEMMA UnusedLeft ==
    ASSUME IndInv, NEW e \in Open \ Usable
    PROVE  LeftBehind(e) /\ (Among({"run", "refilled"}) \/ Among({"told", "suspended"})) /\ ~Elected
<1>1. ~Elected /\ ~Among(Electing)
  BY ElectedUsable
<1>2. Among({"run", "refilled"}) \/ Among({"told", "suspended"})
  BY <1>1 DEF IndInv, Phases
<1>3. PICK q \in holders[e] : e \in Ends
  BY DEF Open
<1>4. <<q, e>> \notin wired
  BY <1>3 DEF Usable
<1>5. Left(q, e)
  BY <1>2, <1>3, <1>4, InPlace
<1> QED BY <1>1, <1>2, <1>5 DEF Left

(* No step but a close changes which ends can be used.                      *)
LEMMA UsableStep ==
    ASSUME IndInv, NEW p \in Procs, Application(p) \/ CkptThread(p), \A x \in Ends : ~Close(p, x)
    PROVE  Usable' = Usable
<1> TypeOK /\ Phases /\ Loops
  BY DEF IndInv
<1>1. CASE LeaderElection(p) \/ Resume(p) \/ \E e \in Ends : Send(p, e) \/ Recv(p, e) \/ SetOwn(p, e)
  BY <1>1 DEF LeaderElection, Resume, Send, Recv, SetOwn, Usable, appVars, kernelVars, conVars
<1>2. ASSUME NEW x \in Ends, DoLocking(p, x) PROVE Usable' = Usable
  <2>1. Among(Electing) /\ UNCHANGED <<holders, wired>> /\ locked' \subseteq locked
    <3>1. pc[p] = "electing" /\ todo[p] # {}
      BY <1>2 DEF DoLocking
    <3>2. Among(Electing)
      BY <3>1 DEF Phases, Among, Greet, Back, Again, Refilling
    <3> QED BY <1>2, <3>2 DEF DoLocking, appVars
  <2>2. Usable = {e \in Ends : Attached(e) # {}}
    BY <2>1, InPlace
  <2>3. Usable' \subseteq Usable
    BY <2>1 DEF Usable
  <2>4. \A e \in Ends : Attached(e) # {} => e \in Usable'
    BY <2>1 DEF Usable, Attached
  <2> QED BY <2>2, <2>3, <2>4
<1>3. CASE ThreadsSuspend(p)
  <2>1. /\ pc[p] = "told" /\ wired' = wired /\ locked' \subseteq locked
        /\ \A e \in Ends : /\ holders'[e] \subseteq holders[e]
                            /\ \A q \in holders[e] : <<q, e>> \in wired => q \in holders'[e]
    BY <1>3 DEF ThreadsSuspend, kernelVars
  <2>2. Usable = {e \in Ends : Attached(e) # {}}
    BY <2>1, WhereTheyAre, InPlace
  <2>3. Usable' \subseteq Usable
    BY <2>1 DEF Usable
  <2>4. \A e \in Ends : Attached(e) # {} => e \in Usable'
    BY <2>1 DEF Usable, Attached
  <2> QED BY <2>2, <2>3, <2>4
<1>4. CASE BeginDrain(p)
  <2>1. /\ UNCHANGED <<holders, wired>> /\ pc[p] = "electing"
        /\ \A q \in Procs \ {p}, e \in Ends : <<q, e>> \in locked => <<q, e>> \in locked'
    BY <1>4 DEF BeginDrain, appVars, kernelVars
  <2>2. Elected \/ Among(Electing)
    BY <2>1 DEF Phases, Among, Electing, Drain, Greet, Back, Again, Refilling
  <2>3. Usable = Open /\ Usable' \subseteq Open
    BY <2>1, <2>2, ElectedUsable DEF Usable, Open
  <2>4. ASSUME NEW e \in Open PROVE e \in Usable'
    <3>1. e \in Ends
      BY DEF Open
    <3>2. CASE Elected
      <4>1. PICK l \in Procs : Lead(l, e)
        BY <3>1, <3>2, OneLead
      <4>2. pc[l] # "electing" => <<l, e>> \in locked'
        BY <2>1, <3>1, <4>1 DEF Lead
      <4>3. pc[l] = "electing" => <<l, e>> \in wired
        BY <3>1, <4>1 DEF IndInv, Wired, WiredOf, Held, Left, Lead
      <4> QED BY <2>1, <3>1, <4>1, <4>2, <4>3 DEF Usable, Lead
    <3>3. CASE Among(Electing)
      <4>1. Usable = {f \in Ends : Attached(f) # {}}
        BY <3>3, InPlace
      <4> QED BY <2>1, <2>3, <4>1 DEF Usable, Attached
    <3> QED BY <2>2, <3>2, <3>3
  <2> QED BY <2>3, <2>4
<1>5. CASE DrainStep(p) \/ MendStep(p) \/ RefillStep(p)
  <2>1. Elected /\ pc[p] \notin {"run", "told", "electing"}
    <3>1. Elected
      BY <1>5, DrainPhase, RefillPhase
    <3>2. CASE DrainStep(p)
      BY <3>1, <3>2, DrainPhase
    <3>3. CASE MendStep(p) \/ RefillStep(p)
      BY <3>1, <3>3, RefillPhase DEF PuttingBack, Among, Back, Again, Refilling
    <3> QED BY <1>5, <3>2, <3>3
  <2>2. UNCHANGED <<holders, locked>>
    BY <2>1, WhoChanges DEF ThreadsSuspend, BeginDrain, DoLocking
  <2>3. Usable = Open /\ Usable' \subseteq Open
    BY <2>1, <2>2, ElectedUsable DEF Usable, Open
  <2>4. ASSUME NEW e \in Open PROVE e \in Usable'
    <3>1. e \in Ends
      BY DEF Open
    <3>2. PICK l \in Procs : Lead(l, e)
      BY <2>1, <3>1, OneLead
    <3>3. pc[l] # "electing" => <<l, e>> \in locked'
      BY <2>2, <3>2 DEF Lead
    <3>4. ASSUME pc[l] = "electing" PROVE <<l, e>> \in wired'
      <4>1. <<l, e>> \in wired
        BY <3>1, <3>2, <3>4 DEF IndInv, Wired, WiredOf, Held, Left, Lead
      <4>2. ASSUME NEW x \in Ends, OnDisconnect(p, x) PROVE <<l, e>> \in wired'
        <5>1. pc[p] = "draining" /\ x \in Led(p) /\ wired' = wired \ ((holders[x] \ {p}) \X {x})
          BY <4>2 DEF OnDisconnect, Loops, LoopOf
        <5>2. e # x
          BY <2>1, <3>1, <3>2, <3>4, <5>1, OneLead
        <5> QED BY <4>1, <5>1, <5>2
      <4> QED BY <4>1, <4>2, WhoChanges
    <3> QED BY <2>2, <3>1, <3>2, <3>3, <3>4 DEF Usable, Lead
  <2> QED BY <2>3, <2>4
<1> QED BY <1>1, <1>2, <1>3, <1>4, <1>5, WhichStep DEF StillStep

(* A close makes an end useless if nobody else is attached to it.           *)
LEMMA UsableClose ==
    ASSUME IndInv, NEW p \in Procs, NEW x \in Ends, Close(p, x)
    PROVE  /\ Usable' = IF Attached(x) \subseteq {p} THEN Usable \ {x} ELSE Usable
           /\ x \in Usable <=> Attached(x) # {}
<1> TypeOK /\ Phases
  BY DEF IndInv
<1>1. /\ pc[p] \in {"run", "told"} /\ p \in holders[x]
      /\ wired' = wired \ {<<p, x>>} /\ locked' = locked \ {<<p, x>>}
      /\ holders'[x] = holders[x] \ {p} /\ \A e \in Ends \ {x} : holders'[e] = holders[e]
  BY DEF Close, Running, TypeOK, AppType
<1>2. Among({"run", "refilled"}) \/ Among({"told", "suspended"})
  BY <1>1, WhereTheyAre
<1>3. /\ \A e \in Ends : \A q \in holders[e] : <<q, e>> \in locked => <<q, e>> \in wired
      /\ Usable = {e \in Ends : Attached(e) # {}}
  BY <1>2, InPlace
<1>4. \A e \in Ends \ {x} : e \in Usable' <=> e \in Usable
  BY <1>1 DEF Usable
<1>5. x \in Usable' <=> ~(Attached(x) \subseteq {p})
  BY <1>1, <1>3 DEF Usable, Attached
<1>6. ~(Attached(x) \subseteq {p}) => x \in Usable
  BY <1>3
<1>7. \A e : e \in Usable \/ e \in Usable' => e \in Ends
  BY DEF Usable
<1> QED BY <1>3, <1>4, <1>5, <1>6, <1>7

(* The buffers go from one phase to the next with what that one needs.      *)
LEMMA BuffersStep ==
    ASSUME IndInv, IndInv', BufInv, Known', Next PROVE Buffers'
<1> TypeOK /\ Phases /\ Loops /\ Ready /\ ImageKeeps /\ TypeOK' /\ Phases' /\ Loops' /\ Ready'
  BY DEF IndInv
<1> Known /\ Echoes /\ Buffers /\ ImageBuffers
  BY DEF BufInv
<1> pc \in [Procs -> Stages]
  BY DEF TypeOK
<1>1. CASE Request
  <2>1. \A q \in Procs : pc[q] = "run" /\ pc'[q] = "told"
    BY <1>1 DEF Request
  <2>2. Among(Still)
    BY <2>1 DEF Among, Still
  <2>3. Quiet'
    BY <1>1, <2>2 DEF Buffers, Request, Quiet, kernelVars, drainVars
  <2>4. ~Draining'
    BY <2>1 DEF Draining, Among, Drain, Greet
  <2>5. PuttingBack' => \A q \in Procs : FALSE
    BY <2>1 DEF PuttingBack, Among, Back, Again, Refilling
  <2>6. PuttingBack' => RefillBuffers'
    BY <2>5 DEF RefillBuffers
  <2> QED BY <2>3, <2>4, <2>6 DEF Buffers
<1>2. CASE Restart
  <2>1. \A q \in Procs : pc'[q] = "restarting"
    BY <1>2 DEF Restart
  <2>2. RefillBuffers' /\ (Procs = {} => Quiet')
    BY <1>2, RestartBuffers
  <2>3. ~Draining'
    BY <2>1 DEF Draining, Among, Drain, Greet
  <2>4. Among(Still)' => Procs = {}
    BY <2>1 DEF Among, Still
  <2> QED BY <2>2, <2>3, <2>4 DEF Buffers
<1>3. ASSUME NEW p \in Procs, Application(p) \/ CkptThread(p), StillStep(p) PROVE Buffers'
  <2>1. Among(Still) /\ Among(Still)' /\ pc'[p] \in {"run", "told", "suspended", "electing"}
    BY <1>3, StillPhase
  <2>2. Quiet'
    BY <1>3, <2>1, QuietStep DEF Buffers
  <2>3. ~PuttingBack'
    BY <2>1 DEF PuttingBack, Among, Back, Again, Refilling
  <2>4. ~Draining'
    BY <2>1 DEF Draining, Among, Still, Drain, Greet
  <2> QED BY <2>2, <2>3, <2>4 DEF Buffers
<1>4. ASSUME NEW p \in Procs, Application(p) \/ CkptThread(p), BeginDrain(p) PROVE Buffers'
  <2>1. pc[p] = "electing" /\ pc'[p] = "draining" /\ Among(Drain)
    BY <1>4 DEF BeginDrain, Loop, Goto, Barrier, Among, Drain
  <2>2. DrainBuffers
    <3>1. CASE Among({"electing"})
      <4>1. Among(Still)
        BY <3>1 DEF Among, Still
      <4> QED BY <3>1, <4>1, DrainBegins DEF Buffers
    <3>2. CASE ~Among({"electing"})
      BY <2>1, <3>2 DEF Draining, Buffers
    <3> QED BY <3>1, <3>2
  <2>3. DrainBuffers'
    BY <1>4, <2>2, BeginDrainStep
  <2>4. ~Among(Still)' /\ ~PuttingBack'
    BY <2>1 DEF PuttingBack, Among, Still, Back, Again, Refilling
  <2> QED BY <2>3, <2>4 DEF Buffers
<1>5. ASSUME NEW p \in Procs, Application(p) \/ CkptThread(p), DrainStep(p) PROVE Buffers'
  <2>1. /\ Draining /\ Elected /\ pc[p] \in {"draining", "greeting", "greeted"}
        /\ pc'[p] \in {"draining", "greeting", "greeted"} \/ (WriteImage(p) /\ pc'[p] = "checkpointed")
    BY <1>5, DrainPhase
  <2>2. DrainBuffers'
    <3>1. CkptThread(p)
      BY <1>5 DEF DrainStep, CkptThread
    <3> QED BY <1>5, <2>1, <3>1, DrainStepBuffers DEF Buffers
  <2>3. ~Among(Still)'
    BY <2>1 DEF Among, Still
  <2>4. ASSUME PuttingBack' PROVE RefillBuffers'
    <3>1. WriteImage(p) /\ pc'[p] = "checkpointed"
      BY <2>1, <2>4 DEF PuttingBack, Among, Back, Again, Refilling
    <3>2. Among(Greet)'
      <4>1. Among(Greet)
        BY <3>1, WhereTheyAre DEF WriteImage
      <4> QED BY <1>5, <3>1, <4>1, OneGoes DEF Greet
    <3>3. Among({"checkpointed"})'
      BY <2>4, <3>1, <3>2 DEF PuttingBack, Among, Greet, Back, Again, Refilling
    <3>4. TypeOK' /\ Among({"checkpointed"})' /\ DrainBuffers' => RefillBuffers'
      BY RefillBegins, PTL
    <3> QED BY <2>2, <3>3, <3>4
  <2> QED BY <2>2, <2>3, <2>4 DEF Buffers
<1>6. ASSUME NEW p \in Procs, Application(p) \/ CkptThread(p), MendStep(p) \/ RefillStep(p) PROVE Buffers'
  <2>1. /\ PuttingBack /\ Elected /\ isRestart' = isRestart
        /\ pc'[p] \in (Back \cup Again) \ {"checkpointed", "restarting"}
    BY <1>6, RefillPhase
  <2>2. RefillBuffers'
    <3>1. CkptThread(p)
      BY <1>6 DEF MendStep, RefillStep, CkptThread
    <3> QED BY <1>6, <2>1, <3>1, RefillStepBuffers DEF Buffers
  <2>3. ~Draining'
    BY <2>1 DEF Draining, Among, Drain, Greet, Back, Again, Refilling
  <2>4. ASSUME Among(Still)' PROVE Quiet'
    <3>1. Among(Back \cup Again)
      BY <2>1 DEF PuttingBack, Among
    <3>2. Among(Back \cup Again)'
      BY <1>6, <2>1, <3>1, OneGoes
    <3>3. Among({"refilled"})'
      BY <2>4, <3>2 DEF Among, Still, Back, Again, Refilling
    <3>4. Elected'
      BY <3>3 DEF Ready
    <3>5. (TypeOK /\ Elected /\ Loops /\ Known /\ Among({"refilled"}) /\ RefillBuffers)' => Quiet'
      BY RefillEnds, PTL
    <3> QED BY <2>2, <3>3, <3>4, <3>5
  <2> QED BY <2>2, <2>3, <2>4 DEF Buffers
<1> QED BY <1>1, <1>2, <1>3, <1>4, <1>5, <1>6, WhichStep DEF Next
------------------------------------------------------------------------------
(* A write changes the buffer of the peer, and a read that of the end.      *)
LEMMA WriteElsewhere ==
    ASSUME TypeOK, NEW x \in Ends, NEW item, Write(x, item)
    PROVE  \A e \in Ends : kernel'[e] = kernel[e] \/ e = Peer[x]
BY PeerFacts DEF Write, TypeOK, KernelType

LEMMA ReadElsewhere ==
    ASSUME TypeOK, NEW x \in Ends, kernel' = [kernel EXCEPT ![x] = Tail(@)]
    PROVE  \A e \in Ends : kernel'[e] = kernel[e] \/ e = x
BY DEF TypeOK, KernelType

(* Only the buffers of an open end change.                                  *)
Within(e) ==
    /\ kernel'[e] = kernel[e] \/ e \in Open
    /\ disconnected'[e] \in {disconnected[e], <<>>} \/ e \in Open
    /\ drained'[e] = drained[e] \/ e \in Open

(* The steps of the application, and those that write to no socket.         *)
LEMMA StillWithin ==
    ASSUME TypeOK, NEW p \in Procs, StillStep(p) \/ BeginDrain(p) PROVE \A e \in Ends : Within(e)
<1> AppType
  BY DEF TypeOK
<1>1. ASSUME NEW x \in Ends, Send(p, x) PROVE \A e \in Ends : Within(e)
  <2>1. UNCHANGED <<drained, disconnected>> /\ Peer[x] \in Open /\ RoomIf(x, doubled)
    BY <1>1 DEF Send, drainVars, Room
  <2>2. PICK i : i = Data(Peer[x], sent[x] + 1)
    OBVIOUS
  <2>3. sent[x] + 1 \in 1 .. MaxSent
    BY <1>1, ConnectionsAssumption DEF Send, AppType
  <2>4. i \in Item /\ Write(x, i)
    BY <1>1, <2>2, <2>3, ItemFacts, PeerFacts DEF Send
  <2> QED BY <2>1, <2>4, WriteElsewhere DEF Within
<1>2. ASSUME NEW x \in Ends, Recv(p, x) PROVE \A e \in Ends : Within(e)
  <2>1. /\ UNCHANGED <<drained, disconnected>> /\ x \in Open
        /\ kernel[x] # <<>> /\ kernel' = [kernel EXCEPT ![x] = Tail(@)]
    BY <1>2 DEF Recv, Attached, drainVars, Open
  <2> QED BY <2>1, ReadElsewhere DEF Within
<1>3. ASSUME NEW x \in Ends, Close(p, x) PROVE \A e \in Ends : Within(e)
  <2>1. /\ UNCHANGED <<drained, disconnected>> /\ x \in Open
        /\ kernel'[x] \in {kernel[x], <<>>} /\ \A e \in Ends \ {x} : kernel'[e] = kernel[e]
    BY <1>3 DEF Close, drainVars, Open, TypeOK, KernelType
  <2> QED BY <2>1 DEF Within
<1>4. CASE \/ ThreadsSuspend(p) \/ LeaderElection(p) \/ Resume(p) \/ BeginDrain(p)
           \/ \E e \in Ends : SetOwn(p, e) \/ DoLocking(p, e)
  BY <1>4 DEF ThreadsSuspend, LeaderElection, Resume, BeginDrain, SetOwn, DoLocking, Within, kernelVars, drainVars
<1> QED BY <1>1, <1>2, <1>3, <1>4 DEF StillStep

(* The steps of the drain.                                                  *)
LEMMA DrainWithin ==
    ASSUME TypeOK, Loops, Elected, DrainBuffers, NEW p \in Procs, DrainStep(p)
    PROVE  \A e \in Ends : Within(e)
<1> ConType /\ DrainType /\ KernelType
  BY DEF TypeOK
<1>1. CASE PreCkpt(p) \/ WriteImage(p)
  BY <1>1 DEF PreCkpt, WriteImage, Within, kernelVars, drainVars
<1>2. ASSUME NEW x \in Ends, DrainWrite(p, x) PROVE \A e \in Ends : Within(e)
  <2>1. UNCHANGED <<drained, disconnected>>
    BY <1>2 DEF DrainWrite
  <2>2. CASE kernel' = kernel
    BY <2>1, <2>2 DEF Within
  <2>3. CASE Peer[x] \in Open /\ RoomIf(x, doubled) /\ Write(x, Cookie)
    BY <2>1, <2>3, WriteElsewhere, ItemFacts DEF Within
  <2> QED BY <1>2, <2>2, <2>3 DEF DrainWrite, Room
<1>3. ASSUME NEW x \in Ends, DrainRead(p, x) PROVE \A e \in Ends : Within(e)
  <2>1. /\ disconnected' = disconnected /\ x \in Open
        /\ kernel[x] # <<>> /\ kernel' = [kernel EXCEPT ![x] = Tail(@)]
        /\ \A e \in Ends \ {x} : drained'[e] = drained[e]
    BY <1>3 DEF DrainRead, DrainType, Loops, LoopOf, Led, Held, Open
  <2> QED BY <2>1, ReadElsewhere DEF Within
<1>4. ASSUME NEW x \in Ends, DrainComplete(p, x) PROVE \A e \in Ends : Within(e)
  <2>1. /\ UNCHANGED <<disconnected, kernel>> /\ x \in Open
        /\ \A e \in Ends \ {x} : drained'[e] = drained[e]
    BY <1>4 DEF DrainComplete, DrainType, Loops, LoopOf, Led, Held, Open, kernelVars
  <2> QED BY <2>1 DEF Within
<1>5. ASSUME NEW x \in Ends, OnDisconnect(p, x) PROVE \A e \in Ends : Within(e)
  <2>1. /\ x \in Led(p) /\ x \in Open /\ kernel[x] = <<>> /\ Peer[x] \notin Open
        /\ kernel'[x] = drained[x] /\ disconnected'[x] = drained[x] /\ pc[p] = "draining" /\ x \in todo[p]
        /\ \A e \in Ends \ {x} : /\ drained'[e] = drained[e] /\ kernel'[e] = kernel[e]
                                 /\ disconnected'[e] = disconnected[e]
    BY <1>5 DEF OnDisconnect, DrainType, KernelType, Loops, LoopOf, Led, Held, Open
  <2> QED BY <2>1 DEF Within
<1>6. ASSUME NEW x \in Ends, SendHandshake(p, x) PROVE \A e \in Ends : Within(e)
  <2>1. /\ UNCHANGED <<drained, disconnected>> /\ RoomIf(x, doubled) /\ Write(x, Handshake(x))
        /\ pc[p] = "greeting" /\ x \in Live(p)
    BY <1>6 DEF SendHandshake, drainVars, Room, Loops, LoopOf
  <2>2. Lead(p, x) /\ ~Drains(p, x) /\ type[x] # "ERROR"
    BY <2>1, OneLead DEF Drains, Live
  <2>3. Peer[x] \in Open
    BY <2>2 DEF DrainBuffers, DrainDead
  <2> QED BY <2>1, <2>3, WriteElsewhere, ItemFacts DEF Within
<1>7. ASSUME NEW x \in Ends, RecvHandshake(p, x) PROVE \A e \in Ends : Within(e)
  <2>1. /\ UNCHANGED <<disconnected, drained>> /\ x \in Open
        /\ kernel[x] # <<>> /\ kernel' = [kernel EXCEPT ![x] = Tail(@)]
    BY <1>7 DEF RecvHandshake, drainVars, Loops, LoopOf, Live, Led, Held, Open
  <2> QED BY <2>1, ReadElsewhere DEF Within
<1> QED BY <1>1, <1>2, <1>3, <1>4, <1>5, <1>6, <1>7 DEF DrainStep

(* The steps of the refill.                                                 *)
LEMMA RefillWithin ==
    ASSUME TypeOK, Loops, Elected, RefillBuffers, Echoes, NEW p \in Procs,
           MendStep(p) \/ RefillStep(p)
    PROVE  \A e \in Ends : Within(e)
<1> LoopType /\ DrainType /\ KernelType
  BY DEF TypeOK
<1>1. CASE \/ RegisterNSData(p) \/ SendQueries(p) \/ FdsShared(p) \/ BeginRefill(p)
           \/ \E e \in Ends : Connect(p, e) \/ Accept(p, e) \/ ReceiveFd(p, e)
           \/ \E e \in Ends, q \in Procs : SendFd(p, q, e)
  BY <1>1 DEF RegisterNSData, SendQueries, FdsShared, BeginRefill, Connect, Accept, ReceiveFd, SendFd,
              Within, kernelVars, drainVars
<1>2. CASE PostRestart(p)
  <2>1. UNCHANGED <<drained, disconnected>>
    BY <1>2 DEF PostRestart, drainVars
  <2>2. \A e \in Ends : kernel'[e] = kernel[e] \/ (e \in Led(p) /\ kernel'[e] = disconnected[e])
    BY <1>2 DEF PostRestart
  <2>3. \A e \in Led(p) : e \in Open
    BY DEF Led, Held, Open
  <2> QED BY <2>1, <2>2, <2>3 DEF Within
<1>3. CASE RestoreOptions(p)
  BY <1>3 DEF RestoreOptions, Within
<1>4. ASSUME NEW x \in Ends, RefillHeader(p, x) PROVE \A e \in Ends : Within(e)
  <2>1. /\ UNCHANGED <<drained, disconnected>> /\ RoomIf(x, doubled') /\ Write(x, Refill(Len(drained[x])))
        /\ pc[p] = "writing" /\ x \in Live(p)
    BY <1>4 DEF RefillHeader, IsNext, drainVars, Loops, LoopOf
  <2>2. Peer[x] \in Open
    BY <2>1, InUse
  <2>3. Refill(Len(drained[x])) \in Item
    BY ItemFacts, LenProperties DEF DrainType
  <2>4. PICK w, i : w = doubled' /\ i = Refill(Len(drained[x]))
    OBVIOUS
  <2> QED BY <2>1, <2>2, <2>3, <2>4, WriteElsewhere DEF Within
<1>5. ASSUME RefillData(p) PROVE \A e \in Ends : Within(e)
  <2>1. PICK x \in Ends : x = cur[p] /\ x \in todo[p] /\ x # None
    BY <1>5 DEF RefillData, Loops, LoopOf, LoopType
  <2>2. PICK i : i = Head(drained[x])
    OBVIOUS
  <2>3. /\ disconnected' = disconnected /\ RoomIf(x, doubled) /\ Write(x, i)
        /\ pc[p] = "writing" /\ x \in Live(p) /\ drained[x] # <<>>
        /\ \A e \in Ends \ {x} : drained'[e] = drained[e]
    BY <1>5, <2>1, <2>2 DEF RefillData, Room, Loops, LoopOf, DrainType
  <2>4. Peer[x] \in Open /\ x \in Open
    BY <2>3, InUse
  <2>5. i \in Item
    BY <2>2, <2>3, HeadTailProperties DEF DrainType
  <2> QED BY <2>3, <2>4, <2>5, WriteElsewhere DEF Within
<1>6. ASSUME NEW x \in Ends, EchoHeader(p, x) PROVE \A e \in Ends : Within(e)
  <2>1. /\ UNCHANGED <<disconnected, drained>> /\ x \in Open
        /\ kernel[x] # <<>> /\ kernel' = [kernel EXCEPT ![x] = Tail(@)]
    BY <1>6 DEF EchoHeader, IsNext, drainVars, Loops, LoopOf, Live, Led, Held, Open
  <2> QED BY <2>1, ReadElsewhere DEF Within
<1>7. ASSUME EchoRead(p) PROVE \A e \in Ends : Within(e)
  <2>1. PICK x \in Ends : x = cur[p] /\ x \in todo[p] /\ cur[p] # None
    BY <1>7 DEF EchoRead, Loops, LoopOf, LoopType
  <2>2. /\ UNCHANGED <<disconnected, drained>> /\ x \in Open
        /\ kernel[x] # <<>> /\ kernel' = [kernel EXCEPT ![x] = Tail(@)]
    BY <1>7, <2>1 DEF EchoRead, drainVars, Loops, LoopOf, Live, Led, Held, Open
  <2> QED BY <2>2, ReadElsewhere DEF Within
<1>8. ASSUME EchoWrite(p) PROVE \A e \in Ends : Within(e)
  <2>1. PICK x \in Ends : x = cur[p] /\ x \in todo[p] /\ x # None
    BY <1>8 DEF EchoWrite, Loops, LoopOf, LoopType
  <2>2. PICK i : i = Head(tmp[p])
    OBVIOUS
  <2>3. /\ UNCHANGED <<drained, disconnected>> /\ RoomIf(x, doubled) /\ Write(x, i)
        /\ pc[p] = "echoing" /\ x \in Live(p) /\ tmp[p] # <<>>
    BY <1>8, <2>1, <2>2 DEF EchoWrite, Room, Loops, LoopOf, drainVars
  <2>4. Peer[x] \in Open
    BY <2>3, InUse
  <2>5. i \in Item
    BY <2>2, <2>3, HeadTailProperties DEF LoopType
  <2> QED BY <2>3, <2>4, <2>5, WriteElsewhere DEF Within
<1> QED BY <1>1, <1>2, <1>3, <1>4, <1>5, <1>6, <1>7, <1>8 DEF MendStep, RefillStep

(* Every step of a process.                                                 *)
LEMMA WithinStep ==
    ASSUME IndInv, BufInv, NEW p \in Procs, Application(p) \/ CkptThread(p) PROVE \A e \in Ends : Within(e)
<1> TypeOK /\ Phases /\ Loops /\ Echoes /\ Buffers
  BY DEF IndInv, BufInv
<1>1. CASE StillStep(p) \/ BeginDrain(p)
  BY <1>1, StillWithin
<1>2. CASE DrainStep(p)
  <2>1. DrainBuffers /\ Elected
    BY <1>2, DrainPhase DEF Buffers
  <2> QED BY <1>2, <2>1, DrainWithin
<1>3. CASE MendStep(p) \/ RefillStep(p)
  <2>1. RefillBuffers /\ Elected
    BY <1>3, RefillPhase DEF Buffers
  <2> QED BY <1>3, <2>1, RefillWithin
<1> QED BY <1>1, <1>2, <1>3, WhichStep

(* What changes the ids of the peers.                                       *)
LEMMA WhoKnows ==
    ASSUME NEW p \in Procs, Application(p) \/ CkptThread(p)
    PROVE  remotePeerId' = remotePeerId \/ ThreadsSuspend(p) \/ \E e \in Ends : Close(p, e) \/ RecvHandshake(p, e)
<1> USE DEF conVars
<1>1. CASE StillStep(p) \/ BeginDrain(p)
  BY <1>1 DEF StillStep, LeaderElection, Resume, Send, Recv, SetOwn, DoLocking, BeginDrain
<1>2. CASE DrainStep(p)
  BY <1>2 DEF DrainStep, PreCkpt, WriteImage, DrainWrite, DrainRead, DrainComplete, OnDisconnect, SendHandshake
<1>3. CASE MendStep(p)
  BY <1>3 DEF MendStep, PostRestart, RegisterNSData, SendQueries, FdsShared, BeginRefill, RestoreOptions,
              Connect, Accept, ReceiveFd, SendFd
<1>4. CASE RefillStep(p)
  BY <1>4 DEF RefillStep, RefillData, EchoRead, EchoWrite, RefillHeader, EchoHeader
<1> QED BY <1>1, <1>2, <1>3, <1>4, WhichStep

(* The ends of a connection keep knowing each other.                        *)
LEMMA KnownStep == IndInv /\ BufInv /\ Next => Known'
<1> SUFFICES ASSUME IndInv, BufInv, Next PROVE Known'
  OBVIOUS
<1> TypeOK /\ Phases /\ Loops /\ Known /\ Unused /\ ImageBuffers /\ Buffers
  BY DEF BufInv, IndInv
<1> ConType
  BY DEF TypeOK
<1>1. CASE Request
  BY <1>1 DEF Request, Known, Open, kernelVars, drainVars, conVars
<1>2. CASE Restart
  <2>1. image # NoImage /\ \A e \in Ends : Peer[e] \in Ends /\ (e \in Open' <=> image.holders[e] # {})
    BY <1>2, PeerFacts DEF Restart, Open
  <2> QED BY <1>2, <2>1 DEF Restart, Known, ImageBuffers
<1>3. ASSUME NEW p \in Procs, Application(p) \/ CkptThread(p) PROVE Known'
  <2>1. Open' \subseteq Open
    BY <1>3, OpenShrinks
  <2>2. ASSUME NEW e \in Ends
        PROVE  /\ type'[e] \in {"ERROR", IF e \in Accepting THEN "ACCEPT" ELSE "CONNECT"}
               /\ type'[e] = "ERROR" => Peer[e] \notin Open
    <3>1. CASE type' = type
      BY <3>1 DEF Known
    <3>2. ASSUME NEW x \in Ends, OnDisconnect(p, x)
          PROVE  /\ type'[e] \in {"ERROR", IF e \in Accepting THEN "ACCEPT" ELSE "CONNECT"}
                 /\ type'[e] = "ERROR" => Peer[e] \notin Open
      BY <3>2 DEF OnDisconnect, Known, ConType
    <3> QED BY <1>3, <3>1, <3>2, OtherBuffers
  <2>3. ASSUME NEW e \in Ends, NEW q \in Procs PROVE remotePeerId'[q][e] \in {None, Peer[e]}
    <3>1. CASE remotePeerId' = remotePeerId
      BY <3>1 DEF Known
    <3>2. ASSUME NEW x \in Ends, Close(p, x) PROVE remotePeerId'[q][e] \in {None, Peer[e]}
      BY <3>2 DEF Close, Known, ConType
    <3>3. ASSUME NEW x \in Ends, RecvHandshake(p, x) PROVE remotePeerId'[q][e] \in {None, Peer[e]}
      <4>1. DrainStep(p) /\ pc[p] = "greeted"
        BY <3>3 DEF DrainStep, RecvHandshake
      <4>2. DrainBuffers /\ Elected /\ Among(Greet)
        BY <1>3, <4>1, DrainPhase, WhichPhase DEF Buffers
      <4>3. remotePeerId'[p][x] = Peer[x]
        BY <3>3, <4>2, RecvHandshakeStep
      <4>4. q # p \/ e # x => remotePeerId'[q][e] = remotePeerId[q][e]
        BY <3>3 DEF RecvHandshake, ConType
      <4> QED BY <4>3, <4>4 DEF Known
    <3>4. ASSUME ThreadsSuspend(p) PROVE remotePeerId'[q][e] \in {None, Peer[e]}
      <4>1. remotePeerId'[q][e] \in {None, remotePeerId[q][e]}
        BY <3>4 DEF ThreadsSuspend, ConType
      <4> QED BY <4>1 DEF Known
    <3> QED BY <1>3, <3>1, <3>2, <3>3, <3>4, WhoKnows
  <2>4. ASSUME NEW e \in Ends, e \notin Open'
        PROVE  kernel'[e] = <<>> /\ drained'[e] = <<>> /\ disconnected'[e] = <<>>
    <3>1. CASE e \notin Open
      BY <1>3, <3>1, WithinStep DEF Within, Known
    <3>2. CASE e \in Open
      <4>1. ASSUME NEW x \in Ends, Close(p, x)
            PROVE  kernel'[e] = <<>> /\ drained'[e] = <<>> /\ disconnected'[e] = <<>>
        <5>1. x = e /\ holders[e] = {p} /\ pc[p] \in {"run", "told"}
          BY <2>4, <3>2, <4>1 DEF Open, Close, Running, TypeOK, AppType
        <5>2. Quiet
          BY <5>1, WhichPhase DEF Buffers
        <5>3. Attached(e) \subseteq {p}
          BY <5>1 DEF Attached
        <5> QED BY <4>1, <5>1, <5>2, <5>3 DEF Close, Quiet, drainVars, TypeOK, KernelType
      <4>2. ASSUME ThreadsSuspend(p)
            PROVE  kernel'[e] = <<>> /\ drained'[e] = <<>> /\ disconnected'[e] = <<>>
        <5>1. /\ holders[e] \subseteq {p} /\ <<p, e>> \notin wired /\ pc[p] = "told"
              /\ UNCHANGED <<kernel, drained, disconnected>>
          BY <2>4, <3>2, <4>2 DEF Open, ThreadsSuspend, kernelVars, drainVars
        <5>2. Quiet
          BY <5>1, WhichPhase DEF Buffers
        <5>3. Attached(e) = {}
          BY <5>1 DEF Attached
        <5>4. e \notin Usable
          BY <5>1, <5>3, WhereTheyAre, InPlace
        <5> QED BY <5>1, <5>2, <5>4 DEF Quiet, Unused
      <4> QED BY <1>3, <2>4, <3>2, <4>1, <4>2, WhoChanges DEF Open
    <3> QED BY <3>1, <3>2
  <2> QED BY <2>1, <2>2, <2>3, <2>4 DEF Known
<1> QED BY <1>1, <1>2, <1>3 DEF Next

(* Nothing is written to an end that nobody can use.                        *)
LEMMA UnusedStep == IndInv /\ BufInv /\ Next => Unused'
<1> SUFFICES ASSUME IndInv, BufInv, Next, NEW e \in Ends, e \notin Usable' PROVE kernel'[e] = <<>>
  BY DEF Unused
<1> TypeOK /\ Phases /\ Unused /\ KernelType
  BY DEF BufInv, IndInv, TypeOK
<1>1. CASE Request
  BY <1>1 DEF Request, Usable, Unused, kernelVars, conVars
<1>2. CASE Restart
  BY <1>2 DEF Restart
<1>3. ASSUME NEW p \in Procs, Application(p) \/ CkptThread(p) PROVE kernel'[e] = <<>>
  <2>1. ASSUME NEW x \in Ends, Close(p, x) PROVE kernel'[e] = <<>>
    <3>1. CASE e \in Usable
      <4>1. Usable' = IF Attached(x) \subseteq {p} THEN Usable \ {x} ELSE Usable
        BY <2>1, UsableClose
      <4>2. e = x /\ Attached(x) \subseteq {p}
        BY <3>1, <4>1
      <4> QED BY <2>1, <4>2 DEF Close, KernelType
    <3>2. CASE e \notin Usable
      BY <2>1, <3>2 DEF Close, KernelType, Unused
    <3> QED BY <3>1, <3>2
  <2>2. ASSUME \A x \in Ends : ~Close(p, x) PROVE kernel'[e] = <<>>
    <3>1. e \notin Usable /\ kernel[e] = <<>>
      BY <1>3, <2>2, UsableStep DEF Unused
    <3>2. CASE e \notin Open
      BY <1>3, <3>1, <3>2, WithinStep DEF Within
    <3>3. CASE e \in Open
      <4>1. LeftBehind(e) /\ ~Elected /\ ~Among(Electing)
        BY <3>1, <3>3, UnusedLeft, ElectedUsable
      <4>2. StillStep(p)
        <5>1. ~BeginDrain(p)
          BY <4>1 DEF BeginDrain, Phases, Among, Electing, Drain, Greet, Back, Again, Refilling
        <5> QED BY <1>3, <4>1, <5>1, DrainPhase, RefillPhase, WhichStep
      <4>3. ASSUME NEW x \in Ends, Send(p, x) PROVE kernel'[e] = <<>>
        <5>1. x \in Open
          BY <4>3 DEF Send, Attached, Open
        <5>2. e # Peer[x]
          BY <4>1, <5>1, PeerFacts DEF LeftBehind
        <5> QED BY <3>1, <4>3, <5>2 DEF Send, Write, KernelType
      <4>4. ASSUME NEW x \in Ends, Recv(p, x) PROVE kernel'[e] = <<>>
        <5>1. e # x
          BY <3>1, <4>4 DEF Recv, Attached, Usable
        <5> QED BY <3>1, <4>4, <5>1 DEF Recv, KernelType
      <4>5. CASE \/ ThreadsSuspend(p) \/ LeaderElection(p) \/ Resume(p)
                 \/ \E x \in Ends : SetOwn(p, x) \/ DoLocking(p, x)
        BY <3>1, <4>5 DEF ThreadsSuspend, LeaderElection, Resume, SetOwn, DoLocking, kernelVars
      <4> QED BY <2>2, <4>2, <4>3, <4>4, <4>5 DEF StillStep
    <3> QED BY <3>2, <3>3
  <2> QED BY <2>1, <2>2
<1> QED BY <1>1, <1>2, <1>3 DEF Next

(* What is read to be echoed is for the other end.                          *)
LEMMA EchoesStep == IndInv /\ BufInv /\ Next => Echoes'
<1> SUFFICES ASSUME IndInv, BufInv, Next PROVE Echoes'
  OBVIOUS
<1> TypeOK /\ Phases /\ Loops /\ Echoes /\ Buffers
  BY DEF BufInv, IndInv
<1> LoopType /\ pc \in [Procs -> Stages]
  BY DEF TypeOK
<1>1. CASE Request
  BY <1>1 DEF Request, Echoes, EchoOf, loopVars
<1>2. CASE Restart
  BY <1>2 DEF Restart, Echoes, EchoOf
<1>3. ASSUME NEW p \in Procs, Application(p) \/ CkptThread(p) PROVE Echoes'
  <2>1. \A q \in Procs \ {p} : EchoOf(q)'
    BY <1>3, OtherLoops DEF Echoes, EchoOf
  <2>2. EchoOf(p)'
    <3>1. CASE EchoRead(p) \/ EchoWrite(p)
      <4>1. RefillStep(p)
        BY <3>1 DEF RefillStep
      <4>2. PuttingBack /\ Elected /\ RefillBuffers
        BY <1>3, <4>1, RefillPhase DEF Buffers
      <4> QED BY <3>1, <4>2, EchoReadStep, EchoWriteStep
    <3>2. ASSUME NEW e \in Ends, EchoHeader(p, e) PROVE EchoOf(p)'
      <4>1. tmp[p] = <<>> /\ tmp' = tmp
        BY <3>2 DEF EchoHeader, Echoes, EchoOf
      <4>2. \A S : <<>> \in Seq(S)
        BY EmptySeq
      <4> QED BY <4>1, <4>2 DEF EchoOf
    <3>3. ASSUME RefillData(p) \/ \E e \in Ends : RefillHeader(p, e) PROVE EchoOf(p)'
      <4>1. pc[p] = "writing" /\ tmp[p] = <<>> /\ tmp' = tmp
        BY <3>3 DEF RefillData, RefillHeader, Echoes, EchoOf
      <4>2. \A S : <<>> \in Seq(S)
        BY EmptySeq
      <4> QED BY <4>1, <4>2 DEF EchoOf
    <3>4. ASSUME MendStep(p) \/ StillStep(p) \/ BeginDrain(p) \/ DrainStep(p) PROVE EchoOf(p)'
      <4>1. tmp' = tmp
        <5>1. CASE MendStep(p)
          BY <5>1 DEF MendStep, PostRestart, RegisterNSData, SendQueries, FdsShared, BeginRefill,
                      RestoreOptions, Connect, Accept, ReceiveFd, SendFd, loopVars
        <5>2. CASE StillStep(p) \/ BeginDrain(p)
          BY <5>2 DEF StillStep, ThreadsSuspend, LeaderElection, Resume, Send, Recv, SetOwn, Close, DoLocking,
                      BeginDrain, loopVars
        <5>3. CASE DrainStep(p)
          BY <5>3 DEF DrainStep, PreCkpt, WriteImage, DrainWrite, DrainRead, DrainComplete, OnDisconnect,
                      SendHandshake, RecvHandshake, loopVars
        <5> QED BY <3>4, <5>1, <5>2, <5>3
      <4>2. CASE pc[p] = "echoing"
        <5>1. RestoreOptions(p) \/ RefillStep(p)
          BY <1>3, <4>2, WhoRefills DEF RefillStep
        <5>2. CASE RestoreOptions(p)
          <6>1. cur[p] = None /\ pc'[p] # "echoing"
            BY <5>2 DEF RestoreOptions, Loop, Goto, Loops, LoopOf
          <6> QED BY <4>1, <6>1 DEF Echoes, EchoOf
        <5>3. CASE RefillStep(p)
          BY <3>1, <3>2, <3>3, <5>3 DEF RefillStep
        <5> QED BY <5>1, <5>2, <5>3
      <4>3. CASE pc[p] # "echoing"
        <5>1. tmp[p] = <<>>
          BY <4>3 DEF Echoes, EchoOf
        <5>2. \A S : <<>> \in Seq(S)
          BY EmptySeq
        <5> QED BY <4>1, <5>1, <5>2 DEF EchoOf
      <4> QED BY <4>2, <4>3
    <3> QED BY <1>3, <3>1, <3>2, <3>3, <3>4, WhichStep DEF RefillStep
  <2> QED BY <2>1, <2>2 DEF Echoes
<1> QED BY <1>1, <1>2, <1>3 DEF Next

(* All ends that wait for a connection register before any is looked up.    *)
LEMMA RegisteredStep == IndInv /\ BufInv /\ Next => Registered'
<1> SUFFICES ASSUME IndInv, BufInv, Next, Among(Again)', isRestart', NEW q \in Procs
             PROVE  IF pc'[q] \in {"restarting", "restored"}
                    THEN \A r \in Procs : pc'[r] # "connecting"
                    ELSE {e \in Led(q)' : type'[e] = "ACCEPT"} \subseteq nameService'
  BY DEF Registered
<1> TypeOK /\ Phases /\ Loops /\ Registered
  BY DEF BufInv, IndInv
<1> pc \in [Procs -> Stages]
  BY DEF TypeOK
<1>1. CASE Request
  BY <1>1 DEF Request
<1>2. CASE Restart
  BY <1>2 DEF Restart
<1>3. ASSUME NEW p \in Procs, Application(p) \/ CkptThread(p)
      PROVE  IF pc'[q] \in {"restarting", "restored"}
             THEN \A r \in Procs : pc'[r] # "connecting"
             ELSE {e \in Led(q)' : type'[e] = "ACCEPT"} \subseteq nameService'
  <2>1. pc'[p] \in Again
    BY DEF Among
  <2>2. ~StillStep(p) /\ ~BeginDrain(p) /\ ~DrainStep(p)
    BY <1>3, <2>1, StillPhase, DrainPhase DEF BeginDrain, Loop, Goto, Again, Refilling
  <2>3. MendStep(p) \/ RefillStep(p)
    BY <1>3, <2>2, WhichStep
  <2>4. Among(Again) /\ isRestart
    BY <1>3, <2>3, RefillPhase DEF PuttingBack
  <2>5. \A r \in Procs \ {p} : pc'[r] = pc[r]
    BY <1>3, OtherLoops
  <2>6. UNCHANGED <<holders, locked, type>>
    <3>1. CASE MendStep(p)
      BY <3>1 DEF MendStep, PostRestart, RegisterNSData, SendQueries, FdsShared, BeginRefill,
                  RestoreOptions, Connect, Accept, ReceiveFd, SendFd, appVars, conVars
    <3>2. CASE RefillStep(p)
      BY <3>2 DEF RefillStep, RefillData, EchoRead, EchoWrite, RefillHeader, EchoHeader, appVars, conVars
    <3> QED BY <2>3, <3>1, <3>2
  <2>7. \A r \in Procs : Led(r)' = Led(r)
    BY <2>6 DEF Led, Held
  <2>8. CASE PostRestart(p)
    <3>1. pc[p] = "restarting" /\ pc'[p] = "restored" /\ nameService' = nameService
      BY <2>8 DEF PostRestart, Goto
    <3> QED BY <2>4, <2>5, <2>6, <2>7, <3>1 DEF Registered
  <2>9. CASE RegisterNSData(p)
    <3>1. /\ pc[p] = "restored" /\ pc'[p] = "registered"
          /\ nameService' = nameService \cup {e \in Led(p) : type[e] = "ACCEPT"}
      BY <2>9 DEF RegisterNSData, Goto
    <3> QED BY <2>4, <2>5, <2>6, <2>7, <3>1 DEF Registered
  <2>10. CASE SendQueries(p)
    <3>1. /\ pc[p] = "registered" /\ pc'[p] = "connecting" /\ nameService' = nameService
          /\ \A r \in Procs : pc[r] \in {"registered", "connecting"}
      BY <2>10 DEF SendQueries, Loop, Goto, Barrier, restartVars
    <3> QED BY <2>4, <2>5, <2>6, <2>7, <3>1 DEF Registered
  <2>11. CASE ~PostRestart(p) /\ ~RegisterNSData(p) /\ ~SendQueries(p)
    <3> DEFINE Goal == /\ pc[p] \notin {"restarting", "restored"} /\ pc'[p] \notin {"restarting", "restored"}
                       /\ pc'[p] = "connecting" => pc[p] = "connecting"
                       /\ nameService' = nameService
    <3> USE DEF Loop, Goto, restartVars
    <3>1. ASSUME FdsShared(p) \/ BeginRefill(p) PROVE Goal
      BY <3>1 DEF FdsShared, BeginRefill
    <3>2. ASSUME RestoreOptions(p) PROVE Goal
      BY <3>2 DEF RestoreOptions
    <3>3. ASSUME NEW e \in Ends, NEW r \in Procs, Connect(p, e) \/ Accept(p, e) \/ ReceiveFd(p, e) \/ SendFd(p, r, e)
          PROVE  Goal
      BY <3>3 DEF Connect, Accept, ReceiveFd, SendFd
    <3>4. ASSUME RefillData(p) \/ \E e \in Ends : RefillHeader(p, e) PROVE Goal
      BY <3>4 DEF RefillData, RefillHeader, Written, DoneThen
    <3>5. ASSUME EchoRead(p) \/ EchoWrite(p) \/ \E e \in Ends : EchoHeader(p, e) PROVE Goal
      BY <3>5 DEF EchoRead, EchoWrite, EchoHeader
    <3>6. Goal
      BY <2>3, <2>11, <3>1, <3>2, <3>3, <3>4, <3>5 DEF MendStep, RefillStep
    <3> QED BY <2>4, <2>5, <2>6, <2>7, <3>6 DEF Registered
  <2> QED BY <2>8, <2>9, <2>10, <2>11
<1> QED BY <1>1, <1>2, <1>3 DEF Next

(* The images hold what was drained.                                        *)
LEMMA ImageBuffersStep == IndInv /\ BufInv /\ Next => ImageBuffers'
<1> SUFFICES ASSUME IndInv, BufInv, Next PROVE ImageBuffers'
  OBVIOUS
<1> TypeOK /\ Phases /\ Loops /\ Known /\ ImageBuffers /\ Buffers
  BY DEF BufInv, IndInv
<1> pc \in [Procs -> Stages]
  BY DEF TypeOK
<1>1. CASE image' = image
  BY <1>1 DEF ImageBuffers
<1>2. ASSUME NEW p \in Procs, Application(p) \/ CkptThread(p), WriteImage(p), image' # image PROVE ImageBuffers'
  <2>1. image' = Memory /\ pc[p] = "greeted" /\ todo[p] = {} /\ \A q \in Procs \ {p} : pc[q] = "checkpointed"
    BY <1>2 DEF WriteImage
  <2>2. DrainStep(p)
    BY <1>2 DEF DrainStep
  <2>3. DrainBuffers /\ Elected
    BY <1>2, <2>2, DrainPhase DEF Buffers
  <2>4. \A l \in Procs, e \in Ends : /\ ~Drains(l, e) /\ Heard(l, e)
                                     /\ l \in holders[e] /\ <<l, e>> \in locked => Lead(l, e)
    BY <2>1 DEF Drains, Heard, Lead
  <2>5. \A e \in Ends : Peer[e] \in Ends /\ (e \in Open <=> holders[e] # {}) /\ \A q \in holders[e] : q \in Procs
    BY PeerFacts DEF Open, TypeOK, AppType
  <2>6. ASSUME NEW e \in Ends, holders[e] # {}, holders[Peer[e]] = {}
        PROVE  type[e] = "ERROR" /\ drained[e] = <<>> /\ disconnected[e] \in Seq(DataFor(e))
    <3>1. PICK l \in Procs : Lead(l, e)
      BY <2>3, <2>5, <2>6, OneLead
    <3> QED BY <2>3, <2>4, <2>5, <2>6, <3>1 DEF DrainBuffers, DrainDead
  <2>7. ASSUME NEW e \in Ends, holders[e] # {}, holders[Peer[e]] # {}
        PROVE  /\ type[e] # "ERROR" /\ drained[e] \in Seq(DataFor(e))
               /\ \A q \in holders[e] : <<q, e>> \in locked => remotePeerId[q][e] = Peer[e]
    <3>1. PICK m \in Procs : Lead(m, Peer[e])
      BY <2>3, <2>5, <2>7, OneLead
    <3>2. \A l \in Procs : Lead(l, e) => DrainPair(l, m, e)
      BY <2>3, <2>5, <2>7, <3>1 DEF DrainBuffers
    <3>3. PICK l \in Procs : Lead(l, e)
      BY <2>3, <2>5, <2>7, OneLead
    <3>4. type[e] # "ERROR" /\ drained[e] \in Seq(DataFor(e))
      BY <2>4, <3>2, <3>3 DEF DrainPair
    <3>5. \A q \in holders[e] : <<q, e>> \in locked => remotePeerId[q][e] = Peer[e]
      BY <2>4, <2>5, <3>2 DEF DrainPair
    <3> QED BY <3>4, <3>5
  <2>8. /\ image'.holders = holders /\ image'.type = type /\ image'.locked = locked
        /\ image'.remotePeerId = remotePeerId /\ image'.drained = drained /\ image'.disconnected = disconnected
    BY <2>1 DEF Memory
  <2>9. ASSUME NEW e \in Ends
        PROVE  /\ type[e] \in {"ERROR", IF e \in Accepting THEN "ACCEPT" ELSE "CONNECT"}
               /\ type[e] = "ERROR" => holders[Peer[e]] = {}
               /\ \A q \in Procs : remotePeerId[q][e] \in {None, Peer[e]}
               /\ holders[e] = {} => drained[e] = <<>> /\ disconnected[e] = <<>>
    BY <2>5 DEF Known
  <2>10. ASSUME NEW e \in Ends
         PROVE  IF holders[e] = {}
                THEN drained[e] = <<>> /\ disconnected[e] = <<>>
                ELSE IF holders[Peer[e]] = {}
                THEN type[e] = "ERROR" /\ drained[e] = <<>> /\ disconnected[e] \in Seq(DataFor(e))
                ELSE /\ type[e] # "ERROR" /\ drained[e] \in Seq(DataFor(e))
                     /\ \A q \in holders[e] : <<q, e>> \in locked => remotePeerId[q][e] = Peer[e]
    BY <2>6, <2>7, <2>9
  <2>11. PICK i : i = image'
    OBVIOUS
  <2>12. ASSUME NEW e \in Ends
         PROVE  /\ i.type[e] \in {"ERROR", IF e \in Accepting THEN "ACCEPT" ELSE "CONNECT"}
                /\ i.type[e] = "ERROR" => i.holders[Peer[e]] = {}
                /\ \A q \in Procs : i.remotePeerId[q][e] \in {None, Peer[e]}
                /\ IF i.holders[e] = {}
                   THEN i.drained[e] = <<>> /\ i.disconnected[e] = <<>>
                   ELSE IF i.holders[Peer[e]] = {}
                   THEN i.type[e] = "ERROR" /\ i.drained[e] = <<>> /\ i.disconnected[e] \in Seq(DataFor(e))
                   ELSE /\ i.type[e] # "ERROR" /\ i.drained[e] \in Seq(DataFor(e))
                        /\ \A q \in i.holders[e] : <<q, e>> \in i.locked => i.remotePeerId[q][e] = Peer[e]
    BY <2>8, <2>9, <2>10, <2>11
  <2> QED BY <2>11, <2>12, Zenon DEF ImageBuffers
<1>3. Request \/ Restart => image' = image
  BY DEF Request, Restart
<1> QED BY <1>1, <1>2, <1>3, WhoChanges DEF Next

------------------------------------------------------------------------------
(* Nothing has been written yet.                                            *)
LEMMA InitBufInv == Init => BufInv
<1> SUFFICES ASSUME Init PROVE BufInv
  OBVIOUS
<1>1. \A p \in Procs : pc[p] = "run"
  BY DEF Init
<1>2. Known
  BY SocketsAssumption DEF Init, Known, Open
<1>3. Unused
  BY DEF Init, Unused
<1>4. Registered
  BY DEF Init, Registered
<1>5. Echoes
  BY DEF Init, Echoes, EchoOf
<1>6. Buffers
  <2>1. \A e \in Ends : <<>> \in Seq(DataFor(e))
    BY EmptySeq
  <2>2. Quiet
    BY <2>1 DEF Init, Quiet
  <2>3. ~Draining
    BY <1>1 DEF Draining, Among, Drain, Greet
  <2>4. PuttingBack => RefillBuffers
    BY <1>1 DEF PuttingBack, Among, Back, Again, Refilling, RefillBuffers
  <2> QED BY <2>2, <2>3, <2>4 DEF Buffers
<1>7. ImageBuffers
  BY DEF Init, ImageBuffers
<1> QED BY <1>2, <1>3, <1>4, <1>5, <1>6, <1>7 DEF BufInv

(* A step that changes nothing.                                             *)
LEMMA StutterBufInv == BufInv /\ UNCHANGED vars => BufInv'
<1> SUFFICES ASSUME BufInv, UNCHANGED vars PROVE BufInv'
  OBVIOUS
<1> USE DEF vars, appVars, kernelVars, conVars, drainVars, loopVars, restartVars, runVars
<1>1. Open' = Open /\ (\A S : Among(S)' <=> Among(S)) /\ \A l, e : Lead(l, e)' <=> Lead(l, e)
  BY DEF Open, Among, Lead
<1>2. Known' /\ ImageBuffers'
  BY <1>1 DEF BufInv, Known, ImageBuffers
<1>0. Unused'
  BY DEF BufInv, Unused, Usable
<1>3. Registered'
  BY <1>1 DEF BufInv, Registered, Led, Held
<1>4. Echoes'
  BY DEF BufInv, Echoes, EchoOf
<1>5. Quiet' <=> Quiet
  BY DEF Quiet
<1>6. \A l, m, e : DrainPair(l, m, e)' <=> DrainPair(l, m, e)
  BY DEF DrainPair, Drains, Cookied, Greeted, Heard, Inbound
<1>7. \A l, e : DrainDead(l, e)' <=> DrainDead(l, e)
  BY DEF DrainDead, Drains, Inbound
<1>8. DrainedFirst' <=> DrainedFirst
  BY DEF DrainedFirst, Finished, Led, Held
<1>9. DrainBuffers' <=> DrainBuffers
  BY <1>1, <1>6, <1>7, <1>8, Zenon DEF DrainBuffers
<1>10. \A l, m, e : RefillPair(l, m, e)' <=> RefillPair(l, m, e)
  BY DEF RefillPair, Headed, Emptied, Opened
<1>11. \A l, e : RefillDead(l, e)' <=> RefillDead(l, e)
  BY DEF RefillDead
<1>12. RefillBuffers' <=> RefillBuffers
  BY <1>1, <1>10, <1>11 DEF RefillBuffers
<1>13. Buffers'
  BY <1>1, <1>5, <1>9, <1>12 DEF BufInv, Buffers, Draining, PuttingBack
<1> QED BY <1>0, <1>2, <1>3, <1>4, <1>13 DEF BufInv

(* What the sockets and the drainers hold at each point of a checkpoint and *)
(* a restart: the strengthening that Expected needs.                        *)
THEOREM BufInvHolds == Spec => []BufInv
<1>1. IndInv /\ IndInv' /\ BufInv /\ Next => BufInv'
  BY KnownStep, UnusedStep, RegisteredStep, EchoesStep, BuffersStep, ImageBuffersStep DEF BufInv
<1>2. IndInv /\ IndInv' /\ BufInv /\ [Next]_vars => BufInv'
  BY <1>1, StutterBufInv
<1> QED BY <1>2, InitBufInv, IndInvHolds, PTL DEF Spec

(* Every message that a leader waits for is the one it finds: recvHandshake *)
(* finds the handshake of the peer, refill the header, sendQueries an id    *)
(* that has been registered.                                                *)
THEOREM FindsWhatItExpects == Spec => []Expected
<1>1. IndInv /\ BufInv => Expected
  <2> SUFFICES ASSUME IndInv, BufInv PROVE Expected
    OBVIOUS
  <2> TypeOK /\ Phases /\ Loops /\ Known /\ Registered /\ Buffers
    BY DEF BufInv, IndInv
  <2>2. ASSUME NEW p \in Procs, NEW e \in todo[p], pc[p] \in {"greeted", "echoing", "connecting"}
        PROVE  /\ e \in Ends /\ e \in Live(p) /\ Lead(p, e) /\ type[e] # "ERROR" /\ Elected
               /\ pc[p] = "greeted" => DrainBuffers
               /\ pc[p] # "greeted" => RefillBuffers
               /\ \E m \in Procs : Lead(m, Peer[e]) /\ Peer[e] \in Open
    <3>1. e \in Live(p) /\ e \in Ends /\ type[e] # "ERROR"
      BY <2>2 DEF Loops, LoopOf, Live, Led, Held
    <3>2. /\ pc[p] = "greeted" => DrainBuffers /\ Elected
          /\ pc[p] # "greeted" => RefillBuffers /\ Elected
      BY <2>2, WhichPhase DEF Buffers
    <3>3. Lead(p, e)
      BY <2>2, <3>1 DEF Live, Led, Held, Lead
    <3>4. Peer[e] \in Open
      <4>1. pc[p] = "greeted" => ~Drains(p, e)
        BY DEF Drains
      <4> QED BY <3>1, <3>2, <3>3, <4>1 DEF DrainBuffers, DrainDead, RefillBuffers, RefillDead
    <3>5. \E m \in Procs : Lead(m, Peer[e])
      BY <2>2, <3>1, <3>2, <3>4, OneLead, PeerFacts
    <3> QED BY <2>2, <3>1, <3>2, <3>3, <3>4, <3>5
  <2>3. ASSUME NEW p \in Procs, NEW e \in todo[p], pc[p] = "greeted", kernel[e] # <<>>
        PROVE  Head(kernel[e]) = Handshake(Peer[e]) /\ remotePeerId[p][e] \in {None, Peer[e]}
    <3>1. PICK m \in Procs : Lead(m, Peer[e]) /\ Peer[e] \in Open
      BY <2>2, <2>3
    <3>2. DrainPair(p, m, e) /\ e \in Ends
      BY <2>2, <2>3, <3>1 DEF DrainBuffers
    <3>3. ~Drains(p, e)
      BY <2>3 DEF Drains
    <3>4. kernel[e] = <<Handshake(Peer[e])>>
      BY <2>3, <3>2, <3>3 DEF DrainPair
    <3> QED BY <3>2, <3>4 DEF Known
  <2>4. ASSUME NEW p \in Procs, NEW e \in todo[p], pc[p] = "echoing", cur[p] = None, kernel[e] # <<>>
        PROVE  Head(kernel[e]).kind = "REFILL"
    <3>1. PICK m \in Procs : Lead(m, Peer[e]) /\ Peer[e] \in Open
      BY <2>2, <2>4
    <3>2. RefillPair(p, m, e) /\ e # None
      BY <2>2, <2>4, <3>1, SocketsAssumption DEF RefillBuffers
    <3>3. ~Opened(p, e)
      BY <2>4, <3>2 DEF Opened
    <3> QED BY <2>4, <3>2, <3>3 DEF RefillPair
  <2>5. ASSUME NEW p \in Procs, NEW e \in todo[p], pc[p] = "connecting", type[e] = "CONNECT"
        PROVE  remotePeerId[p][e] \in nameService
    <3>1. PICK m \in Procs : Lead(m, Peer[e]) /\ Peer[e] \in Open
      BY <2>2, <2>5
    <3>2. RefillPair(p, m, e) /\ e \in Ends /\ Peer[e] \in Ends /\ Peer[Peer[e]] = e /\ Lead(p, e) /\ e \in Open
      BY <2>2, <2>5, <3>1, PeerFacts DEF RefillBuffers, Lead, Open
    <3>3. RefillPair(m, p, Peer[e])
      BY <2>2, <2>5, <3>1, <3>2 DEF RefillBuffers
    <3>4. type[Peer[e]] = "ACCEPT"
      <4>1. e \notin Accepting
        BY <2>5, <3>2 DEF Known
      <4>2. Peer[e] \in Accepting
        BY <3>2, <4>1, SocketsAssumption
      <4> QED BY <3>2, <3>3, <4>2 DEF Known, RefillPair
    <3>5. Among(Again) /\ isRestart /\ pc[m] # "electing"
      BY <2>5, WhereTheyAre DEF Among, Again, Refilling
    <3>6. Peer[e] \in Led(m)
      BY <3>1, <3>2, <3>5 DEF Lead, Led, Held
    <3>7. Peer[e] \in nameService
      BY <2>5, <3>4, <3>5, <3>6 DEF Registered
    <3> QED BY <3>2, <3>7 DEF RefillPair
  <2> QED BY <2>3, <2>4, <2>5 DEF Expected
<1> QED BY <1>1, IndInvHolds, BufInvHolds, PTL

------------------------------------------------------------------------------
(* The recursion of Items, up to n.                                         *)
For(e, x) == x.kind = "data" /\ x.to = e

IsKept(f, e, s, n) ==
    f = [i \in 0 .. n |->
            IF i = 0 THEN <<>>
            ELSE IF s[i].kind = "data" /\ s[i].to = e THEN Append(f[i - 1], s[i]) ELSE f[i - 1]]

Kept(e, s) == CHOOSE f : IsKept(f, e, s, Len(s))

(* There is such a function, by the smallest n for which there is none.     *)
LEMMA KeptExists == ASSUME NEW e, NEW s, NEW n \in Nat PROVE \E f : IsKept(f, e, s, n)
<1> DEFINE N == {m \in Nat : ~\E f : IsKept(f, e, s, m)}
<1> SUFFICES ASSUME N # {} PROVE FALSE
  OBVIOUS
<1>1. PICK m \in N : \A k \in N : m <= k
  <2>1. N \subseteq Nat
    OBVIOUS
  <2> HIDE DEF N
  <2> QED BY <2>1, LeastNumber
<1>2. m \in Nat /\ ~\E f : IsKept(f, e, s, m)
  OBVIOUS
<1>3. CASE m = 0
  <2>1. PICK f : f = [i \in 0 .. 0 |-> <<>>]
    OBVIOUS
  <2>2. IsKept(f, e, s, 0)
    BY <2>1 DEF IsKept
  <2> QED BY <1>2, <1>3, <2>2
<1>4. CASE m # 0
  <2>1. m - 1 \in Nat /\ m - 1 \notin N
    BY <1>1, <1>2, <1>4
  <2>2. PICK g : IsKept(g, e, s, m - 1)
    BY <2>1
  <2>3. PICK f : f = [i \in 0 .. m |->
                        IF i = 0 THEN <<>>
                        ELSE IF s[i].kind = "data" /\ s[i].to = e THEN Append(g[i - 1], s[i]) ELSE g[i - 1]]
    OBVIOUS
  <2>4. ASSUME NEW i \in 0 .. m - 1 PROVE f[i] = g[i]
    <3>1. i \in 0 .. m
      BY <1>2
    <3>2. f[i] = IF i = 0 THEN <<>>
                 ELSE IF s[i].kind = "data" /\ s[i].to = e THEN Append(g[i - 1], s[i]) ELSE g[i - 1]
      BY <2>3, <3>1
    <3>3. g[i] = IF i = 0 THEN <<>>
                 ELSE IF s[i].kind = "data" /\ s[i].to = e THEN Append(g[i - 1], s[i]) ELSE g[i - 1]
      BY <2>2 DEF IsKept
    <3> QED BY <3>2, <3>3
  <2>5. \A i \in 1 .. m : f[i - 1] = g[i - 1]
    BY <1>2, <2>4
  <2>6. IsKept(f, e, s, m)
    <3>1. PICK h : h = [i \in 0 .. m |->
                          IF i = 0 THEN <<>>
                          ELSE IF s[i].kind = "data" /\ s[i].to = e THEN Append(f[i - 1], s[i]) ELSE f[i - 1]]
      OBVIOUS
    <3>2. ASSUME NEW i \in 0 .. m PROVE f[i] = h[i]
      <4>0. i = 0 \/ i \in 1 .. m
        BY <1>2
      <4>1. i # 0 => f[i - 1] = g[i - 1]
        BY <2>5, <4>0
      <4>2. f[i] = IF i = 0 THEN <<>>
                   ELSE IF s[i].kind = "data" /\ s[i].to = e THEN Append(g[i - 1], s[i]) ELSE g[i - 1]
        BY <2>3
      <4>3. h[i] = IF i = 0 THEN <<>>
                   ELSE IF s[i].kind = "data" /\ s[i].to = e THEN Append(f[i - 1], s[i]) ELSE f[i - 1]
        BY <3>1
      <4> QED BY <4>1, <4>2, <4>3, Zenon
    <3>3. f = [i \in 0 .. m |-> f[i]] /\ h = [i \in 0 .. m |-> h[i]]
      BY <2>3, <3>1
    <3>4. f = h
      BY <3>2, <3>3
    <3> QED BY <3>1, <3>4 DEF IsKept
  <2> QED BY <1>2, <2>6
<1> QED BY <1>3, <1>4

(* Two of them agree as far as their sequences do.                          *)
LEMMA KeptAgree ==
    ASSUME NEW e, NEW s, NEW t, NEW f, NEW g, NEW n \in Nat,
           IsKept(f, e, s, n), IsKept(g, e, t, n + 1), \A i \in 1 .. n : s[i] = t[i]
    PROVE  f[n] = g[n]
<1> DEFINE N == {m \in 0 .. n : f[m] # g[m]}
<1> SUFFICES ASSUME N # {} PROVE FALSE
  OBVIOUS
<1>1. PICK m \in N : \A k \in N : m <= k
  <2>1. N \subseteq Nat
    OBVIOUS
  <2> HIDE DEF N
  <2> QED BY <2>1, LeastNumber
<1>2. m \in 0 .. n /\ f[m] # g[m]
  OBVIOUS
<1>3. m # 0
  BY <1>2 DEF IsKept
<1>4. m - 1 \in 0 .. n /\ m - 1 \notin N
  BY <1>1, <1>2, <1>3
<1>5. f[m - 1] = g[m - 1] /\ s[m] = t[m] /\ m \in 0 .. n /\ m \in 0 .. n + 1
  BY <1>2, <1>3, <1>4
<1>6. f[m] = IF s[m].kind = "data" /\ s[m].to = e THEN Append(f[m - 1], s[m]) ELSE f[m - 1]
  BY <1>3, <1>5 DEF IsKept
<1>7. g[m] = IF t[m].kind = "data" /\ t[m].to = e THEN Append(g[m - 1], t[m]) ELSE g[m - 1]
  BY <1>3, <1>5 DEF IsKept
<1> QED BY <1>2, <1>5, <1>6, <1>7, Zenon

(* Items is that recursion, all the way.                                    *)
LEMMA ItemsIsKept == ASSUME NEW e, NEW s PROVE Items(e, s) = Kept(e, s)[Len(s)]
BY DEF Items, Kept, IsKept

(* Items of the empty sequence, and of one with an item more.               *)
LEMMA ItemsEmpty == ASSUME NEW e PROVE Items(e, <<>>) = <<>>
<1>1. Len(<<>>) = 0 /\ \E f : IsKept(f, e, <<>>, 0)
  BY KeptExists
<1>2. IsKept(Kept(e, <<>>), e, <<>>, 0)
  BY <1>1 DEF Kept
<1>3. Kept(e, <<>>)[0] = <<>>
  BY <1>2 DEF IsKept
<1> QED BY <1>1, <1>3, ItemsIsKept

(* One more item is kept if it is data for e.                               *)
LEMMA ItemsAppend ==
    ASSUME NEW e, NEW s \in Seq(Item), NEW x \in Item
    PROVE  Items(e, Append(s, x)) = IF For(e, x) THEN Append(Items(e, s), x) ELSE Items(e, s)
<1>1. PICK n \in Nat : n = Len(s)
  BY LenProperties
<1>2. PICK t : t = Append(s, x)
  OBVIOUS
<1>3. Len(t) = n + 1 /\ (\A i \in 1 .. n : s[i] = t[i]) /\ t[n + 1] = x
  BY <1>1, <1>2, AppendProperties
<1>4. IsKept(Kept(e, s), e, s, n)
  BY <1>1, KeptExists DEF Kept
<1>5. IsKept(Kept(e, t), e, t, n + 1)
  <2>1. \E f : IsKept(f, e, t, n + 1)
    <3>1. n + 1 \in Nat
      OBVIOUS
    <3> QED BY <3>1, KeptExists, Zenon
  <2> QED BY <1>3, <2>1 DEF Kept
<1>6. Kept(e, s)[n] = Kept(e, t)[n]
  <2>1. PICK f, g : f = Kept(e, s) /\ g = Kept(e, t)
    OBVIOUS
  <2>2. IsKept(f, e, s, n) /\ IsKept(g, e, t, n + 1)
    BY <1>4, <1>5, <2>1
  <2>3. f[n] = g[n]
    <3>1. \A i \in 1 .. n : s[i] = t[i]
      BY <1>3
    <3> QED BY <2>2, <3>1, KeptAgree
  <2> QED BY <2>1, <2>3
<1>7. n + 1 \in 0 .. n + 1 /\ n + 1 # 0 /\ (n + 1) - 1 = n
  OBVIOUS
<1>8. PICK f : f = Kept(e, t)
  OBVIOUS
<1>9. f[n + 1] = IF t[n + 1].kind = "data" /\ t[n + 1].to = e THEN Append(f[n], t[n + 1]) ELSE f[n]
  BY <1>5, <1>7, <1>8 DEF IsKept
<1>10. Items(e, t) = f[n + 1] /\ Items(e, s) = f[n]
  BY <1>1, <1>3, <1>6, <1>8, ItemsIsKept
<1> QED BY <1>2, <1>3, <1>9, <1>10 DEF For

(* Items keeps the data for e and leaves out everything else.               *)
LEMMA ForData ==
    ASSUME NEW e \in Ends, NEW x \in Item
    PROVE  /\ For(e, x) <=> x \in DataFor(e)
           /\ ~For(e, x) <=> x \in Item \ DataFor(e)
<1>1. ASSUME For(e, x) PROVE x \in DataFor(e)
  <2>1. x.kind = "data" /\ x.to = e
    BY <1>1 DEF For
  <2>2. x \in [kind : {"data"}, to : Ends, n : 1 .. MaxSent]
    <3>1. \A f : Handshake(f).kind # "data"
      BY DataFacts
    <3>2. \A y \in [kind : {"HANDSHAKE"}, from : Ends] : y.kind = "HANDSHAKE"
      OBVIOUS
    <3>3. \A y \in [kind : {"REFILL"}, extraBytes : Nat] : y.kind = "REFILL"
      OBVIOUS
    <3>4. Cookie.kind = "cookie"
      BY DataFacts
    <3> QED BY <2>1, <3>2, <3>3, <3>4 DEF Item
  <2> QED BY <2>1, <2>2 DEF DataFor
<1>2. ASSUME x \in DataFor(e) PROVE For(e, x)
  BY <1>2, DataFacts DEF For
<1> QED BY <1>1, <1>2

(* What is kept is data for e, ...                                          *)
LEMMA ItemsType ==
    ASSUME NEW e \in Ends, NEW s \in Seq(Item) PROVE Items(e, s) \in Seq(DataFor(e))
<1> DEFINE B == {u \in Seq(Item) : Items(e, u) \notin Seq(DataFor(e))}
<1> SUFFICES ASSUME B # {} PROVE FALSE
  OBVIOUS
<1>1. PICK u \in B : \/ u = <<>>
                     \/ \E t \in Seq(Item) \ B, x \in Item : u = Append(t, x)
  <2>1. B \subseteq Seq(Item)
    OBVIOUS
  <2> HIDE DEF B
  <2> QED BY <2>1, SmallestSequence
<1>2. CASE u = <<>>
  <2>1. <<>> \in Seq(DataFor(e))
    BY EmptySeq
  <2> QED BY <1>2, <2>1, ItemsEmpty
<1>3. ASSUME NEW t \in Seq(Item) \ B, NEW x \in Item, u = Append(t, x) PROVE FALSE
  <2>1. PICK k \in Seq(DataFor(e)) : k = Items(e, t)
    OBVIOUS
  <2>2. Items(e, u) = IF For(e, x) THEN Append(k, x) ELSE k
    BY <1>3, <2>1, ItemsAppend
  <2>3. ASSUME For(e, x) PROVE Append(k, x) \in Seq(DataFor(e))
    BY <2>1, <2>3, ForData, AppendProperties
  <2> QED BY <2>1, <2>2, <2>3
<1> QED BY <1>1, <1>2, <1>3

(* ... from one sequence and then from the other, ...                       *)
LEMMA ItemsConcat ==
    ASSUME NEW e \in Ends, NEW s \in Seq(Item), NEW t \in Seq(Item)
    PROVE  Items(e, s \o t) = Items(e, s) \o Items(e, t)
<1> DEFINE B == {u \in Seq(Item) : Items(e, s \o u) # Items(e, s) \o Items(e, u)}
<1> SUFFICES ASSUME B # {} PROVE FALSE
  OBVIOUS
<1>1. PICK u \in B : \/ u = <<>>
                     \/ \E v \in Seq(Item) \ B, x \in Item : u = Append(v, x)
  <2>1. B \subseteq Seq(Item)
    OBVIOUS
  <2> HIDE DEF B
  <2> QED BY <2>1, SmallestSequence
<1>2. PICK a \in Seq(DataFor(e)) : a = Items(e, s)
  BY ItemsType
<1>3. CASE u = <<>>
  <2>1. s \o u = s
    BY <1>3, ConcatEmptySeq
  <2>2. a \o <<>> = a
    BY <1>2, ConcatEmptySeq
  <2> QED BY <1>2, <1>3, <2>1, <2>2, ItemsEmpty
<1>4. ASSUME NEW v \in Seq(Item) \ B, NEW x \in Item, u = Append(v, x) PROVE FALSE
  <2>1. PICK b \in Seq(DataFor(e)) : b = Items(e, v)
    BY ItemsType
  <2>2. PICK w \in Seq(Item) : w = s \o v
    BY ConcatProperties
  <2>3. Items(e, w) = a \o b
    BY <1>2, <2>1, <2>2
  <2>4. s \o u = Append(w, x)
    <3>1. s \in Seq(Item) /\ v \in Seq(Item) /\ x \in Item
      OBVIOUS
    <3>2. s \o Append(v, x) = Append(s \o v, x)
      <4> HIDE DEF B
      <4> QED BY <3>1, ConcatWrite
    <3> QED BY <1>4, <2>2, <3>2
  <2>5. Items(e, s \o u) = IF For(e, x) THEN Append(a \o b, x) ELSE a \o b
    BY <2>3, <2>4, ItemsAppend
  <2>6. Items(e, u) = IF For(e, x) THEN Append(b, x) ELSE b
    BY <1>4, <2>1, ItemsAppend
  <2>7. ASSUME For(e, x) PROVE Append(a \o b, x) = a \o Append(b, x)
    <3>1. PICK D : D = DataFor(e)
      OBVIOUS
    <3>2. a \in Seq(D) /\ b \in Seq(D) /\ x \in D
      BY <1>2, <2>1, <2>7, <3>1, ForData
    <3>3. a \o Append(b, x) = Append(a \o b, x)
      <4> HIDE DEF B
      <4> QED BY ONLY <3>2, ConcatWrite
    <3> QED BY <3>3
  <2>8. Items(e, s \o u) = Items(e, s) \o Items(e, u)
    BY <1>2, <2>5, <2>6, <2>7, Zenon
  <2> QED BY <2>8
<1> QED BY <1>1, <1>3, <1>4

(* ... all of a sequence of nothing else, ...                               *)
LEMMA ItemsData ==
    ASSUME NEW e \in Ends, NEW s \in Seq(DataFor(e)) PROVE Items(e, s) = s
<1> DEFINE B == {u \in Seq(DataFor(e)) : Items(e, u) # u}
<1> SUFFICES ASSUME B # {} PROVE FALSE
  OBVIOUS
<1>1. PICK u \in B : \/ u = <<>>
                     \/ \E t \in Seq(DataFor(e)) \ B, x \in DataFor(e) : u = Append(t, x)
  <2>1. B \subseteq Seq(DataFor(e))
    OBVIOUS
  <2> HIDE DEF B
  <2> QED BY <2>1, SmallestSequence
<1>2. CASE u = <<>>
  BY <1>2, ItemsEmpty
<1>3. ASSUME NEW t \in Seq(DataFor(e)) \ B, NEW x \in DataFor(e), u = Append(t, x) PROVE FALSE
  <2>1. Items(e, t) = t /\ t \in Seq(Item) /\ x \in Item
    BY DataFacts
  <2>2. For(e, x)
    BY <2>1, ForData
  <2>3. Items(e, u) = Append(t, x)
    BY <1>3, <2>1, <2>2, ItemsAppend
  <2> QED BY <1>3, <2>3
<1> QED BY <1>1, <1>2, <1>3

(* ... and none of a sequence without any.                                  *)
LEMMA ItemsForeign ==
    ASSUME NEW e \in Ends, NEW s \in Seq(Item \ DataFor(e)) PROVE Items(e, s) = <<>>
<1> DEFINE F == Item \ DataFor(e)
           B == {u \in Seq(F) : Items(e, u) # <<>>}
<1> SUFFICES ASSUME B # {} PROVE FALSE
  OBVIOUS
<1>1. PICK u \in B : \/ u = <<>>
                     \/ \E t \in Seq(F) \ B, x \in F : u = Append(t, x)
  <2>1. B \subseteq Seq(F)
    OBVIOUS
  <2> HIDE DEF B, F
  <2> QED BY <2>1, SmallestSequence
<1>2. CASE u = <<>>
  BY <1>2, ItemsEmpty
<1>3. ASSUME NEW t \in Seq(F) \ B, NEW x \in F, u = Append(t, x) PROVE FALSE
  <2>1. Items(e, t) = <<>> /\ x \in Item
    OBVIOUS
  <2>2. t \in Seq(Item)
    OBVIOUS
  <2>3. ~For(e, x)
    BY <2>1, ForData
  <2>4. Items(e, u) = <<>>
    BY <1>3, <2>1, <2>2, <2>3, ItemsAppend
  <2> QED BY <2>4
<1> QED BY <1>1, <1>2, <1>3

(* The first item of a sequence.                                            *)
LEMMA ItemsFirst ==
    ASSUME NEW e \in Ends, NEW s \in Seq(Item), s # <<>>
    PROVE  Items(e, s) = IF For(e, Head(s)) THEN <<Head(s)>> \o Items(e, Tail(s)) ELSE Items(e, Tail(s))
<1>1. PICK x \in Item, t \in Seq(Item) : x = Head(s) /\ t = Tail(s)
  BY HeadTailProperties
<1>2. s = <<x>> \o t /\ <<x>> \in Seq(Item) /\ <<>> \in Seq(Item) /\ <<x>> = Append(<<>>, x)
  BY <1>1, EmptySeq
<1>3. Items(e, <<x>>) = IF For(e, x) THEN <<x>> ELSE <<>>
  <2>1. PICK o \in Seq(Item) : o = <<>>
    BY <1>2
  <2>2. Items(e, o) = <<>>
    BY <2>1, ItemsEmpty
  <2>3. Items(e, Append(o, x)) = IF For(e, x) THEN Append(Items(e, o), x) ELSE Items(e, o)
    BY ItemsAppend
  <2>4. <<x>> = Append(o, x)
    BY <1>2, <2>1
  <2> QED BY <2>1, <2>2, <2>3, <2>4, Zenon
<1>4. Items(e, s) = Items(e, <<x>>) \o Items(e, t)
  BY <1>2, ItemsConcat
<1>5. PICK k \in Seq(DataFor(e)) : k = Items(e, t)
  BY ItemsType
<1>6. <<>> \o k = k
  BY <1>5, ConcatEmptySeq
<1> QED BY <1>1, <1>3, <1>4, <1>5, <1>6

(* The numbers of the items, which are all that Stream knows of them.       *)
LEMMA ValuesType ==
    ASSUME NEW e \in Ends, NEW s \in Seq(Item)
    PROVE  /\ Values(e, s) \in Seq(Nat) /\ Len(Values(e, s)) = Len(s)
           /\ \A i \in 1 .. Len(s) : Values(e, s)[i] = Value(e, s[i])
<1>1. \A x \in Item : Value(e, x) \in Nat
  <2> SUFFICES ASSUME NEW x \in Item PROVE Value(e, x) \in Nat
    OBVIOUS
  <2>1. ASSUME For(e, x) PROVE x.n \in Nat
    BY <2>1, ForData, DataFacts
  <2>2. Value(e, x) = IF For(e, x) THEN x.n ELSE 0
    BY DEF Value, For
  <2> QED BY <2>1, <2>2
<1>2. PICK n \in Nat : n = Len(s)
  BY LenProperties
<1>3. \A i \in 1 .. n : Value(e, s[i]) \in Nat
  BY <1>1, <1>2
<1>4. PICK v : v = Values(e, s)
  OBVIOUS
<1>5. v \in [1 .. n -> Nat] /\ \A i \in 1 .. n : v[i] = Value(e, s[i])
  BY <1>2, <1>3, <1>4 DEF Values
<1>6. v \in Seq(Nat)
  BY <1>5, SeqDef
<1>7. Len(v) = n
  BY <1>5, <1>6, LenProperties
<1> QED BY <1>2, <1>4, <1>5, <1>6, <1>7

(* No items have no numbers, ...                                            *)
LEMMA ValuesEmpty == ASSUME NEW e \in Ends PROVE Values(e, <<>>) = <<>>
<1>1. <<>> \in Seq(Item) /\ Len(<<>>) = 0
  BY EmptySeq
<1>2. Values(e, <<>>) \in Seq(Nat) /\ Len(Values(e, <<>>)) = 0
  BY <1>1, ValuesType
<1> QED BY <1>2, EmptySeq

(* ... one more item has one more, ...                                      *)
LEMMA ValuesAppend ==
    ASSUME NEW e \in Ends, NEW s \in Seq(Item), NEW x \in Item
    PROVE  Values(e, Append(s, x)) = Append(Values(e, s), Value(e, x))
<1>1. PICK n \in Nat : n = Len(s)
  BY LenProperties
<1>2. PICK t \in Seq(Item) : t = Append(s, x)
  BY AppendProperties
<1>3. Len(t) = n + 1 /\ (\A i \in 1 .. n : t[i] = s[i]) /\ t[n + 1] = x
  BY <1>1, <1>2, AppendProperties
<1>4. PICK v \in Seq(Nat) : v = Values(e, s)
  BY ValuesType
<1>5. PICK w \in Seq(Nat) : w = Values(e, t)
  BY ValuesType
<1>6. Len(v) = n /\ \A i \in 1 .. n : v[i] = Value(e, s[i])
  BY <1>1, <1>4, ValuesType
<1>7. Len(w) = n + 1 /\ \A i \in 1 .. n + 1 : w[i] = Value(e, t[i])
  BY <1>3, <1>5, ValuesType
<1>8. PICK y : y = Value(e, x)
  OBVIOUS
<1>9. w[n + 1] = y /\ y \in Nat
  BY <1>1, <1>3, <1>5, <1>7, <1>8
<1>10. PICK u \in Seq(Nat) : u = Append(v, y)
  BY <1>4, <1>9, AppendProperties
<1>11. Len(u) = n + 1 /\ (\A i \in 1 .. n : u[i] = v[i]) /\ u[n + 1] = y
  BY <1>4, <1>6, <1>9, <1>10, AppendProperties
<1>12. ASSUME NEW i \in 1 .. n + 1 PROVE u[i] = w[i]
  <2>1. i \in 1 .. n \/ i = n + 1
    BY <1>1
  <2>2. ASSUME i \in 1 .. n PROVE u[i] = w[i]
    <3>1. u[i] = Value(e, s[i]) /\ t[i] = s[i] /\ w[i] = Value(e, t[i])
      BY <1>3, <1>6, <1>7, <1>11, <2>2
    <3> QED BY <3>1, Zenon
  <2> QED BY <1>9, <1>11, <2>1, <2>2
<1>13. u = w
  BY <1>7, <1>11, <1>12, SeqEqual
<1> QED BY <1>2, <1>4, <1>5, <1>8, <1>10, <1>13

(* ... and the first item has the first.                                    *)
LEMMA ValuesFirst ==
    ASSUME NEW e \in Ends, NEW s \in Seq(Item), s # <<>>
    PROVE  /\ Values(e, s) # <<>> /\ Head(Values(e, s)) = Value(e, Head(s))
           /\ Tail(Values(e, s)) = Values(e, Tail(s))
<1>1. PICK n \in Nat : n = Len(s)
  BY LenProperties
<1>2. n > 0
  BY <1>1, EmptySeq
<1>3. PICK t \in Seq(Item) : t = Tail(s)
  BY HeadTailProperties
<1>4. Len(t) = n - 1 /\ \A i \in 1 .. n - 1 : t[i] = s[i + 1]
  BY <1>1, <1>2, <1>3, HeadTailProperties
<1>5. PICK v \in Seq(Nat) : v = Values(e, s)
  BY ValuesType
<1>6. PICK w \in Seq(Nat) : w = Values(e, t)
  BY ValuesType
<1>7. Len(v) = n /\ \A i \in 1 .. n : v[i] = Value(e, s[i])
  BY <1>1, <1>5, ValuesType
<1>8. Len(w) = n - 1 /\ \A i \in 1 .. n - 1 : w[i] = Value(e, t[i])
  BY <1>4, <1>6, ValuesType
<1>9. v # <<>> /\ Head(v) = v[1] /\ Head(s) = s[1]
  BY <1>1, <1>2, <1>7, EmptySeq
<1>10. PICK u \in Seq(Nat) : u = Tail(v)
  BY <1>5, <1>9, HeadTailProperties
<1>11. Len(u) = n - 1 /\ \A i \in 1 .. n - 1 : u[i] = v[i + 1]
  BY <1>2, <1>5, <1>7, <1>9, <1>10, HeadTailProperties
<1>12. ASSUME NEW i \in 1 .. n - 1 PROVE u[i] = w[i]
  <2>1. i + 1 \in 1 .. n
    BY <1>1, <1>2
  <2>2. u[i] = Value(e, s[i + 1]) /\ t[i] = s[i + 1] /\ w[i] = Value(e, t[i])
    BY <1>4, <1>7, <1>8, <1>11, <2>1
  <2> QED BY <2>2, Zenon
<1>13. u = w
  BY <1>8, <1>11, <1>12, SeqEqual
<1>14. v[1] = Value(e, s[1])
  BY <1>1, <1>2, <1>7
<1> QED BY <1>3, <1>5, <1>6, <1>9, <1>10, <1>13, <1>14

------------------------------------------------------------------------------
(* A process has the lock of an end only while it holds the end, and the    *)
(* images keep that.                                                        *)
LocksHeld ==
    /\ \A p \in Procs, e \in Ends : <<p, e>> \in locked => p \in holders[e]
    /\ image # NoImage =>
          \A p \in Procs, e \in Ends : <<p, e>> \in image.locked => p \in image.holders[e]

(* Every step of a process keeps that.                                      *)
LEMMA LocksStep ==
    ASSUME TypeOK, LocksHeld, NEW p \in Procs, Application(p) \/ CkptThread(p) PROVE LocksHeld'
<1> AppType /\ ConType
  BY DEF TypeOK
<1>1. ASSUME NEW q \in Procs, NEW e \in Ends, <<q, e>> \in locked' PROVE q \in holders'[e]
  <2>1. CASE q # p
    BY <1>1, <2>1, OtherHolds DEF LocksHeld
  <2>2. CASE q = p /\ locked' = locked /\ holders' = holders
    BY <1>1, <2>2 DEF LocksHeld
  <2>3. CASE q = p /\ BeginDrain(p)
    BY <1>1, <2>3 DEF BeginDrain, LocksHeld, Held, appVars
  <2>4. ASSUME NEW f \in Ends, q = p, DoLocking(p, f) PROVE q \in holders'[e]
    BY <1>1, <2>4 DEF DoLocking, LocksHeld, appVars
  <2>5. ASSUME NEW f \in Ends, q = p, Close(p, f) PROVE q \in holders'[e]
    BY <1>1, <2>5 DEF Close, LocksHeld, AppType
  <2>6. CASE q = p /\ ThreadsSuspend(p)
    <3>1. <<p, e>> \in locked /\ <<p, e>> \in wired
      BY <1>1, <2>6 DEF ThreadsSuspend
    <3> QED BY <2>6, <3>1 DEF ThreadsSuspend, LocksHeld
  <2> QED BY <2>1, <2>2, <2>3, <2>4, <2>5, <2>6, WhoChanges
<1>2. ASSUME image' # NoImage
      PROVE  \A q \in Procs, e \in Ends : <<q, e>> \in image'.locked => q \in image'.holders[e]
  <2>1. CASE image' = image
    BY <1>2, <2>1 DEF LocksHeld
  <2>2. CASE image' = Memory
    BY <2>2 DEF Memory, LocksHeld
  <2> QED BY <2>1, <2>2, WhoChanges DEF WriteImage
<1> QED BY <1>1, <1>2 DEF LocksHeld

(* So nobody leads an end that it has closed.                               *)
LEMMA LocksAreHeld == Spec => []LocksHeld
<1>1. Init => LocksHeld
  BY DEF Init, LocksHeld
<1>2. IndInv /\ LocksHeld /\ [Next]_vars => LocksHeld'
  <2> SUFFICES ASSUME IndInv, LocksHeld, [Next]_vars PROVE LocksHeld'
    OBVIOUS
  <2> TypeOK
    BY DEF IndInv
  <2>1. CASE Request
    BY <2>1 DEF Request, LocksHeld, conVars
  <2>2. CASE Restart
    BY <2>2 DEF Restart, LocksHeld
  <2>3. CASE UNCHANGED vars
    BY <2>3 DEF LocksHeld, vars, appVars, conVars, runVars
  <2> QED BY <2>1, <2>2, <2>3, LocksStep DEF Next
<1> QED BY <1>1, <1>2, IndInvHolds, PTL DEF Spec

(* Appending, and then the rest.                                            *)
LEMMA AppendConcat ==
    ASSUME NEW S, NEW s \in Seq(S), NEW t \in Seq(S), NEW x \in S
    PROVE  Append(s, x) \o t = s \o (<<x>> \o t)
<1>1. PICK v \in Seq(S) : v = <<x>>
  <2>1. <<x>> \in Seq(S)
    OBVIOUS
  <2> QED BY <2>1, Zenon
<1>2. Append(s, x) = s \o v
  BY <1>1, AppendIsConcat
<1>3. (s \o v) \o t = s \o (v \o t)
  BY <1>1, ConcatAssociative
<1> QED BY <1>1, <1>2, <1>3, Zenon

(* A sequence that is not empty is its front and its last item.             *)
LEMMA FrontAppend ==
    ASSUME NEW S, NEW s \in Seq(S), s # <<>>
    PROVE  Front(s) \in Seq(S) /\ s = Append(Front(s), Last(s))
<1>1. PICK n \in Nat : n = Len(s)
  BY LenProperties
<1>2. n > 0
  BY <1>1, EmptySeq
<1>3. PICK f : f = Front(s)
  OBVIOUS
<1>4. f \in Seq(S) /\ Len(f) = n - 1 /\ \A i \in 1 .. n - 1 : f[i] = s[i]
  BY <1>1, <1>2, <1>3 DEF Front
<1>5. PICK x \in S : x = Last(s) /\ x = s[n]
  BY <1>1, <1>2 DEF Last
<1>6. PICK t \in Seq(S) : t = Append(f, x)
  BY <1>4, AppendProperties
<1>7. Len(t) = n /\ (\A i \in 1 .. n - 1 : t[i] = f[i]) /\ t[n] = x
  BY <1>2, <1>4, <1>6, AppendProperties
<1>8. ASSUME NEW i \in 1 .. n PROVE s[i] = t[i]
  <2>1. i = n \/ i \in 1 .. n - 1
    BY <1>2
  <2> QED BY <1>4, <1>5, <1>7, <2>1
<1>9. s = t
  BY <1>1, <1>7, <1>8, SeqEqual
<1> QED BY <1>3, <1>4, <1>5, <1>6, <1>9

(* Four sequences one after the other, and an item that goes from the front *)
(* of one to the end of the one before.                                     *)
Joined(a, b, c, d) == a \o (b \o (c \o d))

(* A name for the concatenation, for the provers to reason about it from    *)
(* the facts below alone.                                                   *)
Cat(s, t) == s \o t

(* Brackets do not matter, and the last item of a sequence is as well the   *)
(* first one of the next.                                                   *)
LEMMA CatFacts ==
    ASSUME NEW S, NEW x \in S
    PROVE  /\ \A s, t \in Seq(S) : Cat(s, t) \in Seq(S)
           /\ \A s, t, u \in Seq(S) : Cat(Cat(s, t), u) = Cat(s, Cat(t, u))
           /\ \A s, t \in Seq(S) : Cat(Append(s, x), t) = Cat(s, Cat(<<x>>, t))
           /\ <<x>> \in Seq(S)
<1>1. \A s, t \in Seq(S) : Cat(s, t) \in Seq(S)
  BY ConcatProperties DEF Cat
<1>2. \A s, t, u \in Seq(S) : Cat(Cat(s, t), u) = Cat(s, Cat(t, u))
  BY ConcatAssociative, SMT DEF Cat
<1>3. <<x>> \in Seq(S)
  OBVIOUS
<1>4. \A s \in Seq(S) : Append(s, x) = Cat(s, <<x>>)
  BY AppendIsConcat DEF Cat
<1>5. \A s, t \in Seq(S) : Cat(Append(s, x), t) = Cat(s, Cat(<<x>>, t))
  <2> SUFFICES ASSUME NEW s \in Seq(S), NEW t \in Seq(S)
               PROVE  Cat(Append(s, x), t) = Cat(s, Cat(<<x>>, t))
    OBVIOUS
  <2>1. Cat(Cat(s, <<x>>), t) = Cat(s, Cat(<<x>>, t))
    BY <1>2, <1>3, Zenon
  <2> QED BY <1>4, <2>1, Zenon
<1> QED BY <1>1, <1>2, <1>3, <1>5

(* The move leaves the whole as it is.                                      *)
LEMMA JoinedMoves ==
    ASSUME NEW S, NEW a \in Seq(S), NEW b \in Seq(S), NEW c \in Seq(S), NEW d \in Seq(S), NEW x \in S
    PROVE  /\ Joined(Append(a, x), b, c, d) = Joined(a, <<x>> \o b, c, d)
           /\ Joined(a, Append(b, x), c, d) = Joined(a, b, <<x>> \o c, d)
           /\ Joined(a, b, Append(c, x), d) = Joined(a, b, c, <<x>> \o d)
<1>1. /\ \A s, t \in Seq(S) : Cat(s, t) \in Seq(S)
      /\ \A s, t, u \in Seq(S) : Cat(Cat(s, t), u) = Cat(s, Cat(t, u))
      /\ \A s, t \in Seq(S) : Cat(Append(s, x), t) = Cat(s, Cat(<<x>>, t))
      /\ <<x>> \in Seq(S)
  BY CatFacts, Zenon
<1>2. Cat(Append(a, x), Cat(b, Cat(c, d))) = Cat(a, Cat(Cat(<<x>>, b), Cat(c, d)))
  <2>1. PICK e \in Seq(S) : e = Cat(c, d)
    BY <1>1, Zenon
  <2>2. Cat(Append(a, x), Cat(b, e)) = Cat(a, Cat(<<x>>, Cat(b, e)))
    BY <1>1, Zenon
  <2>3. Cat(Cat(<<x>>, b), e) = Cat(<<x>>, Cat(b, e))
    BY <1>1, Zenon
  <2> QED BY <2>1, <2>2, <2>3, Zenon
<1>3. Cat(Append(b, x), Cat(c, d)) = Cat(b, Cat(Cat(<<x>>, c), d))
  <2>1. PICK e \in Seq(S) : e = Cat(c, d)
    BY <1>1, Zenon
  <2>2. Cat(Append(b, x), e) = Cat(b, Cat(<<x>>, e))
    BY <1>1, Zenon
  <2>3. Cat(Cat(<<x>>, c), d) = Cat(<<x>>, Cat(c, d))
    BY <1>1, Zenon
  <2> QED BY <2>1, <2>2, <2>3, Zenon
<1>4. Cat(Append(c, x), d) = Cat(c, Cat(<<x>>, d))
  BY <1>1, Zenon
<1> QED BY <1>2, <1>3, <1>4, Zenon DEF Joined, Cat

------------------------------------------------------------------------------
(* What is on its way to an end, in the phases up to the images.            *)
LEMMA EchoingType == ASSUME TypeOK, NEW e \in Ends PROVE Echoing(e) \in Seq(Item)
<1>1. CASE \E p \in Procs : cur[p] = Peer[e] /\ pc[p] = "echoing"
  <2>1. PICK q : q = CHOOSE p \in Procs : cur[p] = Peer[e] /\ pc[p] = "echoing"
    OBVIOUS
  <2>2. q \in Procs
    BY <1>1, <2>1
  <2> QED BY <1>1, <2>1, <2>2 DEF Echoing, TypeOK, LoopType
<1>2. CASE ~\E p \in Procs : cur[p] = Peer[e] /\ pc[p] = "echoing"
  BY <1>2, EmptySeq DEF Echoing
<1> QED BY <1>1, <1>2

(* What is ahead of the reader of e while the data are put back.            *)
Ahead(e) == kernel[e] \o (Echoing(e) \o (kernel[Peer[e]] \o drained[e]))

AheadInParts ==
    \A e \in Ends : Items(e, Ahead(e)) = Joined(Items(e, kernel[e]), Items(e, Echoing(e)),
                                                 Items(e, kernel[Peer[e]]), Items(e, drained[e]))

(* The data for e in it are those in its four parts.                        *)
LEMMA AheadItems == TypeOK => AheadInParts
<1> SUFFICES ASSUME TypeOK, NEW e \in Ends
             PROVE  Items(e, Ahead(e)) = Joined(Items(e, kernel[e]), Items(e, Echoing(e)),
                                                Items(e, kernel[Peer[e]]), Items(e, drained[e]))
  BY DEF AheadInParts
<1>1. PICK k \in Seq(Item), x \in Seq(Item), l \in Seq(Item), d \in Seq(Item) :
          k = kernel[e] /\ x = Echoing(e) /\ l = kernel[Peer[e]] /\ d = drained[e]
  BY EchoingType, PeerFacts DEF TypeOK, KernelType, DrainType
<1>2. PICK v \in Seq(Item) : v = l \o d
  BY <1>1, ConcatProperties
<1>3. PICK w \in Seq(Item) : w = x \o v
  BY <1>1, <1>2, ConcatProperties
<1>4. Items(e, v) = Items(e, l) \o Items(e, d)
  BY <1>2, ItemsConcat
<1>5. Items(e, w) = Items(e, x) \o Items(e, v)
  BY <1>3, ItemsConcat
<1>6. Items(e, k \o w) = Items(e, k) \o Items(e, w)
  BY ItemsConcat
<1> QED BY <1>1, <1>2, <1>3, <1>4, <1>5, <1>6, Zenon DEF Ahead, Joined

(* Up to the images no buffer holds anything for the other end.             *)
LEMMA OthersItems ==
    ASSUME NEW e \in Ends, NEW s \in Seq(DataFor(Peer[e]) \cup (Item \ DataFor(e)))
    PROVE  Items(e, s) = <<>>
<1>1. ASSUME NEW x \in DataFor(Peer[e]) PROVE x \in Item \ DataFor(e)
  <2>1. x \in Item /\ x.to = Peer[e]
    BY PeerFacts, DataFacts
  <2>2. \A y \in DataFor(e) : y.to = e
    BY DataFacts
  <2> QED BY <2>1, <2>2, PeerFacts
<1>2. DataFor(Peer[e]) \cup (Item \ DataFor(e)) = Item \ DataFor(e)
  BY <1>1
<1> QED BY <1>2, ItemsForeign

(* The messages of DMTCP are not data.                                      *)
LEMMA MessagesAreNoData ==
    ASSUME NEW e \in Ends, NEW f \in Ends, NEW n \in Nat
    PROVE  /\ Cookie \in Item /\ ~For(e, Cookie)
           /\ Handshake(f) \in Item /\ ~For(e, Handshake(f))
           /\ Refill(n) \in Item /\ ~For(e, Refill(n))
<1>1. Cookie \in Item /\ Handshake(f) \in Item /\ Refill(n) \in Item
  BY DEF Item, Handshake, Refill
<1>2. "cookie" # "data" /\ "HANDSHAKE" # "data" /\ "REFILL" # "data"
  OBVIOUS
<1> QED BY <1>1, <1>2, DataFacts DEF For

(* The same for what is left to read before the cookie.                     *)
LEMMA MarkedItems ==
    ASSUME NEW e \in Ends, NEW d \in Seq(Item), NEW k \in Seq(Item),
           NEW f \in Ends, e = Peer[f],
           \/ d \o k \in Seq(DataFor(f))
           \/ d \o k # <<>> /\ Last(d \o k) = Cookie /\ Front(d \o k) \in Seq(DataFor(f))
    PROVE  Items(e, k) = <<>>
<1> DEFINE G == DataFor(f) \cup (Item \ DataFor(e))
<1>1. f = Peer[e]
  BY PeerFacts
<1>2. PICK n \in Nat, m \in Nat : n = Len(d) /\ m = Len(k)
  BY LenProperties
<1>3. PICK s \in Seq(Item) : s = d \o k
  BY ConcatProperties
<1>4. Len(s) = n + m /\ \A i \in 1 .. m : s[n + i] = k[i]
  BY <1>2, <1>3, ConcatProperties
<1>5. Cookie \in G
  BY DataFacts, MessagesAreNoData, ForData
<1>6. ASSUME NEW i \in 1 .. n + m PROVE s[i] \in G
  <2>1. CASE s \in Seq(DataFor(f))
    BY <1>4, <2>1
  <2>2. CASE s # <<>> /\ Last(s) = Cookie /\ Front(s) \in Seq(DataFor(f))
    <3>1. n + m > 0
      BY <1>2, <1>4
    <3>2. s[n + m] = Cookie
      BY <1>4, <2>2 DEF Last
    <3>3. PICK t \in Seq(DataFor(f)) : t = Front(s)
      BY <2>2
    <3>4. Len(t) = n + m - 1 /\ \A j \in 1 .. n + m - 1 : t[j] = s[j]
      BY <1>2, <1>4, <3>1, <3>3 DEF Front
    <3>5. i = n + m \/ i \in 1 .. n + m - 1
      <4>1. PICK c \in Nat : c = n + m
        BY <1>2
      <4>2. i \in 1 .. c => i = c \/ i \in 1 .. c - 1
        BY <4>1
      <4> QED BY <4>1, <4>2
    <3>6. i \in 1 .. n + m - 1 => s[i] \in DataFor(f)
      BY <3>3, <3>4
    <3> QED BY <1>5, <3>2, <3>5, <3>6
  <2> QED BY <1>3, <2>1, <2>2
<1>7. \A i \in 1 .. m : k[i] \in G
  <2> SUFFICES ASSUME NEW i \in 1 .. m PROVE k[i] \in G
    OBVIOUS
  <2>1. n + i \in 1 .. n + m
    BY <1>2
  <2> HIDE DEF G
  <2> QED BY <1>4, <1>6, <2>1
<1>8. k \in Seq(G)
  <2> HIDE DEF G
  <2> QED BY <1>2, <1>7, LenProperties
<1> QED BY <1>1, <1>8, OthersItems

(* The same for the handshake behind it.                                    *)
LEMMA NoItems == ASSUME NEW e \in Ends, NEW f \in Ends PROVE Items(e, <<Handshake(f)>>) = <<>>
<1>1. <<>> \in Seq(Item) /\ <<Handshake(f)>> = Append(<<>>, Handshake(f))
  BY EmptySeq
<1>2. Handshake(f) \in Item /\ ~For(e, Handshake(f))
  BY MessagesAreNoData
<1> QED BY <1>1, <1>2, ItemsAppend, ItemsEmpty

(* In the drain there are leaders.                                          *)
LEMMA DrainingElected == TypeOK /\ Phases /\ Draining => Elected
<1> SUFFICES ASSUME TypeOK, Phases, Draining PROVE Elected
  OBVIOUS
<1>1. PICK p \in Procs : pc[p] \in {"draining", "greeting", "greeted", "checkpointed"}
  BY DEF Draining, Among, Drain, Greet
<1> QED BY <1>1, WhereTheyAre

(* Until the images are complete nothing for e is in the other buffer, and  *)
(* what its leader has drained is ahead of what it has not.                 *)
LEMMA DrainingItems ==
    ASSUME TypeOK, Phases, Known, Buffers, Among(Still) \/ Draining, NEW e \in Open
    PROVE  /\ Items(e, kernel[Peer[e]]) = <<>>
           /\ LeaderIn(e, "draining") \/ drained[e] = <<>> \/ Items(e, kernel[e]) = <<>>
<1>0. e \in Ends /\ Peer[e] \in Ends /\ Peer[Peer[e]] = e
  BY PeerFacts DEF Open
<1>1. kernel \in [Ends -> Seq(Item)] /\ drained \in [Ends -> Seq(Item)]
  BY DEF TypeOK, KernelType, DrainType
<1>2. CASE Among(Still)
  <2>1. Quiet
    BY <1>2 DEF Buffers
  <2>2. drained[e] = <<>> /\ kernel[Peer[e]] \in Seq(DataFor(Peer[e]))
    BY <1>0, <2>1 DEF Quiet
  <2>3. kernel[Peer[e]] \in Seq(DataFor(Peer[e]) \cup (Item \ DataFor(e)))
    <3>1. PICK A, B, k : A = DataFor(Peer[e]) /\ B = Item \ DataFor(e) /\ k = kernel[Peer[e]]
      OBVIOUS
    <3>2. k \in Seq(A)
      BY <2>2, <3>1
    <3>3. k \in Seq(A \cup B)
      BY <3>2
    <3> QED BY <3>1, <3>3
  <2> QED BY <1>0, <2>2, <2>3, OthersItems
<1>3. CASE Draining
  <2>1. Elected /\ DrainBuffers
    BY <1>3, DrainingElected DEF Buffers
  <2>2. PICK l \in Procs : Lead(l, e)
    BY <1>0, <2>1, OneLead
  <2>3. pc[l] = "draining" => LeaderIn(e, "draining")
    BY <2>2 DEF Lead, LeaderIn
  <2>4. pc[l] # "electing" /\ pc[l] # "draining" => ~Drains(l, e)
    BY DEF Drains
  <2>5. CASE Peer[e] \notin Open
    <3>1. DrainDead(l, e)
      BY <1>0, <2>1, <2>2, <2>5 DEF DrainBuffers
    <3>2. kernel[Peer[e]] = <<>>
      BY <1>0, <2>5 DEF Known
    <3> QED BY <2>3, <2>4, <3>1, <3>2, ItemsEmpty DEF DrainDead
  <2>6. CASE Peer[e] \in Open
    <3>1. PICK m \in Procs : Lead(m, Peer[e])
      BY <1>0, <2>1, <2>6, OneLead
    <3>2. DrainPair(l, m, e) /\ DrainPair(m, l, Peer[e])
      BY <1>0, <2>1, <2>2, <2>6, <3>1 DEF DrainBuffers
    <3>3. \A f \in {e, Peer[e]} : Items(e, <<Handshake(Peer[f])>>) = <<>> /\ Items(e, <<>>) = <<>>
      BY <1>0, NoItems, ItemsEmpty
    <3>4. Items(e, kernel[Peer[e]]) = <<>>
      <4>1. CASE Drains(m, Peer[e])
        <5>1. PICK f \in Ends, d \in Seq(Item), k \in Seq(Item) :
                  f = Peer[e] /\ d = drained[f] /\ k = kernel[f]
          BY <1>0, <1>1
        <5>2. \/ d \o k \in Seq(DataFor(f))
              \/ d \o k # <<>> /\ Last(d \o k) = Cookie /\ Front(d \o k) \in Seq(DataFor(f))
          BY <3>2, <4>1, <5>1 DEF DrainPair, Inbound
        <5>3. e = Peer[f]
          BY <1>0, <5>1
        <5> QED BY <1>0, <5>1, <5>2, <5>3, MarkedItems
      <4>2. CASE ~Drains(m, Peer[e])
        <5>1. kernel[Peer[e]] \in {<<Handshake(Peer[Peer[e]])>>, <<>>}
          BY <3>2, <4>2 DEF DrainPair
        <5> QED BY <3>3, <5>1
      <4> QED BY <4>1, <4>2
    <3>5. ~Drains(l, e) => kernel[e] \in {<<Handshake(Peer[e])>>, <<>>}
      BY <3>2 DEF DrainPair
    <3>6. pc[l] = "electing" => drained[e] = <<>>
      BY <3>2 DEF DrainPair
    <3> QED BY <2>3, <2>4, <3>3, <3>4, <3>5, <3>6
  <2> QED BY <2>5, <2>6
<1> QED BY <1>2, <1>3

(* Nothing is on its way to a closed end.                                   *)
NoneClosed == \A e \in Ends \ Open : InTransit(e) = <<>>

(* The locks are enough for that.                                           *)
LEMMA TransitClosed == LocksHeld => NoneClosed
<1> SUFFICES ASSUME LocksHeld, NEW e \in Ends \ Open PROVE InTransit(e) = <<>>
  BY DEF NoneClosed
<1>1. \A s : ~LeaderIn(e, s)
  BY DEF LocksHeld, LeaderIn, Open
<1>2. InTransit(e) = Items(e, <<>>)
  BY <1>1 DEF InTransit
<1> QED BY <1>2, ItemsEmpty

(* What is on its way to an end until the images are complete, ...          *)
TransitComes == \A e \in Ends : InTransit(e) = Items(e, drained[e]) \o Items(e, kernel[e])

(* The phases up to the images.                                             *)
LEMMA TransitDrain == IndInv /\ BufInv /\ LocksHeld /\ (Among(Still) \/ Draining) => TransitComes
<1> SUFFICES ASSUME IndInv, BufInv, LocksHeld, Among(Still) \/ Draining, NEW e \in Ends
             PROVE  InTransit(e) = Items(e, drained[e]) \o Items(e, kernel[e])
  BY DEF TransitComes
<1> TypeOK /\ Phases /\ Known /\ Buffers
  BY DEF IndInv, BufInv
<1>0. Peer[e] \in Ends
  BY PeerFacts
<1>1. PICK k \in Seq(Item), d \in Seq(Item), x \in Seq(Item) : k = kernel[e] /\ d = drained[e] /\ x = kernel[Peer[e]]
  BY <1>0 DEF TypeOK, KernelType, DrainType
<1>2. PICK D : D = DataFor(e)
  OBVIOUS
<1>3. PICK ik \in Seq(D), id \in Seq(D) : ik = Items(e, k) /\ id = Items(e, d)
  BY <1>1, <1>2, ItemsType
<1>4. <<>> \in Seq(D) /\ <<>> \o ik = ik /\ id \o <<>> = id /\ ik \o <<>> = ik /\ <<>> \o id = id
  BY <1>3, EmptySeq, ConcatEmptySeq
<1>5. CASE e \notin Open
  <2>1. k = <<>> /\ d = <<>>
    BY <1>1, <1>5 DEF Known
  <2>2. InTransit(e) = <<>>
    BY <1>5, TransitClosed DEF NoneClosed
  <2>3. ik = <<>> /\ id = <<>>
    BY <1>3, <2>1, ItemsEmpty
  <2> QED BY <1>1, <1>3, <1>4, <2>2, <2>3
<1>6. CASE e \in Open
  <2>1. \A p \in Procs : pc[p] # "restarting" /\ pc[p] # "echoing"
    BY DEF Among, Still, Draining, Drain, Greet
  <2>2. ~LeaderIn(e, "restarting") /\ Echoing(e) = <<>>
    BY <2>1 DEF LeaderIn, Echoing
  <2>3. CASE LeaderIn(e, "draining")
    <3>1. InTransit(e) = Items(e, drained[e] \o kernel[e])
      BY <1>6, <2>2, <2>3 DEF InTransit
    <3>2. Items(e, d \o k) = Items(e, d) \o Items(e, k)
      BY <1>1, ItemsConcat
    <3> QED BY <1>1, <3>1, <3>2
  <2>4. CASE ~LeaderIn(e, "draining")
    <3>1. InTransit(e) = Items(e, Ahead(e))
      BY <1>6, <2>2, <2>4 DEF InTransit, Ahead
    <3>2. Items(e, x) = <<>> /\ (d = <<>> \/ ik = <<>>)
      BY <1>1, <1>3, <1>6, <2>4, DrainingItems
    <3>3. Items(e, Ahead(e)) = Joined(ik, <<>>, <<>>, id)
      BY <1>1, <1>3, <2>2, <3>2, AheadItems, ItemsEmpty DEF AheadInParts
    <3>4. Joined(ik, <<>>, <<>>, id) = ik \o id
      BY <1>4, Zenon DEF Joined
    <3>5. id = <<>> \/ ik = <<>>
      BY <1>3, <3>2, ItemsEmpty
    <3>6. ik \o id = id \o ik
      BY <1>4, <3>5
    <3> QED BY <1>1, <1>3, <3>1, <3>3, <3>4, <3>6
  <2> QED BY <2>3, <2>4
<1> QED BY <1>5, <1>6

(* ... and while the data are put back.                                     *)
TransitReturns ==
    \A e \in Open : InTransit(e) = IF type[e] = "ERROR" /\ LeaderIn(e, "restarting")
                                   THEN Items(e, disconnected[e]) ELSE Items(e, Ahead(e))

(* The phases after them.                                                   *)
LEMMA TransitBack == PuttingBack => TransitReturns
<1> SUFFICES ASSUME PuttingBack, NEW e \in Open
             PROVE  InTransit(e) = IF type[e] = "ERROR" /\ LeaderIn(e, "restarting")
                                   THEN Items(e, disconnected[e]) ELSE Items(e, Ahead(e))
  BY DEF TransitReturns
<1>1. \A p \in Procs : pc[p] # "draining"
  BY DEF PuttingBack, Among, Back, Again, Refilling
<1>2. ~LeaderIn(e, "draining")
  BY <1>1 DEF LeaderIn
<1>3. CASE type[e] = "ERROR" /\ LeaderIn(e, "restarting")
  BY <1>2, <1>3 DEF InTransit
<1>4. CASE ~(type[e] = "ERROR" /\ LeaderIn(e, "restarting"))
  BY <1>2, <1>4 DEF InTransit, Ahead
<1> QED BY <1>3, <1>4

------------------------------------------------------------------------------
(* Together with the locks, all that the refinement needs.                  *)
Whole == IndInv /\ BufInv /\ LocksHeld

(* What is on its way to e while it is drained.                             *)
Coming(e) == Items(e, drained[e]) \o Items(e, kernel[e])

(* A message of DMTCP that is written changes nothing of that.              *)
LEMMA MessageComing ==
    ASSUME TypeOK, NEW x \in Ends, NEW m \in Item, \A e \in Ends : ~For(e, m), Write(x, m), drained' = drained,
           NEW e \in Ends
    PROVE  Coming(e)' = Coming(e)
<1>1. kernel \in [Ends -> Seq(Item)] /\ Peer[x] \in Ends
  BY PeerFacts DEF TypeOK, KernelType
<1>2. CASE e # Peer[x]
  <2>1. kernel'[e] = kernel[e] /\ drained'[e] = drained[e]
    BY <1>1, <1>2 DEF Write
  <2> QED BY <2>1 DEF Coming
<1>3. CASE e = Peer[x]
  <2>1. PICK k \in Seq(Item) : k = kernel[e]
    BY <1>1
  <2>2. kernel'[e] = Append(k, m) /\ drained'[e] = drained[e]
    BY <1>1, <1>3, <2>1 DEF Write
  <2>3. Items(e, Append(k, m)) = Items(e, k)
    BY <2>1, ItemsAppend
  <2> QED BY <2>1, <2>2, <2>3 DEF Coming
<1> QED BY <1>2, <1>3

(* The steps of the drain change nothing of what is on its way.             *)
LEMMA ComingStays ==
    ASSUME Whole, NEW p \in Procs, DrainStep(p) \/ BeginDrain(p), NEW e \in Ends
    PROVE  Coming(e)' = Coming(e)
<1> TypeOK
  BY DEF Whole, IndInv
<1>0. kernel \in [Ends -> Seq(Item)] /\ drained \in [Ends -> Seq(Item)]
  BY DEF TypeOK, KernelType, DrainType
<1>1. PICK k \in Seq(Item), d \in Seq(Item) : k = kernel[e] /\ d = drained[e]
  BY <1>0
<1>1a. PICK D : D = DataFor(e)
  OBVIOUS
<1>2. PICK ik \in Seq(D), id \in Seq(D) : ik = Items(e, k) /\ id = Items(e, d)
  BY <1>1, <1>1a, ItemsType
<1>3. <<>> \in Seq(D) /\ <<>> \o ik = ik /\ id \o <<>> = id /\ ik \o <<>> = ik /\ <<>> \o id = id
  BY <1>2, EmptySeq, ConcatEmptySeq
<1>4. Coming(e) = id \o ik
  BY <1>1, <1>2 DEF Coming
<1>5. ASSUME UNCHANGED <<kernel, drained>> PROVE Coming(e)' = Coming(e)
  BY <1>5 DEF Coming
<1>6. CASE PreCkpt(p) \/ WriteImage(p) \/ BeginDrain(p)
  <2>1. UNCHANGED <<kernel, drained>>
    BY <1>6 DEF PreCkpt, WriteImage, BeginDrain, kernelVars, drainVars
  <2> QED BY <1>5, <2>1
<1>7. ASSUME NEW x \in Ends, DrainWrite(p, x) PROVE Coming(e)' = Coming(e)
  <2>1. drained' = drained /\ (Write(x, Cookie) \/ kernel' = kernel)
    BY <1>7 DEF DrainWrite
  <2>2. Cookie \in Item /\ \A f \in Ends : ~For(f, Cookie)
    <3>1. 0 \in Nat
      OBVIOUS
    <3> QED BY <3>1, MessagesAreNoData
  <2> QED BY <1>5, <2>1, <2>2, MessageComing
<1>8. ASSUME NEW x \in Ends, SendHandshake(p, x) PROVE Coming(e)' = Coming(e)
  <2>1. drained' = drained /\ Write(x, Handshake(x))
    BY <1>8 DEF SendHandshake, drainVars
  <2>2. Handshake(x) \in Item /\ \A f \in Ends : ~For(f, Handshake(x))
    <3>1. 0 \in Nat
      OBVIOUS
    <3> QED BY <3>1, MessagesAreNoData
  <2> QED BY <2>1, <2>2, MessageComing
<1>9. ASSUME NEW x \in Ends, DrainRead(p, x) PROVE Coming(e)' = Coming(e)
  <2>1. /\ kernel[x] # <<>> /\ kernel' = [kernel EXCEPT ![x] = Tail(@)]
        /\ drained' = [drained EXCEPT ![x] = Append(@, Head(kernel[x]))]
    BY <1>9 DEF DrainRead
  <2>2. CASE e # x
    <3>1. kernel'[e] = kernel[e] /\ drained'[e] = drained[e]
      BY <1>0, <2>1, <2>2
    <3> QED BY <3>1 DEF Coming
  <2>3. CASE e = x
    <3>1. PICK h \in Item, t \in Seq(Item) : h = Head(k) /\ t = Tail(k)
      BY <1>1, <2>1, <2>3, HeadTailProperties
    <3>2. k # <<>> /\ kernel'[e] = t /\ drained'[e] = Append(d, h)
      BY <1>0, <1>1, <2>1, <2>3, <3>1
    <3>3. PICK it \in Seq(D) : it = Items(e, t)
      BY <1>1, <1>1a, <3>1, ItemsType
    <3>4. ik = IF For(e, h) THEN <<h>> \o it ELSE it
      BY <1>1, <1>2, <3>1, <3>2, <3>3, ItemsFirst
    <3>5. Items(e, Append(d, h)) = IF For(e, h) THEN Append(id, h) ELSE id
      BY <1>1, <1>2, <3>1, ItemsAppend
    <3>6. ASSUME For(e, h) PROVE Append(id, h) \o it = id \o (<<h>> \o it)
      <4>1. h \in D
        BY <1>1, <1>1a, <3>1, <3>6, ForData
      <4>2. id \in Seq(D) /\ it \in Seq(D) /\ h \in D
        BY <1>2, <3>3, <4>1
      <4> QED BY ONLY <4>2, AppendConcat
    <3>7. Coming(e)' = Items(e, Append(d, h)) \o it
      BY <3>2, <3>3 DEF Coming
    <3> QED BY <1>4, <3>4, <3>5, <3>6, <3>7, Zenon
  <2> QED BY <2>2, <2>3
<1>10. ASSUME NEW x \in Ends, DrainComplete(p, x) PROVE Coming(e)' = Coming(e)
  <2>1. /\ drained[x] # <<>> /\ Last(drained[x]) = Cookie /\ kernel' = kernel
        /\ drained' = [drained EXCEPT ![x] = Front(@)]
    BY <1>10 DEF DrainComplete, kernelVars
  <2>2. CASE e # x
    <3>1. kernel'[e] = kernel[e] /\ drained'[e] = drained[e]
      BY <1>0, <2>1, <2>2
    <3> QED BY <3>1 DEF Coming
  <2>3. CASE e = x
    <3>1. d # <<>> /\ Last(d) = Cookie /\ drained'[e] = Front(d) /\ kernel'[e] = k
      BY <1>0, <1>1, <2>1, <2>3
    <3>2. PICK f \in Seq(Item) : f = Front(d) /\ d = Append(f, Cookie)
      BY <1>1, <3>1, FrontAppend
    <3>3. Cookie \in Item /\ ~For(e, Cookie)
      <4>1. 0 \in Nat
        OBVIOUS
      <4> QED BY <4>1, MessagesAreNoData
    <3>4. id = Items(e, f)
      BY <1>2, <3>2, <3>3, ItemsAppend
    <3> QED BY <1>1, <1>2, <1>4, <3>1, <3>2, <3>4 DEF Coming
  <2> QED BY <2>2, <2>3
<1>11. ASSUME NEW x \in Ends, OnDisconnect(p, x) PROVE Coming(e)' = Coming(e)
  <2>1. /\ kernel[x] = <<>> /\ kernel' = [kernel EXCEPT ![x] = drained[x]]
        /\ drained' = [drained EXCEPT ![x] = <<>>]
    BY <1>11 DEF OnDisconnect
  <2>2. CASE e # x
    <3>1. kernel'[e] = kernel[e] /\ drained'[e] = drained[e]
      BY <1>0, <2>1, <2>2
    <3> QED BY <3>1 DEF Coming
  <2>3. CASE e = x
    <3>1. k = <<>> /\ drained'[e] = <<>> /\ kernel'[e] = d
      BY <1>0, <1>1, <2>1, <2>3
    <3>2. ik = <<>> /\ Items(e, <<>>) = <<>>
      BY <1>2, <3>1, ItemsEmpty
    <3>3. Coming(e)' = <<>> \o id
      BY <1>2, <3>1, <3>2 DEF Coming
    <3> QED BY <1>3, <1>4, <3>2, <3>3
  <2> QED BY <2>2, <2>3
<1>12. ASSUME NEW x \in Ends, RecvHandshake(p, x) PROVE Coming(e)' = Coming(e)
  <2>1. /\ kernel[x] # <<>> /\ Head(kernel[x]).kind = "HANDSHAKE" /\ drained' = drained
        /\ kernel' = [kernel EXCEPT ![x] = Tail(@)]
    BY <1>12 DEF RecvHandshake, drainVars
  <2>2. CASE e # x
    <3>1. kernel'[e] = kernel[e] /\ drained'[e] = drained[e]
      BY <1>0, <2>1, <2>2
    <3> QED BY <3>1 DEF Coming
  <2>3. CASE e = x
    <3>1. k # <<>> /\ Head(k).kind = "HANDSHAKE" /\ kernel'[e] = Tail(k) /\ drained'[e] = d
      BY <1>0, <1>1, <2>1, <2>3
    <3>2. ~For(e, Head(k))
      BY <3>1 DEF For
    <3>3. Items(e, Tail(k)) = ik
      BY <1>1, <1>2, <3>1, <3>2, ItemsFirst
    <3> QED BY <1>1, <1>2, <1>4, <3>1, <3>3 DEF Coming
  <2> QED BY <2>2, <2>3
<1> QED BY <1>6, <1>7, <1>8, <1>9, <1>10, <1>11, <1>12 DEF DrainStep

------------------------------------------------------------------------------
(* What the leader m of the peer of e is about to echo.                     *)
EchoBy(m, e) == IF pc[m] = "echoing" /\ cur[m] = Peer[e] THEN tmp[m] ELSE <<>>

EchoingByLeader ==
    \A e \in Ends : /\ Peer[e] \notin Open => Echoing(e) = <<>>
                    /\ \A m \in Procs : Lead(m, Peer[e]) => Echoing(e) = EchoBy(m, e)

(* No other process echoes to that end.                                     *)
LEMMA EchoingIs == TypeOK /\ Loops /\ Elected /\ PuttingBack => EchoingByLeader
<1> SUFFICES ASSUME TypeOK, Loops, Elected, PuttingBack, NEW e \in Ends
             PROVE  /\ Peer[e] \notin Open => Echoing(e) = <<>>
                    /\ \A m \in Procs : Lead(m, Peer[e]) => Echoing(e) = EchoBy(m, e)
  BY DEF EchoingByLeader
<1>1. Peer[e] \in Ends /\ Peer[e] # None
  BY PeerFacts, SocketsAssumption
<1>2. ASSUME NEW q \in Procs, cur[q] = Peer[e], pc[q] = "echoing"
      PROVE  Lead(q, Peer[e]) /\ Peer[e] \in Open
  BY <1>1, <1>2 DEF Loops, LoopOf, Live, Led, Held, Lead, Open
<1>3. ASSUME NEW m \in Procs, Lead(m, Peer[e]) PROVE Echoing(e) = EchoBy(m, e)
  <2>1. \A q \in Procs : Lead(q, Peer[e]) => q = m
    BY <1>1, <1>3, OneLead
  <2>2. \A q \in Procs : cur[q] = Peer[e] /\ pc[q] = "echoing" => q = m
    BY <1>2, <2>1
  <2>3. CASE pc[m] = "echoing" /\ cur[m] = Peer[e]
    <3>1. PICK q : q = CHOOSE p \in Procs : cur[p] = Peer[e] /\ pc[p] = "echoing"
      OBVIOUS
    <3>2. q \in Procs /\ cur[q] = Peer[e] /\ pc[q] = "echoing"
      BY <2>3, <3>1
    <3>3. q = m
      BY <2>2, <3>2
    <3> QED BY <2>3, <3>1, <3>3 DEF Echoing, EchoBy
  <2>4. CASE ~(pc[m] = "echoing" /\ cur[m] = Peer[e])
    BY <2>2, <2>4 DEF Echoing, EchoBy
  <2> QED BY <2>3, <2>4
<1>4. Peer[e] \notin Open => Echoing(e) = <<>>
  BY <1>2 DEF Echoing
<1> QED BY <1>3, <1>4

(* Putting back goes on, and its steps leave the ends, what the application *)
(* has read and written, and the images alone.                              *)
LEMMA BackGoesOn ==
    ASSUME IndInv, IndInv', NEW p \in Procs, Application(p) \/ CkptThread(p), MendStep(p) \/ RefillStep(p)
    PROVE  /\ PuttingBack /\ Elected /\ PuttingBack' /\ Elected'
           /\ UNCHANGED <<holders, locked, type, sent, rcvd, image>>
<1> TypeOK /\ Phases /\ TypeOK' /\ Phases'
  BY DEF IndInv
<1> pc \in [Procs -> Stages]
  BY DEF TypeOK
<1>1. /\ PuttingBack /\ Elected /\ isRestart' = isRestart
      /\ pc'[p] \in (Back \cup Again) \ {"checkpointed", "restarting"}
  BY RefillPhase
<1>2. Among(Back \cup Again) /\ Among(Back \cup Again)'
  <2>1. Among(Back \cup Again)
    BY <1>1 DEF PuttingBack, Among
  <2> QED BY <1>1, <2>1, OneGoes
<1>3. UNCHANGED <<holders, locked, type, sent, rcvd, image>>
  <2>1. CASE RefillStep(p)
    BY <2>1 DEF RefillStep, RefillData, EchoRead, EchoWrite, RefillHeader, EchoHeader, appVars, conVars, runVars
  <2>2. CASE PostRestart(p) \/ RegisterNSData(p) \/ SendQueries(p) \/ FdsShared(p) \/ BeginRefill(p) \/ RestoreOptions(p)
    BY <2>2 DEF PostRestart, RegisterNSData, SendQueries, FdsShared, BeginRefill, RestoreOptions,
                appVars, conVars, runVars
  <2>3. CASE \/ \E e \in Ends : Connect(p, e) \/ Accept(p, e) \/ ReceiveFd(p, e)
             \/ \E e \in Ends, q \in Procs : SendFd(p, q, e)
    BY <2>3 DEF Connect, Accept, ReceiveFd, SendFd, appVars, conVars, runVars
  <2> QED BY <2>1, <2>2, <2>3 DEF MendStep
<1>4. \A q \in Procs : pc[q] # "electing" /\ pc'[q] # "electing"
  BY <1>2 DEF Among, Back, Again, Refilling
<1>5. Elected'
  BY <1>1, <1>3, <1>4, ElectedFrame
<1>6. PuttingBack'
  <2>1. CASE Among({"run", "refilled"})'
    <3>1. Among({"refilled"})'
      BY <1>2, <2>1 DEF Among, Back, Again, Refilling
    <3>2. isRestart' \in BOOLEAN
      BY DEF TypeOK, RunType
    <3> QED BY <3>1, <3>2 DEF PuttingBack, Among, Back, Again, Refilling
  <2>2. CASE ~Among({"run", "refilled"})'
    <3>1. (Among(Back)' /\ ~isRestart') \/ (Among(Again)' /\ isRestart')
      BY <1>1, <1>2, <2>2 DEF Phases, Among, Back, Again, Refilling, Electing, Drain, Greet
    <3> QED BY <3>1 DEF PuttingBack
  <2> QED BY <2>1, <2>2
<1> QED BY <1>1, <1>3, <1>5, <1>6

(* What is to be echoed stays the same for all ends if it does for those    *)
(* whose peers p leads.                                                     *)
LEMMA EchoesStay ==
    ASSUME IndInv, IndInv', NEW p \in Procs, Application(p) \/ CkptThread(p), MendStep(p) \/ RefillStep(p),
           NEW e \in Ends, Lead(p, Peer[e]) => EchoBy(p, e)' = EchoBy(p, e)
    PROVE  Echoing(e)' = Echoing(e)
<1> TypeOK /\ Phases /\ Loops /\ TypeOK' /\ Phases' /\ Loops'
  BY DEF IndInv
<1>0. Peer[e] \in Ends
  BY PeerFacts
<1>1. PuttingBack /\ Elected /\ PuttingBack' /\ Elected' /\ UNCHANGED <<holders, locked>>
  BY BackGoesOn
<1>2. /\ Peer[e] \notin Open => Echoing(e) = <<>>
      /\ \A m \in Procs : Lead(m, Peer[e]) => Echoing(e) = EchoBy(m, e)
  BY <1>1, EchoingIs DEF EchoingByLeader
<1>3. /\ Peer[e] \notin Open' => Echoing(e)' = <<>>
      /\ \A m \in Procs : Lead(m, Peer[e])' => Echoing(e)' = EchoBy(m, e)'
  <2>1. (TypeOK /\ Loops /\ Elected /\ PuttingBack)' => EchoingByLeader'
    BY EchoingIs, PTL
  <2> QED BY <1>1, <2>1 DEF EchoingByLeader
<1>4. Open' = Open
  BY <1>1 DEF Open
<1>5. CASE Peer[e] \notin Open
  BY <1>2, <1>3, <1>4, <1>5
<1>6. CASE Peer[e] \in Open
  <2>1. PICK m \in Procs : Lead(m, Peer[e])
    BY <1>0, <1>1, <1>6, OneLead
  <2>2. Lead(m, Peer[e])'
    BY <1>1, <2>1 DEF Lead, PuttingBack, Among, Back, Again, Refilling
  <2>3. EchoBy(m, e)' = EchoBy(m, e)
    <3>1. CASE m = p
      BY <2>1, <3>1
    <3>2. CASE m # p
      <4>1. pc'[m] = pc[m] /\ cur'[m] = cur[m] /\ tmp'[m] = tmp[m]
        BY <3>2, OtherLoops
      <4> QED BY <4>1 DEF EchoBy
    <3> QED BY <3>1, <3>2
  <2> QED BY <1>2, <1>3, <2>1, <2>2, <2>3
<1> QED BY <1>5, <1>6

------------------------------------------------------------------------------
(* What is ahead of a reader stays the same if its four parts do.           *)
LEMMA AheadFrame ==
    ASSUME TypeOK, TypeOK', NEW e \in Ends,
           /\ Items(e, kernel'[e]) = Items(e, kernel[e]) /\ Items(e, Echoing(e)') = Items(e, Echoing(e))
           /\ Items(e, kernel'[Peer[e]]) = Items(e, kernel[Peer[e]])
           /\ Items(e, drained'[e]) = Items(e, drained[e])
    PROVE  Items(e, Ahead(e)') = Items(e, Ahead(e))
<1>1. AheadInParts /\ AheadInParts'
  <2>1. TypeOK' => AheadInParts'
    BY AheadItems, PTL
  <2> QED BY <2>1, AheadItems
<1>2. Items(e, Ahead(e)) = Joined(Items(e, kernel[e]), Items(e, Echoing(e)),
                                  Items(e, kernel[Peer[e]]), Items(e, drained[e]))
  BY <1>1 DEF AheadInParts
<1>3. Items(e, Ahead(e)') = Joined(Items(e, kernel'[e]), Items(e, Echoing(e)'),
                                   Items(e, kernel'[Peer[e]]), Items(e, drained'[e]))
  BY <1>1 DEF AheadInParts
<1> QED BY <1>2, <1>3

(* A header is written, or read: nothing of it is data.                     *)
LEMMA HeaderAhead ==
    ASSUME IndInv, IndInv', BufInv, NEW p \in Procs, Application(p) \/ CkptThread(p), NEW x \in Ends,
           RefillHeader(p, x) \/ EchoHeader(p, x), NEW e \in Ends
    PROVE  Items(e, Ahead(e)') = Items(e, Ahead(e))
<1> TypeOK /\ Loops /\ TypeOK' /\ Echoes
  BY DEF IndInv, BufInv
<1> LoopType /\ KernelType /\ DrainType /\ pc \in [Procs -> Stages]
  BY DEF TypeOK
<1>1. RefillStep(p)
  BY DEF RefillStep
<1>2. Peer[x] \in Ends /\ Peer[e] \in Ends
  BY PeerFacts
<1>3. drained' = drained
  BY DEF RefillHeader, EchoHeader, drainVars
<1>4. ASSUME NEW f \in Ends PROVE Items(e, kernel'[f]) = Items(e, kernel[f])
  <2>1. PICK k \in Seq(Item) : k = kernel[f]
    BY DEF KernelType
  <2>2. CASE kernel'[f] = kernel[f]
    BY <2>2
  <2>3. CASE RefillHeader(p, x) /\ f = Peer[x]
    <3>1. PICK n \in Nat : n = Len(drained[x])
      BY LenProperties DEF DrainType
    <3>2. kernel'[f] = Append(k, Refill(n))
      BY <1>2, <2>1, <2>3, <3>1 DEF RefillHeader, Write, KernelType
    <3>3. Refill(n) \in Item /\ ~For(e, Refill(n))
      BY MessagesAreNoData
    <3> QED BY <2>1, <3>2, <3>3, ItemsAppend
  <2>4. CASE EchoHeader(p, x) /\ f = x
    <3>1. k # <<>> /\ Head(k).kind = "REFILL" /\ kernel'[f] = Tail(k)
      BY <2>1, <2>4 DEF EchoHeader, KernelType
    <3>2. ~For(e, Head(k))
      BY <3>1 DEF For
    <3> QED BY <2>1, <3>1, <3>2, ItemsFirst
  <2> QED BY <1>2, <2>2, <2>3, <2>4 DEF RefillHeader, EchoHeader, Write, KernelType
<1>5. EchoBy(p, e)' = EchoBy(p, e)
  <2>1. CASE RefillHeader(p, x)
    <3>1. pc[p] = "writing" /\ Written(p, x, drained[x])
      BY <2>1 DEF RefillHeader
    <3>2. pc'[p] = "echoing" => cur'[p] = None
      BY <3>1 DEF Written, LoopType
    <3> QED BY <1>2, <3>1, <3>2, SocketsAssumption DEF EchoBy
  <2>2. CASE EchoHeader(p, x)
    <3>1. cur[p] = None /\ tmp' = tmp /\ pc' = pc
      BY <2>2 DEF EchoHeader
    <3>2. tmp[p] = <<>>
      BY <3>1 DEF Echoes, EchoOf
    <3> QED BY <3>1, <3>2 DEF EchoBy
  <2> QED BY <2>1, <2>2
<1>6. Echoing(e)' = Echoing(e)
  BY <1>1, <1>5, EchoesStay
<1> QED BY <1>2, <1>3, <1>4, <1>6, AheadFrame

(* What was drained is written back.                                        *)
LEMMA RefillAhead ==
    ASSUME IndInv, IndInv', BufInv, NEW p \in Procs, Application(p) \/ CkptThread(p), RefillData(p), NEW e \in Ends
    PROVE  Items(e, Ahead(e)') = Items(e, Ahead(e))
<1> TypeOK /\ Phases /\ Loops /\ TypeOK' /\ Buffers
  BY DEF IndInv, BufInv
<1> LoopType /\ KernelType /\ DrainType /\ pc \in [Procs -> Stages]
  BY DEF TypeOK
<1>0. RefillStep(p)
  BY DEF RefillStep
<1>1. PICK x \in Ends : x = cur[p] /\ x \in todo[p]
  BY DEF RefillData, Loops, LoopOf, LoopType
<1>2. pc[p] = "writing" /\ Written(p, x, Tail(drained[x]))
  BY <1>1 DEF RefillData
<1>3. PuttingBack /\ Elected /\ RefillBuffers
  BY <1>0, BackGoesOn DEF Buffers
<1>4. x \in Live(p) /\ drained[x] # <<>>
  BY <1>1, <1>2, SocketsAssumption DEF Loops, LoopOf
<1>5. PICK t \in Ends : t = Peer[x] /\ Peer[t] = x /\ t # x
  BY PeerFacts
<1>6. t \in Open /\ Peer[t] \in Open /\ Lead(p, x)
  BY <1>2, <1>3, <1>4, <1>5, InUse
<1>7. PICK d \in Seq(Item), k \in Seq(Item) : d = drained[x] /\ k = kernel[t]
  BY DEF DrainType, KernelType
<1>8. PICK h \in Item, r \in Seq(Item) : h = Head(d) /\ r = Tail(d)
  BY <1>4, <1>7, HeadTailProperties
<1>9. /\ kernel'[t] = Append(k, h) /\ \A f \in Ends \ {t} : kernel'[f] = kernel[f]
      /\ drained'[x] = r /\ \A f \in Ends \ {x} : drained'[f] = drained[f]
  BY <1>1, <1>5, <1>7, <1>8 DEF RefillData, Write, KernelType, DrainType
<1>10. h \in DataFor(x)
  <2>1. PICK l \in Procs : Lead(l, t)
    BY <1>3, <1>6, OneLead
  <2>2. d \in Seq(DataFor(x))
    BY <1>3, <1>5, <1>6, <1>7, <2>1 DEF RefillBuffers, RefillPair
  <2> QED BY <1>4, <1>7, <1>8, <2>2, HeadTailProperties
<1>11. For(x, h) /\ \A f \in Ends \ {x} : ~For(f, h)
  BY <1>10, ForData DEF For
<1>12. Echoing(e)' = Echoing(e)
  <2>1. Peer[e] # None
    BY PeerFacts, SocketsAssumption
  <2>2. pc'[p] = "echoing" => cur'[p] = None
    BY <1>2 DEF Written, LoopType
  <2>3. EchoBy(p, e)' = EchoBy(p, e)
    BY <1>2, <2>1, <2>2 DEF EchoBy
  <2> QED BY <1>0, <2>3, EchoesStay
<1>13. CASE e # x
  <2>1. Items(e, Append(k, h)) = Items(e, k)
    BY <1>11, <1>13, ItemsAppend
  <2>2. \A f \in Ends : Items(e, kernel'[f]) = Items(e, kernel[f])
    BY <1>7, <1>9, <2>1
  <2> QED BY <1>9, <1>12, <1>13, <2>2, AheadFrame, PeerFacts
<1>14. CASE e = x
  <2>1. AheadInParts /\ AheadInParts'
    <3>1. TypeOK' => AheadInParts'
      BY AheadItems, PTL
    <3> QED BY <3>1, AheadItems
  <2>2. PICK D : D = DataFor(x)
    OBVIOUS
  <2>3. PICK a \in Seq(D), b \in Seq(D), c \in Seq(D), s \in Seq(D) :
            a = Items(x, kernel[x]) /\ b = Items(x, Echoing(x)) /\ c = Items(x, k) /\ s = Items(x, r)
    BY <1>7, <1>8, <2>2, ItemsType, EchoingType DEF KernelType
  <2>4. Items(x, Ahead(x)) = Joined(a, b, c, Items(x, d))
    BY <1>5, <1>7, <2>1, <2>3 DEF AheadInParts
  <2>5. Items(x, Ahead(x)') = Joined(a, b, Items(x, Append(k, h)), s)
    <3>1. Items(x, Ahead(x)') = Joined(Items(x, kernel'[x]), Items(x, Echoing(x)'),
                                       Items(x, kernel'[Peer[x]]), Items(x, drained'[x]))
      BY <2>1 DEF AheadInParts
    <3> QED BY <1>5, <1>9, <1>12, <1>14, <2>3, <3>1
  <2>6. Items(x, d) = <<h>> \o s
    BY <1>4, <1>7, <1>8, <1>11, <2>3, ItemsFirst
  <2>7. Items(x, Append(k, h)) = Append(c, h)
    BY <1>11, <2>3, ItemsAppend
  <2>8. h \in D
    BY <1>10, <2>2
  <2>9. Joined(a, b, Append(c, h), s) = Joined(a, b, c, <<h>> \o s)
    BY ONLY <2>3, <2>8, JoinedMoves
  <2> QED BY <1>14, <2>4, <2>5, <2>6, <2>7, <2>9, Zenon
<1> QED BY <1>13, <1>14

(* What the peer has sent is read, ...                                      *)
LEMMA EchoReadAhead ==
    ASSUME IndInv, IndInv', BufInv, NEW p \in Procs, Application(p) \/ CkptThread(p), EchoRead(p), NEW e \in Ends
    PROVE  Items(e, Ahead(e)') = Items(e, Ahead(e))
<1> TypeOK /\ Phases /\ Loops /\ TypeOK' /\ Loops' /\ Buffers /\ Echoes
  BY DEF IndInv, BufInv
<1> LoopType /\ KernelType /\ DrainType /\ pc \in [Procs -> Stages]
  BY DEF TypeOK
<1>0. RefillStep(p)
  BY DEF RefillStep
<1>1. PICK x \in Ends : x = cur[p] /\ x \in todo[p] /\ cur[p] # None
  BY DEF EchoRead, Loops, LoopOf, LoopType
<1>2. PICK k \in Seq(Item), n \in Nat : k = kernel[x] /\ k # <<>> /\ n = left[p] /\ n > 0
  BY <1>1 DEF EchoRead, KernelType, LoopType
<1>3. PICK h \in Item, r \in Seq(Item), v \in Seq(Item) : h = Head(k) /\ r = Tail(k) /\ v = tmp[p]
  BY <1>2, HeadTailProperties DEF LoopType
<1>4. /\ pc' = pc /\ cur' = cur /\ drained' = drained /\ pc[p] = "echoing" /\ tmp'[p] = Append(v, h)
      /\ kernel'[x] = r /\ \A f \in Ends \ {x} : kernel'[f] = kernel[f]
  BY <1>1, <1>2, <1>3 DEF EchoRead, drainVars, LoopType, KernelType
<1>5. PuttingBack /\ Elected /\ PuttingBack' /\ Elected' /\ RefillBuffers /\ UNCHANGED <<holders, locked>>
  BY <1>0, BackGoesOn DEF Buffers
<1>6. PICK t \in Ends : t = Peer[x] /\ Peer[t] = x /\ t # x
  BY PeerFacts
<1>7. x \in Live(p)
  BY <1>1, <1>4 DEF Loops, LoopOf
<1>8. t \in Open /\ x \in Open /\ Lead(p, x)
  BY <1>4, <1>5, <1>6, <1>7, InUse
<1>9. h \in DataFor(t)
  <2>1. PICK m \in Procs : Lead(m, t)
    BY <1>5, <1>8, OneLead
  <2>2. RefillPair(p, m, x) /\ Opened(p, x)
    <3>1. Peer[x] \in Open /\ Lead(m, Peer[x])
      BY <1>6, <1>8, <2>1
    <3>2. RefillPair(p, m, x)
      BY <1>5, <1>8, <3>1 DEF RefillBuffers
    <3>3. Opened(p, x)
      BY <1>1, <1>4 DEF Opened
    <3> QED BY <3>2, <3>3
  <2>3. PICK d \in Seq(Item) : d = drained[t]
    BY DEF DrainType
  <2>4. PICK u \in Nat : Len(d) = u /\ (d = <<>> => u = 0)
    BY LenProperties
  <2>5. Split(k, n - u, d, x)
    BY <1>1, <1>2, <1>6, <2>2, <2>3, <2>4 DEF RefillPair
  <2>6. n - u # 0
    <3>1. CASE d = <<>>
      BY <1>2, <2>4, <3>1
    <3>2. CASE d # <<>>
      <4>1. n - u = Len(k)
        BY <2>5, <3>2 DEF Split
      <4>2. Len(k) # 0
        BY <1>2, EmptySeq
      <4> QED BY <4>1, <4>2
    <3> QED BY <3>1, <3>2
  <2> QED BY <1>2, <1>3, <1>6, <2>5, <2>6, SplitRead
<1>10. For(t, h) /\ \A f \in Ends \ {t} : ~For(f, h)
  BY <1>9, ForData DEF For
<1>11. CASE e # t
  <2>1. Items(e, k) = Items(e, r)
    BY <1>2, <1>3, <1>10, <1>11, ItemsFirst
  <2>2. \A f \in Ends : Items(e, kernel'[f]) = Items(e, kernel[f])
    BY <1>2, <1>4, <2>1
  <2>3. Peer[e] # x
    BY <1>6, <1>11, PeerFacts
  <2>4. EchoBy(p, e)' = EchoBy(p, e)
    BY <1>1, <1>4, <2>3 DEF EchoBy
  <2>5. Echoing(e)' = Echoing(e)
    BY <1>0, <2>4, EchoesStay
  <2> QED BY <1>4, <2>2, <2>5, AheadFrame, PeerFacts
<1>12. CASE e = t
  <2>1. AheadInParts /\ AheadInParts' /\ EchoingByLeader /\ EchoingByLeader'
    <3>1. TypeOK' => AheadInParts'
      BY AheadItems, PTL
    <3>2. (TypeOK /\ Loops /\ Elected /\ PuttingBack)' => EchoingByLeader'
      BY EchoingIs, PTL
    <3> QED BY <1>5, <3>1, <3>2, AheadItems, EchoingIs
  <2>2. Echoing(t) = v /\ Echoing(t)' = Append(v, h)
    <3>1. Lead(p, x)'
      BY <1>4, <1>5, <1>8 DEF Lead
    <3>2. Echoing(t) = EchoBy(p, t) /\ Echoing(t)' = EchoBy(p, t)'
      BY <1>6, <1>8, <2>1, <3>1 DEF EchoingByLeader
    <3> QED BY <1>1, <1>3, <1>4, <1>6, <3>2 DEF EchoBy
  <2>3. PICK D : D = DataFor(t)
    OBVIOUS
  <2>4. PICK a \in Seq(D), b \in Seq(D), c \in Seq(D), s \in Seq(D) :
            a = Items(t, kernel[t]) /\ b = Items(t, v) /\ c = Items(t, r) /\ s = Items(t, drained[t])
    BY <1>3, <2>3, ItemsType DEF KernelType, DrainType
  <2>5. Items(t, Ahead(t)) = Joined(a, b, Items(t, k), s)
    BY <1>2, <1>6, <2>1, <2>2, <2>4 DEF AheadInParts
  <2>6. Items(t, Ahead(t)') = Joined(a, Items(t, Append(v, h)), c, s)
    <3>1. Items(t, Ahead(t)') = Joined(Items(t, kernel'[t]), Items(t, Echoing(t)'),
                                       Items(t, kernel'[Peer[t]]), Items(t, drained'[t]))
      BY <2>1 DEF AheadInParts
    <3> QED BY <1>4, <1>6, <2>2, <2>4, <3>1
  <2>7. Items(t, k) = <<h>> \o c
    BY <1>2, <1>3, <1>10, <2>4, ItemsFirst
  <2>8. Items(t, Append(v, h)) = Append(b, h)
    BY <1>3, <1>10, <2>4, ItemsAppend
  <2>9. h \in D
    BY <1>9, <2>3
  <2>10. Joined(a, Append(b, h), c, s) = Joined(a, b, <<h>> \o c, s)
    BY ONLY <2>4, <2>9, JoinedMoves
  <2> QED BY <1>12, <2>5, <2>6, <2>7, <2>8, <2>10, Zenon
<1> QED BY <1>11, <1>12

(* ... and sent back to it.                                                 *)
LEMMA EchoWriteAhead ==
    ASSUME IndInv, IndInv', BufInv, NEW p \in Procs, Application(p) \/ CkptThread(p), EchoWrite(p), NEW e \in Ends
    PROVE  Items(e, Ahead(e)') = Items(e, Ahead(e))
<1> TypeOK /\ Phases /\ Loops /\ TypeOK' /\ Loops' /\ Buffers /\ Echoes
  BY DEF IndInv, BufInv
<1> LoopType /\ KernelType /\ DrainType /\ pc \in [Procs -> Stages]
  BY DEF TypeOK
<1>0. RefillStep(p)
  BY DEF RefillStep
<1>1. PICK x \in Ends : x = cur[p] /\ x \in todo[p] /\ cur[p] # None
  BY DEF EchoWrite, Loops, LoopOf, LoopType
<1>2. PICK v \in Seq(Item) : v = tmp[p] /\ v # <<>>
  BY <1>1 DEF EchoWrite, LoopType, Loops, LoopOf
<1>3. PICK t \in Ends : t = Peer[x] /\ Peer[t] = x /\ t # x
  BY PeerFacts
<1>4. PICK h \in Item, r \in Seq(Item), k \in Seq(Item) : h = Head(v) /\ r = Tail(v) /\ k = kernel[t]
  BY <1>2, HeadTailProperties DEF KernelType
<1>5. /\ pc' = pc /\ drained' = drained /\ pc[p] = "echoing" /\ Echoed(p, x, 0, r) /\ tmp'[p] = r
      /\ kernel'[t] = Append(k, h) /\ \A f \in Ends \ {t} : kernel'[f] = kernel[f]
  BY <1>1, <1>2, <1>3, <1>4 DEF EchoWrite, Write, drainVars, LoopType, KernelType
<1>6. PuttingBack /\ Elected /\ PuttingBack' /\ Elected' /\ RefillBuffers /\ UNCHANGED <<holders, locked>>
  BY <1>0, BackGoesOn DEF Buffers
<1>7. x \in Live(p)
  BY <1>1, <1>5 DEF Loops, LoopOf
<1>8. t \in Open /\ x \in Open /\ Lead(p, x)
  BY <1>3, <1>5, <1>6, <1>7, InUse
<1>9. h \in DataFor(t)
  <2>1. v \in Seq(DataFor(t))
    BY <1>1, <1>2, <1>3, <1>5 DEF Echoes, EchoOf
  <2> QED BY <1>2, <1>4, <2>1, HeadTailProperties
<1>10. For(t, h) /\ \A f \in Ends \ {t} : ~For(f, h)
  BY <1>9, ForData DEF For
<1>11. cur'[p] = IF r = <<>> THEN None ELSE x
  BY <1>5 DEF Echoed, LoopType
<1>12. CASE e # t
  <2>1. Items(e, Append(k, h)) = Items(e, k)
    BY <1>10, <1>12, ItemsAppend
  <2>2. \A f \in Ends : Items(e, kernel'[f]) = Items(e, kernel[f])
    BY <1>4, <1>5, <2>1
  <2>3. Peer[e] # x /\ Peer[e] # None
    BY <1>3, <1>12, PeerFacts, SocketsAssumption
  <2>4. EchoBy(p, e)' = EchoBy(p, e)
    BY <1>1, <1>11, <2>3 DEF EchoBy
  <2>5. Echoing(e)' = Echoing(e)
    BY <1>0, <2>4, EchoesStay
  <2> QED BY <1>5, <2>2, <2>5, AheadFrame, PeerFacts
<1>13. CASE e = t
  <2>1. AheadInParts /\ AheadInParts' /\ EchoingByLeader /\ EchoingByLeader'
    <3>1. TypeOK' => AheadInParts'
      BY AheadItems, PTL
    <3>2. (TypeOK /\ Loops /\ Elected /\ PuttingBack)' => EchoingByLeader'
      BY EchoingIs, PTL
    <3> QED BY <1>6, <3>1, <3>2, AheadItems, EchoingIs
  <2>2. Echoing(t) = v /\ Echoing(t)' = r
    <3>1. Lead(p, x)'
      BY <1>5, <1>6, <1>8 DEF Lead
    <3>2. Echoing(t) = EchoBy(p, t) /\ Echoing(t)' = EchoBy(p, t)'
      BY <1>3, <1>8, <2>1, <3>1 DEF EchoingByLeader
    <3>3. EchoBy(p, t) = v
      BY <1>1, <1>2, <1>3, <1>5 DEF EchoBy
    <3>4. EchoBy(p, t)' = r
      BY <1>1, <1>3, <1>5, <1>11 DEF EchoBy
    <3> QED BY <3>2, <3>3, <3>4
  <2>3. PICK D : D = DataFor(t)
    OBVIOUS
  <2>4. PICK a \in Seq(D), b \in Seq(D), c \in Seq(D), s \in Seq(D) :
            a = Items(t, k) /\ b = Items(t, r) /\ c = Items(t, kernel[x]) /\ s = Items(t, drained[t])
    BY <1>4, <2>3, ItemsType DEF KernelType, DrainType
  <2>5. Items(t, Ahead(t)) = Joined(a, Items(t, v), c, s)
    BY <1>3, <1>4, <2>1, <2>2, <2>4 DEF AheadInParts
  <2>6. Items(t, Ahead(t)') = Joined(Items(t, Append(k, h)), b, c, s)
    <3>1. Items(t, Ahead(t)') = Joined(Items(t, kernel'[t]), Items(t, Echoing(t)'),
                                       Items(t, kernel'[Peer[t]]), Items(t, drained'[t]))
      BY <2>1 DEF AheadInParts
    <3> QED BY <1>3, <1>5, <2>2, <2>4, <3>1
  <2>7. Items(t, v) = <<h>> \o b
    BY <1>2, <1>4, <1>10, <2>4, ItemsFirst
  <2>8. Items(t, Append(k, h)) = Append(a, h)
    BY <1>4, <1>10, <2>4, ItemsAppend
  <2>9. h \in D
    BY <1>9, <2>3
  <2>10. Joined(Append(a, h), b, c, s) = Joined(a, <<h>> \o b, c, s)
    BY ONLY <2>4, <2>9, JoinedMoves
  <2> QED BY <1>13, <2>5, <2>6, <2>7, <2>8, <2>10, Zenon
<1> QED BY <1>12, <1>13

------------------------------------------------------------------------------
(* The steps of the refill change nothing of what is on its way.            *)
LEMMA RefillAheadStays ==
    ASSUME IndInv, IndInv', BufInv, NEW p \in Procs, Application(p) \/ CkptThread(p), RefillStep(p), NEW e \in Ends
    PROVE  Items(e, Ahead(e)') = Items(e, Ahead(e))
BY HeaderAhead, RefillAhead, EchoReadAhead, EchoWriteAhead DEF RefillStep

(* Those before and after it neither, but for the dead sockets, which are   *)
(* made again.                                                              *)
LEMMA MendAheadStays ==
    ASSUME IndInv, IndInv', BufInv, NEW p \in Procs, Application(p) \/ CkptThread(p), MendStep(p), NEW e \in Ends,
           kernel'[e] = kernel[e], kernel'[Peer[e]] = kernel[Peer[e]]
    PROVE  Items(e, Ahead(e)') = Items(e, Ahead(e))
<1> TypeOK /\ Loops /\ TypeOK' /\ Loops'
  BY DEF IndInv
<1> LoopType /\ pc \in [Procs -> Stages]
  BY DEF TypeOK
<1>1. Peer[e] # None
  BY PeerFacts, SocketsAssumption
<1>2. ~(pc[p] = "echoing" /\ cur[p] = Peer[e])
  <2>1. CASE RestoreOptions(p)
    BY <1>1, <2>1 DEF RestoreOptions, Loops, LoopOf
  <2>2. CASE ~RestoreOptions(p)
    BY <2>2 DEF MendStep, PostRestart, RegisterNSData, SendQueries, FdsShared, BeginRefill,
                Connect, Accept, ReceiveFd, SendFd
  <2> QED BY <2>1, <2>2
<1>3. ~(pc'[p] = "echoing" /\ cur'[p] = Peer[e])
  <2>1. CASE BeginRefill(p)
    BY <1>1, <2>1 DEF BeginRefill, Loops, LoopOf
  <2>2. CASE ~BeginRefill(p)
    <3>1. pc'[p] # "echoing"
      BY <2>2 DEF MendStep, PostRestart, RegisterNSData, SendQueries, FdsShared, RestoreOptions,
                  Connect, Accept, ReceiveFd, SendFd, Goto, Loop
    <3> QED BY <3>1
  <2> QED BY <2>1, <2>2
<1>4. EchoBy(p, e)' = EchoBy(p, e)
  BY <1>2, <1>3 DEF EchoBy
<1>5. Echoing(e)' = Echoing(e)
  BY <1>4, EchoesStay
<1>6. drained' = drained
  BY DEF MendStep, PostRestart, RegisterNSData, SendQueries, FdsShared, BeginRefill, RestoreOptions,
         Connect, Accept, ReceiveFd, SendFd, drainVars
<1> QED BY <1>5, <1>6, AheadFrame

(* A process that leads a dead socket is the only one that has its lock.    *)
LEMMA LocksAlone ==
    ASSUME Elected, LocksHeld, NEW p \in Procs, NEW q \in Procs, NEW e \in Ends,
           <<p, e>> \in locked, <<q, e>> \in locked, pc[p] # "electing", pc[q] # "electing"
    PROVE  p = q
<1>1. e \in Led(p) \cap Led(q)
  BY DEF LocksHeld, Led, Held
<1> QED BY <1>1, OneLed

(* Nothing is lost or added from the images, or the restart, until all run. *)
LEMMA TransitRefill ==
    ASSUME Whole, Whole', NEW p \in Procs, Application(p) \/ CkptThread(p), MendStep(p) \/ RefillStep(p),
           NEW e \in Open
    PROVE  InTransit(e)' = InTransit(e)
<1> IndInv /\ IndInv' /\ BufInv /\ LocksHeld /\ LocksHeld' /\ TypeOK /\ TypeOK' /\ Known /\ Buffers /\ Phases /\ Loops
  BY DEF Whole, IndInv, BufInv
<1> KernelType /\ DrainType /\ pc \in [Procs -> Stages]
  BY DEF TypeOK
<1>0. e \in Ends /\ Peer[e] \in Ends /\ Peer[Peer[e]] = e
  BY PeerFacts DEF Open
<1>1. /\ PuttingBack /\ Elected /\ PuttingBack' /\ Elected' /\ RefillBuffers
      /\ UNCHANGED <<holders, locked, type>> /\ e \in Open'
  BY BackGoesOn DEF Buffers, Open
<1>2. pc'[p] # "restarting" /\ \A q \in Procs \ {p} : pc'[q] = pc[q]
  BY RefillPhase, OtherLoops
<1>3. \A q \in Procs : pc[q] # "electing" /\ pc'[q] # "electing"
  BY <1>1 DEF PuttingBack, Among, Back, Again, Refilling
<1>4. /\ InTransit(e) = IF type[e] = "ERROR" /\ LeaderIn(e, "restarting")
                        THEN Items(e, disconnected[e]) ELSE Items(e, Ahead(e))
      /\ InTransit(e)' = IF type[e] = "ERROR" /\ LeaderIn(e, "restarting")'
                         THEN Items(e, disconnected'[e]) ELSE Items(e, Ahead(e)')
  <2>1. PuttingBack' => TransitReturns'
    BY TransitBack, PTL
  <2>2. TransitReturns /\ TransitReturns'
    BY <1>1, <2>1, TransitBack
  <2> QED BY <1>1, <2>2 DEF TransitReturns
<1>5. CASE ~PostRestart(p)
  <2>1. pc[p] # "restarting"
    BY <1>5 DEF MendStep, RefillStep, RegisterNSData, SendQueries, FdsShared, BeginRefill, RestoreOptions,
                Connect, Accept, ReceiveFd, SendFd, RefillData, EchoRead, EchoWrite, RefillHeader, EchoHeader
  <2>2. LeaderIn(e, "restarting")' <=> LeaderIn(e, "restarting")
    BY <1>1, <1>2, <2>1 DEF LeaderIn
  <2>3. Items(e, Ahead(e)') = Items(e, Ahead(e))
    <3>1. CASE MendStep(p)
      <4>1. kernel' = kernel
        BY <1>5, <3>1 DEF MendStep, RegisterNSData, SendQueries, FdsShared, BeginRefill, RestoreOptions,
                          Connect, Accept, ReceiveFd, SendFd, kernelVars
      <4> QED BY <1>0, <3>1, <4>1, MendAheadStays
    <3>2. CASE RefillStep(p)
      BY <1>0, <3>2, RefillAheadStays
    <3> QED BY <3>1, <3>2
  <2>4. LeaderIn(e, "restarting") => disconnected'[e] = disconnected[e]
    <3>1. CASE RestoreOptions(p)
      <4>1. pc[p] = "echoing" /\ (e \notin Led(p) => disconnected'[e] = disconnected[e])
        BY <1>0, <3>1 DEF RestoreOptions
      <4>2. ASSUME LeaderIn(e, "restarting"), e \in Led(p) PROVE FALSE
        <5>1. PICK q \in Procs : <<q, e>> \in locked /\ pc[q] = "restarting"
          BY <4>2 DEF LeaderIn
        <5>2. <<p, e>> \in locked
          BY <4>2 DEF Led
        <5>3. p = q
          BY <1>0, <1>1, <1>3, <5>1, <5>2, LocksAlone
        <5> QED BY <4>1, <5>1, <5>3
      <4> QED BY <4>1, <4>2
    <3>2. CASE ~RestoreOptions(p)
      BY <1>5, <3>2 DEF MendStep, RefillStep, RegisterNSData, SendQueries, FdsShared, BeginRefill,
                        Connect, Accept, ReceiveFd, SendFd, RefillData, EchoRead, EchoWrite, RefillHeader,
                        EchoHeader, drainVars
    <3> QED BY <3>1, <3>2
  <2> QED BY <1>4, <2>2, <2>3, <2>4
<1>6. CASE PostRestart(p)
  <2>0. MendStep(p)
    BY <1>6 DEF MendStep
  <2>1. /\ pc[p] = "restarting" /\ UNCHANGED <<drained, disconnected>>
        /\ \A f \in Ends : kernel'[f] = IF f \in Led(p) /\ type[f] = "ERROR" THEN disconnected[f] ELSE kernel[f]
    BY <1>6 DEF PostRestart, drainVars
  <2>2. type[Peer[e]] # "ERROR"
    BY <1>0 DEF Known
  <2>3. CASE e \in Led(p) /\ type[e] = "ERROR"
    <3>1. LeaderIn(e, "restarting") /\ ~LeaderIn(e, "restarting")'
      <4>1. <<p, e>> \in locked
        BY <2>3 DEF Led
      <4>2. \A q \in Procs : <<q, e>> \in locked => q = p
        BY <1>0, <1>1, <1>3, <4>1, LocksAlone
      <4> QED BY <1>1, <1>2, <2>1, <4>1, <4>2 DEF LeaderIn
    <3>2. Peer[e] \notin Open /\ kernel'[Peer[e]] = <<>> /\ kernel'[e] = disconnected[e]
      BY <1>0, <2>1, <2>2, <2>3 DEF Known
    <3>3. drained'[e] = <<>>
      <4>1. Lead(p, e)
        BY <1>3, <2>3 DEF Lead, Led, Held
      <4> QED BY <1>0, <1>1, <2>1, <3>2, <4>1 DEF RefillBuffers, RefillDead
    <3>4. Echoing(e)' = <<>>
      <4>1. (TypeOK /\ Loops /\ Elected /\ PuttingBack)' => EchoingByLeader'
        BY EchoingIs, PTL
      <4>2. Loops'
        BY DEF IndInv
      <4>3. Peer[e] \notin Open'
        BY <1>1, <3>2 DEF Open
      <4> QED BY <1>0, <1>1, <4>1, <4>2, <4>3 DEF EchoingByLeader
    <3>5. Items(e, Ahead(e)') = Joined(Items(e, disconnected[e]), <<>>, <<>>, <<>>)
      <4>1. TypeOK' => AheadInParts'
        BY AheadItems, PTL
      <4>2. Items(e, Ahead(e)') = Joined(Items(e, kernel'[e]), Items(e, Echoing(e)'),
                                         Items(e, kernel'[Peer[e]]), Items(e, drained'[e]))
        BY <1>0, <4>1 DEF AheadInParts
      <4> QED BY <3>2, <3>3, <3>4, <4>2, ItemsEmpty
    <3>6. PICK D : D = DataFor(e)
      OBVIOUS
    <3>7. PICK a \in Seq(D) : a = Items(e, disconnected[e])
      BY <1>0, <3>6, ItemsType DEF DrainType
    <3>8. Joined(a, <<>>, <<>>, <<>>) = a
      <4>1. <<>> \in Seq(D)
        BY EmptySeq
      <4>2. a \o <<>> = a /\ <<>> \o <<>> = <<>>
        BY <3>7, <4>1, ConcatEmptySeq
      <4> QED BY <4>2, Zenon DEF Joined
    <3> QED BY <1>4, <2>3, <3>1, <3>5, <3>7, <3>8
  <2>4. CASE ~(e \in Led(p) /\ type[e] = "ERROR")
    <3>1. Items(e, Ahead(e)') = Items(e, Ahead(e))
      BY <1>0, <2>0, <2>1, <2>2, <2>4, MendAheadStays
    <3>2. type[e] = "ERROR" => (LeaderIn(e, "restarting")' <=> LeaderIn(e, "restarting"))
      <4>1. type[e] = "ERROR" => <<p, e>> \notin locked
        BY <1>0, <2>4 DEF Led, Held, LocksHeld
      <4> QED BY <1>1, <1>2, <4>1 DEF LeaderIn
    <3> QED BY <1>4, <2>1, <3>1, <3>2
  <2> QED BY <2>3, <2>4
<1> QED BY <1>5, <1>6

------------------------------------------------------------------------------
(* Outside a checkpoint all that is on its way is in the kernel.            *)
InKernel == \A e \in Ends : InTransit(e) = kernel[e] /\ kernel[e] \in Seq(DataFor(e))

(* The running application, the election and the end of the refill.         *)
LEMMA TransitStill == Whole /\ Among(Still) => InKernel
<1> SUFFICES ASSUME Whole, Among(Still), NEW e \in Ends
             PROVE  InTransit(e) = kernel[e] /\ kernel[e] \in Seq(DataFor(e))
  BY DEF InKernel
<1>1. kernel[e] \in Seq(DataFor(e)) /\ drained[e] = <<>>
  BY DEF Whole, BufInv, Buffers, Quiet
<1>2. InTransit(e) = Items(e, drained[e]) \o Items(e, kernel[e])
  BY TransitDrain DEF TransitComes, Whole
<1>3. PICK D : D = DataFor(e)
  OBVIOUS
<1>4. PICK k \in Seq(D) : k = kernel[e]
  BY <1>1, <1>3
<1>5. Items(e, k) = k
  BY <1>3, <1>4, ItemsData
<1>6. <<>> \o k = k
  BY <1>4, ConcatEmptySeq
<1> QED BY <1>1, <1>2, <1>4, <1>5, <1>6, ItemsEmpty

(* A step that changes nothing of what Stream speaks of.                    *)
LEMMA Stutters ==
    ASSUME UNCHANGED <<Usable, sent, rcvd, image>>, \A e \in Ends : InTransit(e)' = InTransit(e)
    PROVE  UNCHANGED Str!vars
<1>1. Snapshot' = Snapshot
  BY DEF Snapshot
<1>2. [e \in Ends |-> Values(e, rcvd[e])]' = [e \in Ends |-> Values(e, rcvd[e])]
  BY DEF Values
<1>3. [e \in Ends |-> Values(e, InTransit(e))]' = [e \in Ends |-> Values(e, InTransit(e))]
  BY DEF Values
<1> QED BY <1>1, <1>2, <1>3 DEF Str!vars

(* The application writes, ...                                              *)
LEMMA SendIsSend ==
    ASSUME IndInv, InKernel, InKernel', NEW p \in Procs, NEW e \in Ends, Send(p, e)
    PROVE  Str!Send(e)
<1> AppType /\ KernelType
  BY DEF IndInv, TypeOK
<1>1. PICK f \in Ends : f = Peer[e]
  BY PeerFacts
<1>2. e \in Usable /\ Peer[e] \in Usable /\ sent[e] < MaxSent /\ sent' = [sent EXCEPT ![e] = @ + 1]
  <2>1. e \in Usable /\ e \in Open /\ f \in Open
    BY <1>1 DEF Send, Attached, Usable, Open
  <2>2. f \in Usable
    BY <1>1, <2>1, UnusedLeft, PeerFacts DEF LeftBehind
  <2> QED BY <1>1, <2>1, <2>2 DEF Send
<1>3. Usable' = Usable /\ rcvd' = rcvd /\ image' = image
  BY DEF Send, Usable, conVars, runVars
<1>4. PICK n \in 1 .. MaxSent : n = sent[e] + 1
  BY <1>2, ConnectionsAssumption DEF AppType
<1>5. PICK x : x = Data(f, n)
  OBVIOUS
<1>6. x \in Item /\ Value(f, x) = n
  BY <1>5 DEF Data, Item, Value
<1>7. PICK k \in Seq(Item) : k = kernel[f]
  BY DEF KernelType
<1>8. kernel'[f] = Append(k, x) /\ \A g \in Ends \ {f} : kernel'[g] = kernel[g]
  BY <1>1, <1>4, <1>5, <1>7 DEF Send, Write, KernelType
<1>9. Values(f, Append(k, x)) = Append(Values(f, k), n)
  BY <1>6, ValuesAppend
<1>10. \A g \in Ends : InTransit(g) = kernel[g] /\ InTransit(g)' = kernel'[g]
  BY DEF InKernel
<1>11. \A g \in Ends : Values(g, InTransit(g)) = Values(g, kernel[g]) /\ Values(g, InTransit(g)')= Values(g, kernel'[g])
  BY <1>10
<1> DEFINE Q == [g \in Ends |-> Values(g, InTransit(g))]
<1>12. Q' = [Q EXCEPT ![f] = Append(@, n)]
  <2>1. Q = [g \in Ends |-> Values(g, kernel[g])] /\ Q' = [g \in Ends |-> Values(g, kernel'[g])]
    BY <1>11
  <2>2. \A g \in Ends : Values(g, kernel'[g]) = IF g = f THEN Append(Values(g, kernel[g]), n) ELSE Values(g, kernel[g])
    BY <1>7, <1>8, <1>9
  <2> QED BY <2>1, <2>2
<1>13. Snapshot' = Snapshot
  BY <1>3 DEF Snapshot
<1>14. [g \in Ends |-> Values(g, rcvd[g])]' = [g \in Ends |-> Values(g, rcvd[g])]
  BY <1>3 DEF Values
<1> QED BY <1>1, <1>2, <1>3, <1>4, <1>12, <1>13, <1>14 DEF Str!Send

(* ... reads, ...                                                           *)
LEMMA RecvIsRecv ==
    ASSUME TypeOK, InKernel, InKernel', NEW p \in Procs, NEW e \in Ends, Recv(p, e)
    PROVE  Str!Recv(e)
<1> AppType /\ KernelType
  BY DEF TypeOK
<1>1. PICK k \in Seq(Item), r \in Seq(Item) : k = kernel[e] /\ r = rcvd[e] /\ k # <<>>
  BY DEF Recv, KernelType, AppType
<1>2. e \in Usable /\ Usable' = Usable /\ sent' = sent /\ image' = image
  BY DEF Recv, Attached, Usable, conVars, runVars
<1>3. PICK h \in Item, t \in Seq(Item) : h = Head(k) /\ t = Tail(k)
  BY <1>1, HeadTailProperties
<1>4. /\ kernel'[e] = t /\ \A g \in Ends \ {e} : kernel'[g] = kernel[g]
      /\ rcvd'[e] = Append(r, h) /\ \A g \in Ends \ {e} : rcvd'[g] = rcvd[g]
  BY <1>1, <1>3 DEF Recv, KernelType, AppType
<1>5. Values(e, Append(r, h)) = Append(Values(e, r), Value(e, h))
  BY <1>3, ValuesAppend
<1>6. Values(e, k) # <<>> /\ Head(Values(e, k)) = Value(e, h) /\ Tail(Values(e, k)) = Values(e, t)
  BY <1>1, <1>3, ValuesFirst
<1>7. \A g \in Ends : Values(g, InTransit(g)) = Values(g, kernel[g]) /\ Values(g, InTransit(g)') = Values(g, kernel'[g])
  BY DEF InKernel
<1> DEFINE Q == [g \in Ends |-> Values(g, InTransit(g))]
           R == [g \in Ends |-> Values(g, rcvd[g])]
<1>8. Q[e] = Values(e, k)
  BY <1>1, <1>7
<1>9. Q' = [Q EXCEPT ![e] = Tail(@)]
  <2>1. Q = [g \in Ends |-> Values(g, kernel[g])] /\ Q' = [g \in Ends |-> Values(g, kernel'[g])]
    BY <1>7
  <2>2. \A g \in Ends : Values(g, kernel'[g]) = IF g = e THEN Tail(Values(g, kernel[g])) ELSE Values(g, kernel[g])
    BY <1>1, <1>4, <1>6
  <2> QED BY <2>1, <2>2
<1>10. R' = [R EXCEPT ![e] = Append(@, Head(Q[e]))]
  <2>1. R' = [g \in Ends |-> Values(g, rcvd'[g])]
    OBVIOUS
  <2>2. \A g \in Ends : Values(g, rcvd'[g]) = IF g = e THEN Append(Values(g, rcvd[g]), Head(Q[e])) ELSE Values(g, rcvd[g])
    BY <1>1, <1>4, <1>5, <1>6, <1>8
  <2> QED BY <2>1, <2>2
<1>11. Snapshot' = Snapshot
  BY <1>2 DEF Snapshot
<1> QED BY <1>2, <1>6, <1>8, <1>9, <1>10, <1>11 DEF Str!Recv

(* ... and closes, the last that can use the end for good.                  *)
LEMMA CloseIsClose ==
    ASSUME IndInv, BufInv, InKernel, InKernel', NEW p \in Procs, NEW e \in Ends, Close(p, e)
    PROVE  Str!Close(e) \/ UNCHANGED Str!vars
<1> AppType /\ KernelType
  BY DEF IndInv, TypeOK
<1>0. /\ Usable' = IF Attached(e) \subseteq {p} THEN Usable \ {e} ELSE Usable
      /\ e \in Usable <=> Attached(e) # {}
  BY UsableClose
<1>1. /\ kernel' = [kernel EXCEPT ![e] = IF Attached(e) \subseteq {p} THEN <<>> ELSE @]
      /\ sent' = sent /\ rcvd' = rcvd /\ image' = image
  BY DEF Close, runVars
<1>2. CASE Attached(e) # {p}
  <2>1. Usable' = Usable /\ (Attached(e) \subseteq {p} => e \notin Usable)
    BY <1>0, <1>2
  <2>2. kernel' = kernel
    BY <1>1, <1>2, <2>1 DEF KernelType, BufInv, Unused
  <2>3. \A g \in Ends : InTransit(g)' = InTransit(g)
    BY <2>2 DEF InKernel
  <2> QED BY <1>1, <2>1, <2>3, Stutters
<1>3. CASE Attached(e) = {p}
  <2>1. e \in Usable /\ Usable' = Usable \ {e}
    BY <1>0, <1>3
  <2>2. kernel'[e] = <<>> /\ \A g \in Ends \ {e} : kernel'[g] = kernel[g]
    BY <1>1, <1>3 DEF KernelType
  <2>3. \A g \in Ends : Values(g, InTransit(g)) = Values(g, kernel[g]) /\ Values(g, InTransit(g)') = Values(g, kernel'[g])
    BY DEF InKernel
  <2> DEFINE Q == [g \in Ends |-> Values(g, InTransit(g))]
  <2>4. Q' = [Q EXCEPT ![e] = <<>>]
    <3>1. Q = [g \in Ends |-> Values(g, kernel[g])] /\ Q' = [g \in Ends |-> Values(g, kernel'[g])]
      BY <2>3
    <3>2. \A g \in Ends : Values(g, kernel'[g]) = IF g = e THEN <<>> ELSE Values(g, kernel[g])
      BY <2>2, ValuesEmpty
    <3> QED BY <3>1, <3>2
  <2>5. Snapshot' = Snapshot
    BY <1>1 DEF Snapshot
  <2>6. [g \in Ends |-> Values(g, rcvd[g])]' = [g \in Ends |-> Values(g, rcvd[g])]
    BY <1>1 DEF Values
  <2> QED BY <1>1, <2>1, <2>4, <2>5, <2>6 DEF Str!Close
<1> QED BY <1>2, <1>3

(* The steps outside a checkpoint are steps of Stream.                      *)
LEMMA StillStream ==
    ASSUME Whole, Whole', NEW p \in Procs, Application(p) \/ CkptThread(p), StillStep(p)
    PROVE  [Str!Next]_(Str!vars)
<1> IndInv /\ BufInv /\ TypeOK /\ Phases
  BY DEF Whole, IndInv
<1>1. Among(Still) /\ Among(Still)'
  BY StillPhase
<1>2. InKernel /\ InKernel'
  <2>1. (Whole /\ Among(Still))' => InKernel'
    BY TransitStill, PTL
  <2> QED BY <1>1, <2>1, TransitStill
<1>3. ASSUME NEW e \in Ends, Send(p, e) PROVE [Str!Next]_(Str!vars)
  BY <1>2, <1>3, SendIsSend DEF Str!Next
<1>4. ASSUME NEW e \in Ends, Recv(p, e) PROVE [Str!Next]_(Str!vars)
  BY <1>2, <1>4, RecvIsRecv DEF Str!Next
<1>5. ASSUME NEW e \in Ends, Close(p, e) PROVE [Str!Next]_(Str!vars)
  BY <1>2, <1>5, CloseIsClose DEF Str!Next
<1>6. ASSUME \/ ThreadsSuspend(p) \/ LeaderElection(p) \/ Resume(p)
             \/ \E e \in Ends : SetOwn(p, e) \/ DoLocking(p, e),
             \A x \in Ends : ~Close(p, x)
      PROVE  [Str!Next]_(Str!vars)
  <2>1. UNCHANGED <<sent, rcvd, kernel, image>>
    BY <1>6 DEF ThreadsSuspend, LeaderElection, Resume, SetOwn, DoLocking, appVars, kernelVars, runVars
  <2>2. Usable' = Usable
    BY <1>6, UsableStep
  <2>3. \A e \in Ends : InTransit(e)' = InTransit(e)
    BY <1>2, <2>1 DEF InKernel
  <2> QED BY <2>1, <2>2, <2>3, Stutters
<1> QED BY <1>3, <1>4, <1>5, <1>6 DEF StillStep

(* In the drain nothing that is on its way changes.                         *)
LEMMA TransitDrained ==
    ASSUME Whole, Whole', NEW p \in Procs, Application(p) \/ CkptThread(p), DrainStep(p) \/ BeginDrain(p)
    PROVE  /\ Among(Still) \/ Draining
           /\ \A e \in Ends : InTransit(e)' = InTransit(e)
           /\ UNCHANGED <<Usable, sent, rcvd>>
<1> IndInv /\ TypeOK /\ Phases /\ Phases' /\ pc \in [Procs -> Stages]
  BY DEF Whole, IndInv, TypeOK
<1>1. /\ Among(Still) \/ Draining
      /\ pc'[p] \in {"draining", "greeting", "greeted"} \/ (WriteImage(p) /\ pc'[p] = "checkpointed")
  <2>1. CASE DrainStep(p)
    BY <2>1, DrainPhase
  <2>2. CASE BeginDrain(p)
    <3>1. Among(Drain) /\ pc'[p] = "draining"
      BY <2>2 DEF BeginDrain, Loop, Goto, Barrier, Among, Drain
    <3> QED BY <3>1 DEF Draining, Among, Drain, Still
  <2> QED BY <2>1, <2>2
<1>2. Draining'
  <2>1. ~Among({"electing"})'
    BY <1>1 DEF Among
  <2>2. CASE pc'[p] \in {"draining", "greeting", "greeted"}
    <3>1. Among(Drain)' \/ Among(Greet)'
      BY <2>2 DEF Phases, Among, Electing, Drain, Greet, Back, Again, Refilling
    <3> QED BY <2>1, <3>1 DEF Draining
  <2>3. CASE WriteImage(p) /\ pc'[p] = "checkpointed"
    <3>1. Among(Greet)
      BY <2>3, WhereTheyAre DEF WriteImage
    <3>2. Among(Greet)'
      BY <2>3, <3>1, OneGoes DEF Greet
    <3> QED BY <2>1, <3>2 DEF Draining
  <2> QED BY <1>1, <2>2, <2>3
<1>3. TransitComes /\ TransitComes'
  <2>1. (IndInv /\ BufInv /\ LocksHeld /\ (Among(Still) \/ Draining))' => TransitComes'
    BY TransitDrain, PTL
  <2> QED BY <1>1, <1>2, <2>1, TransitDrain DEF Whole
<1>4. \A e \in Ends : Coming(e)' = Coming(e)
  BY ComingStays
<1>5. \A e \in Ends : InTransit(e) = Coming(e) /\ InTransit(e)' = Coming(e)'
  BY <1>3 DEF TransitComes, Coming
<1>6. UNCHANGED <<holders, sent, rcvd>>
  BY DEF DrainStep, BeginDrain, PreCkpt, WriteImage, DrainWrite, DrainRead, DrainComplete, OnDisconnect,
         SendHandshake, RecvHandshake, appVars
<1>7. \A x \in Ends : ~Close(p, x)
  <2>1. pc[p] \notin {"run", "told"}
    <3>1. CASE DrainStep(p)
      BY <3>1, DrainPhase
    <3>2. CASE BeginDrain(p)
      BY <3>2 DEF BeginDrain
    <3> QED BY <3>1, <3>2
  <2> QED BY <2>1 DEF Close, Running
<1> QED BY <1>1, <1>4, <1>5, <1>6, <1>7, UsableStep

(* When the last image is written, what is on its way has been drained, or  *)
(* is in a dead socket.                                                     *)
LEMMA AllDrained ==
    ASSUME Whole, Draining, NEW p \in Procs, WriteImage(p), \A q \in Procs \ {p} : pc[q] = "checkpointed",
           NEW e \in Ends
    PROVE  InTransit(e) = IF type[e] = "ERROR" THEN disconnected[e] ELSE drained[e]
<1> IndInv /\ BufInv /\ LocksHeld /\ TypeOK /\ Phases /\ Known /\ Buffers
  BY DEF Whole, IndInv, BufInv
<1>0. Peer[e] \in Ends
  BY PeerFacts
<1>1. DrainBuffers /\ Elected
  BY DrainingElected DEF Buffers
<1>2. InTransit(e) = Items(e, drained[e]) \o Items(e, kernel[e])
  BY TransitDrain DEF TransitComes
<1>3. PICK D : D = DataFor(e)
  OBVIOUS
<1>4. \A s \in Seq(D) : Items(e, s) = s /\ <<>> \o s = s /\ s \o <<>> = s
  BY <1>3, ItemsData, ConcatEmptySeq
<1>5. Items(e, <<>>) = <<>>
  BY ItemsEmpty
<1>6. \A l \in Procs : ~Drains(l, e) /\ Heard(l, e)
  BY DEF WriteImage, Drains, Heard
<1>7. CASE e \notin Open
  <2>1. kernel[e] = <<>> /\ drained[e] = <<>> /\ disconnected[e] = <<>>
    BY <1>7 DEF Known
  <2>2. InTransit(e) = <<>>
    BY <1>7, TransitClosed DEF NoneClosed
  <2> QED BY <2>1, <2>2
<1>8. CASE e \in Open
  <2>1. PICK l \in Procs : Lead(l, e)
    BY <1>1, <1>8, OneLead
  <2>2. CASE Peer[e] \notin Open
    <3>1. DrainDead(l, e)
      BY <1>1, <2>1, <2>2 DEF DrainBuffers
    <3>2. type[e] = "ERROR" /\ drained[e] = <<>> /\ kernel[e] = disconnected[e] /\ kernel[e] \in Seq(D)
      BY <1>3, <1>6, <3>1 DEF DrainDead
    <3> QED BY <1>2, <1>4, <1>5, <3>2
  <2>3. CASE Peer[e] \in Open
    <3>1. PICK m \in Procs : Lead(m, Peer[e])
      BY <1>0, <1>1, <2>3, OneLead
    <3>2. DrainPair(l, m, e)
      BY <1>1, <2>1, <2>3, <3>1 DEF DrainBuffers
    <3>3. type[e] # "ERROR" /\ drained[e] \in Seq(D) /\ kernel[e] = <<>>
      BY <1>3, <1>6, <3>2 DEF DrainPair
    <3> QED BY <1>2, <1>4, <1>5, <3>3
  <2> QED BY <2>2, <2>3
<1> QED BY <1>7, <1>8

(* The last image is the checkpoint of Stream.                              *)
LEMMA DrainStream ==
    ASSUME Whole, Whole', NEW p \in Procs, Application(p) \/ CkptThread(p), DrainStep(p) \/ BeginDrain(p)
    PROVE  [Str!Next]_(Str!vars)
<1> TypeOK /\ Phases
  BY DEF Whole, IndInv
<1>1. /\ \A e \in Ends : InTransit(e)' = InTransit(e)
      /\ UNCHANGED <<Usable, sent, rcvd>>
  BY TransitDrained
<1>2. CASE image' = image
  BY <1>1, <1>2, Stutters
<1>3. CASE image' # image
  <2>1. WriteImage(p) /\ image' = Memory /\ \A q \in Procs \ {p} : pc[q] = "checkpointed"
    <3>1. WriteImage(p)
      BY <1>3 DEF DrainStep, BeginDrain, PreCkpt, DrainWrite, DrainRead, DrainComplete, OnDisconnect,
                  SendHandshake, RecvHandshake, runVars
    <3> QED BY <1>3, <3>1 DEF WriteImage
  <2>2. Draining
    <3>1. DrainStep(p)
      BY <2>1 DEF DrainStep
    <3> QED BY <3>1, DrainPhase
  <2>3. Memory \in Images /\ Memory # NoImage
    <3>1. Memory \in Images
      BY DEF Memory, Images, TypeOK, AppType, ConType, DrainType
    <3> QED BY <3>1, ImagesAssumption
  <2>4. \A e \in Ends : InTransit(e) = IF type[e] = "ERROR" THEN disconnected[e] ELSE drained[e]
    BY <2>1, <2>2, AllDrained
  <2> DEFINE Q == [e \in Ends |-> Values(e, InTransit(e))]
             R == [e \in Ends |-> Values(e, rcvd[e])]
  <2>5. Q = [e \in Ends |-> Values(e, IF type[e] = "ERROR" THEN disconnected[e] ELSE drained[e])]
    BY <2>4
  <2>6. Snapshot' = [open |-> Usable, sent |-> sent, rcvd |-> R, queue |-> Q]
    <3>1. Snapshot' = [open  |-> {e \in Ends : Memory.holders[e] # {}},
                       sent  |-> Memory.sent,
                       rcvd  |-> [e \in Ends |-> Values(e, Memory.rcvd[e])],
                       queue |-> [e \in Ends |-> Values(e, IF Memory.type[e] = "ERROR"
                                                           THEN Memory.disconnected[e]
                                                           ELSE Memory.drained[e])]]
      BY <2>1, <2>3 DEF Snapshot
    <3>2. /\ Memory.holders = holders /\ Memory.sent = sent /\ Memory.rcvd = rcvd /\ Memory.type = type
          /\ Memory.disconnected = disconnected /\ Memory.drained = drained
      BY DEF Memory
    <3>3. Usable = Open
      BY <2>2, DrainingElected, ElectedUsable DEF Whole
    <3> QED BY <2>5, <3>1, <3>2, <3>3 DEF Open
  <2>7. Q' = Q /\ R' = R
    BY <1>1 DEF Values
  <2>8. Str!Checkpoint
    BY <1>1, <2>6, <2>7 DEF Str!Checkpoint, Str!Now
  <2> QED BY <2>8 DEF Str!Next
<1> QED BY <1>2, <1>3

(* From the images, or the restart, on nothing changes.                     *)
LEMMA RefillStream ==
    ASSUME Whole, Whole', NEW p \in Procs, Application(p) \/ CkptThread(p), MendStep(p) \/ RefillStep(p)
    PROVE  UNCHANGED Str!vars
<1> IndInv /\ IndInv' /\ LocksHeld /\ LocksHeld'
  BY DEF Whole
<1>1. UNCHANGED <<holders, sent, rcvd, image>>
  BY BackGoesOn
<1>2. Open' = Open
  BY <1>1 DEF Open
<1>3. NoneClosed /\ NoneClosed'
  <2>1. LocksHeld' => NoneClosed'
    BY TransitClosed, PTL
  <2> QED BY <2>1, TransitClosed
<1>4. \A e \in Ends \ Open : InTransit(e)' = InTransit(e)
  BY <1>2, <1>3 DEF NoneClosed
<1>5. \A e \in Open : InTransit(e)' = InTransit(e)
  BY TransitRefill
<1>6. \A x \in Ends : ~Close(p, x)
  <2>1. PuttingBack
    BY RefillPhase DEF IndInv
  <2>2. pc[p] \notin {"run", "told"}
    BY <2>1 DEF PuttingBack, Among, Back, Again, Refilling
  <2> QED BY <2>2 DEF Close, Running
<1>7. Usable' = Usable
  BY <1>6, UsableStep
<1> QED BY <1>1, <1>4, <1>5, <1>7, Stutters

(* The images are those of a state of the connections.                      *)
LEMMA SnapshotIsState ==
    ASSUME TypeOK, image # NoImage
    PROVE  /\ Snapshot # NoImage
           /\ Snapshot = [open  |-> {e \in Ends : image.holders[e] # {}},
                          sent  |-> image.sent,
                          rcvd  |-> [e \in Ends |-> Values(e, image.rcvd[e])],
                          queue |-> [e \in Ends |-> Values(e, IF image.type[e] = "ERROR"
                                                              THEN image.disconnected[e]
                                                              ELSE image.drained[e])]]
<1>1. image \in Images
  BY DEF TypeOK, RunType
<1>2. PICK o, s, r, q : /\ o = {e \in Ends : image.holders[e] # {}} /\ s = image.sent
                        /\ r = [e \in Ends |-> Values(e, image.rcvd[e])]
                        /\ q = [e \in Ends |-> Values(e, IF image.type[e] = "ERROR"
                                                         THEN image.disconnected[e]
                                                         ELSE image.drained[e])]
  OBVIOUS
<1>3. Snapshot = [open |-> o, sent |-> s, rcvd |-> r, queue |-> q]
  BY <1>2 DEF Snapshot
<1>4. o \in SUBSET Ends /\ s \in [Ends -> Nat]
  BY <1>1, <1>2, ConnectionsAssumption DEF Images
<1>5. r \in [Ends -> Seq(Nat)]
  <2>1. \A e \in Ends : Values(e, image.rcvd[e]) \in Seq(Nat)
    <3>1. \A e \in Ends : image.rcvd[e] \in Seq(Item)
      BY <1>1 DEF Images
    <3> QED BY <3>1, ValuesType
  <2> QED BY <1>2, <2>1
<1>6. q \in [Ends -> Seq(Nat)]
  <2>1. \A e \in Ends : Values(e, IF image.type[e] = "ERROR" THEN image.disconnected[e] ELSE image.drained[e]) \in Seq(Nat)
    <3>1. \A e \in Ends : (IF image.type[e] = "ERROR" THEN image.disconnected[e] ELSE image.drained[e]) \in Seq(Item)
      BY <1>1 DEF Images
    <3> QED BY <3>1, ValuesType
  <2> QED BY <1>2, <2>1
<1>7. [open |-> o, sent |-> s, rcvd |-> r, queue |-> q] \in States
  BY <1>4, <1>5, <1>6 DEF States
<1>8. Snapshot # NoImage
  BY <1>3, <1>7, NoImageAssumption
<1> QED BY <1>2, <1>3, <1>8

(* After a restart what is on its way is what the images hold.              *)
LEMMA RestartTransit ==
    ASSUME Whole, Whole', Restart, NEW e \in Ends
    PROVE  InTransit(e)' = IF image.type[e] = "ERROR" THEN image.disconnected[e] ELSE image.drained[e]
<1> TypeOK /\ TypeOK' /\ ImageKeeps /\ ImageBuffers /\ LocksHeld'
  BY DEF Whole, IndInv, BufInv
<1>0. Peer[e] \in Ends
  BY PeerFacts
<1>1. image # NoImage /\ image \in Images
  BY DEF Restart, TypeOK, RunType
<1>2. /\ holders' = image.holders /\ type' = image.type /\ locked' = image.locked
      /\ drained' = image.drained /\ disconnected' = image.disconnected /\ isRestart' = TRUE
      /\ \A f \in Ends : kernel'[f] = <<>>
      /\ \A l \in Procs : pc'[l] = "restarting"
  BY DEF Restart
<1>3. PICK D : D = DataFor(e)
  OBVIOUS
<1>4. \A s \in Seq(D) : Items(e, s) = s
  BY <1>3, ItemsData
<1>5. CASE image.holders[e] = {}
  <2>1. e \notin Open'
    BY <1>2, <1>5 DEF Open
  <2>2. LocksHeld' => NoneClosed'
    BY TransitClosed, PTL
  <2>3. InTransit(e)' = <<>>
    BY <2>1, <2>2 DEF NoneClosed
  <2>4. image.drained[e] = <<>> /\ image.disconnected[e] = <<>>
    BY <1>1, <1>5 DEF ImageBuffers
  <2> QED BY <2>3, <2>4
<1>6. CASE image.holders[e] # {}
  <2>1. e \in Open'
    BY <1>2, <1>6 DEF Open
  <2>2. PuttingBack'
    BY <1>2 DEF PuttingBack, Among, Again
  <2>3. InTransit(e)' = IF image.type[e] = "ERROR" /\ LeaderIn(e, "restarting")'
                        THEN Items(e, image.disconnected[e]) ELSE Items(e, Ahead(e)')
    <3>1. PuttingBack' => TransitReturns'
      BY TransitBack, PTL
    <3>2. InTransit(e)' = IF type'[e] = "ERROR" /\ LeaderIn(e, "restarting")'
                          THEN Items(e, disconnected'[e]) ELSE Items(e, Ahead(e)')
      BY <2>1, <2>2, <3>1 DEF TransitReturns
    <3> QED BY <1>2, <3>2
  <2>4. CASE image.holders[Peer[e]] = {}
    <3>1. image.type[e] = "ERROR" /\ image.disconnected[e] \in Seq(D)
      BY <1>1, <1>3, <1>6, <2>4 DEF ImageBuffers
    <3>2. LeaderIn(e, "restarting")'
      <4>1. PICK l \in image.holders[e] : <<l, e>> \in image.locked
        BY <1>1, <1>6 DEF ImageKeeps
      <4>2. l \in Procs
        BY <1>1, <4>1 DEF Images
      <4> QED BY <1>2, <4>1, <4>2 DEF LeaderIn
    <3> QED BY <1>4, <2>3, <3>1, <3>2
  <2>5. CASE image.holders[Peer[e]] # {}
    <3>1. image.type[e] # "ERROR" /\ image.drained[e] \in Seq(D)
      BY <1>1, <1>3, <1>6, <2>5 DEF ImageBuffers
    <3>2. Echoing(e)' = <<>>
      BY <1>2 DEF Echoing
    <3>3. Items(e, Ahead(e)') = Joined(<<>>, <<>>, <<>>, image.drained[e])
      <4>1. TypeOK' => AheadInParts'
        BY AheadItems, PTL
      <4>2. Items(e, Ahead(e)') = Joined(Items(e, kernel'[e]), Items(e, Echoing(e)'),
                                         Items(e, kernel'[Peer[e]]), Items(e, drained'[e]))
        BY <4>1 DEF AheadInParts
      <4>3. Items(e, drained'[e]) = image.drained[e]
        BY <1>2, <1>4, <3>1
      <4> QED BY <1>0, <1>2, <3>2, <4>2, <4>3, ItemsEmpty
    <3>4. \A s \in Seq(D) : <<>> \o s = s
      BY ConcatEmptySeq
    <3>5. Joined(<<>>, <<>>, <<>>, image.drained[e]) = image.drained[e]
      BY <3>1, <3>4, Zenon DEF Joined
    <3> QED BY <2>3, <3>1, <3>3, <3>5
  <2> QED BY <2>4, <2>5
<1> QED BY <1>5, <1>6

(* A restart is the restart of Stream.                                      *)
LEMMA RestartStream == ASSUME Whole, Whole', Restart PROVE Str!Restart
<1> TypeOK
  BY DEF Whole, IndInv
<1>1. /\ image # NoImage /\ image' = image /\ holders' = image.holders
      /\ sent' = image.sent /\ rcvd' = image.rcvd
  BY DEF Restart
<1> DEFINE Q == [e \in Ends |-> Values(e, InTransit(e))]
           R == [e \in Ends |-> Values(e, rcvd[e])]
           O == {e \in Ends : image.holders[e] # {}}
           I == [e \in Ends |-> Values(e, image.rcvd[e])]
           J == [e \in Ends |-> Values(e, IF image.type[e] = "ERROR"
                                          THEN image.disconnected[e] ELSE image.drained[e])]
<1>2. Snapshot # NoImage /\ Snapshot = [open |-> O, sent |-> image.sent, rcvd |-> I, queue |-> J]
  BY <1>1, SnapshotIsState
<1>3. Usable' = O
  <2>1. \A e \in O : \E l \in image.holders[e] : <<l, e>> \in image.locked
    BY <1>1 DEF Whole, IndInv, ImageKeeps
  <2>2. locked' = image.locked
    BY DEF Restart
  <2> QED BY <1>1, <2>1, <2>2 DEF Usable
<1>4. R' = I
  BY <1>1 DEF Values
<1>5. Q' = J
  <2>1. Q' = [e \in Ends |-> Values(e, InTransit(e)')]
    BY DEF Values
  <2>2. \A e \in Ends : Values(e, InTransit(e)') = Values(e, IF image.type[e] = "ERROR"
                                                             THEN image.disconnected[e] ELSE image.drained[e])
    BY RestartTransit
  <2> QED BY <2>1, <2>2
<1>6. Snapshot' = Snapshot
  BY <1>1 DEF Snapshot
<1> HIDE DEF O, I, J
<1>7. Snapshot.open = O /\ Snapshot.sent = image.sent /\ Snapshot.rcvd = I /\ Snapshot.queue = J
  BY <1>2
<1> QED BY <1>1, <1>2, <1>3, <1>4, <1>5, <1>6, <1>7 DEF Str!Restart

------------------------------------------------------------------------------
(* At the start nothing has been written.                                   *)
LEMMA InitStream == Init => Str!Init
<1> SUFFICES ASSUME Init PROVE Str!Init
  OBVIOUS
<1>1. Whole /\ Among(Still)
  BY InitIndInv, InitBufInv DEF Whole, Init, LocksHeld, Among, Still
<1>2. \A e \in Ends : InTransit(e) = <<>>
  BY <1>1, TransitStill DEF InKernel, Init
<1>3. Usable = Ends
  <2>1. holders \in [Ends -> (SUBSET Procs) \ {{}}] /\ wired = {pe \in Procs \X Ends : pe[1] \in holders[pe[2]]}
    BY SocketsAssumption DEF Init
  <2>2. \A e \in Ends : \E q \in holders[e] : q \in Procs
    BY <2>1
  <2>3. \A e \in Ends : \A q \in holders[e] : q \in Procs => <<q, e>> \in wired
    BY <2>1
  <2> QED BY <2>2, <2>3 DEF Usable
<1>4. [e \in Ends |-> Values(e, InTransit(e))] = [e \in Ends |-> <<>>]
  BY <1>2, ValuesEmpty
<1>5. \A e \in Ends : rcvd[e] = <<>>
  BY DEF Init
<1>6. [e \in Ends |-> Values(e, rcvd[e])] = [e \in Ends |-> <<>>]
  BY <1>5, ValuesEmpty
<1>7. sent = [e \in Ends |-> 0] /\ Snapshot = NoImage
  BY DEF Init, Snapshot
<1> QED BY <1>3, <1>4, <1>6, <1>7 DEF Str!Init

(* Every step of the processes, of the coordinator and of a restart is a    *)
(* step of Stream or changes nothing there.                                 *)
LEMMA NextStream == Whole /\ Whole' /\ [Next]_vars => [Str!Next]_(Str!vars)
<1> SUFFICES ASSUME Whole, Whole', [Next]_vars PROVE [Str!Next]_(Str!vars)
  OBVIOUS
<1>1. CASE Restart
  BY <1>1, RestartStream DEF Str!Next
<1>2. CASE Request
  <2>1. Among(Still) /\ Among(Still)'
    BY <1>2 DEF Request, Among, Still
  <2>2. InKernel /\ InKernel'
    <3>1. (Whole /\ Among(Still))' => InKernel'
      BY TransitStill, PTL
    <3> QED BY <2>1, <3>1, TransitStill
  <2>3. UNCHANGED <<holders, wired, locked, sent, rcvd, kernel, image>>
    BY <1>2 DEF Request, kernelVars, conVars
  <2>4. Usable' = Usable /\ \A e \in Ends : InTransit(e)' = InTransit(e)
    BY <2>2, <2>3 DEF Usable, InKernel
  <2> QED BY <2>3, <2>4, Stutters
<1>3. ASSUME NEW p \in Procs, Application(p) \/ CkptThread(p) PROVE [Str!Next]_(Str!vars)
  <2>1. CASE StillStep(p)
    BY <1>3, <2>1, StillStream
  <2>2. CASE DrainStep(p) \/ BeginDrain(p)
    BY <1>3, <2>2, DrainStream
  <2>3. CASE MendStep(p) \/ RefillStep(p)
    BY <1>3, <2>3, RefillStream
  <2> QED BY <1>3, <2>1, <2>2, <2>3, WhichStep
<1>4. CASE UNCHANGED vars
  <2>1. Usable' = Usable /\ UNCHANGED <<sent, rcvd, image>>
    BY <1>4 DEF vars, appVars, kernelVars, conVars, runVars, Usable
  <2>2. ASSUME NEW e \in Ends PROVE InTransit(e)' = InTransit(e)
    <3>1. UNCHANGED <<holders, kernel, type, locked, drained, disconnected, pc, cur, tmp>>
      BY <1>4 DEF vars, appVars, kernelVars, conVars, drainVars, loopVars
    <3> QED BY <3>1 DEF InTransit, Open, LeaderIn, Echoing
  <2> QED BY <2>1, <2>2, Stutters
<1> QED BY <1>1, <1>2, <1>3, <1>4 DEF Next

(* The refinement.                                                          *)
THEOREM KeepsTheStream == Spec => ImplementsStream
<1>1. Spec => []Whole
  BY IndInvHolds, BufInvHolds, LocksAreHeld, PTL DEF Whole
<1>2. Init => Str!Init
  BY InitStream
<1>3. Whole /\ Whole' /\ [Next]_vars => [Str!Next]_(Str!vars)
  BY NextStream
<1> QED BY <1>1, <1>2, <1>3, PTL DEF Spec, Str!Spec, ImplementsStream
==============================================================================
