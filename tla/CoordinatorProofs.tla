-------------------------- MODULE CoordinatorProofs --------------------------
(***************************************************************************)
(* Proofs about the coordinator and its processes, for any number of       *)
(* processes, commands and runs.                                           *)
(***************************************************************************)
EXTENDS Coordinator, CollectionTheorems

USE DEF UNKNOWN, RUNNING, SUSPENDED, FD_LEADER_ELECTION, DRAINED, RESTARTING, CHECKPOINTED,
        NAME_SERVICE_DATA_REGISTERED, DONE_QUERYING, REFILLED, None

(* A phase is named by the state its slowest processes are in: those that   *)
(* still have the order of the phase to carry out.  The others are in the   *)
(* next state and wait.  A computation that runs is in the phase REFILLED.  *)
Phases == RUNNING .. REFILLED

Busy == Clients # {} \/ Alive # {}

InPhase(k, s) == s \in {k, NextState(k)} \/ (k = REFILLED /\ s = UNKNOWN)

Filename == [type |-> "CKPT_FILENAME", state |-> DRAINED]
BothReports == <<Filename, Report(CHECKPOINTED)>>

(* What a process learns at the leader election: the checkpoint it belongs  *)
(* to, and no fewer peers than may still take part in it.                   *)
Fresh(i) ==
    /\ i \in Infos /\ i.compId = compId /\ i.generation = generation
    /\ i.numPeers >= Cardinality(Clients \cup restartFilenames)

(* The coordinator's table, the processes and the sockets agree on who is   *)
(* there.                                                                   *)
Membership ==
    /\ ~up => Clients = {}
    /\ up => Alive \subseteq Clients
    /\ \A w \in Clients : proc[w] # "absent"
    /\ \A w \in Workers : proc[w] # "alive" => toWorker[w] = <<>>
    /\ up => \A w \in Workers \ Clients : toCoord[w] = <<>>
    /\ \A w \in toRestart : proc[w] = "absent"

(* What the coordinator has recorded of a client is one report behind its   *)
(* state at most, and that report is in its socket.                         *)
Recorded(k) ==
    \A w \in Clients :
        /\ InPhase(k, recorded[w])
        /\ \/ toCoord[w] = <<>>
           \/ /\ recorded[w] # NextState(k)
              /\ \/ toCoord[w] = <<Report(NextState(k))>>
                 \/ k = DRAINED /\ toCoord[w] = BothReports
        /\ proc[w] = "alive" =>
              state[w] = IF toCoord[w] = <<>> THEN recorded[w] ELSE NextState(k)

(* In front of the first KILL, a process has at most the order of the phase *)
(* in its socket, and only while it has not carried it out.                 *)
Ordered(k) ==
    \A w \in Alive :
        /\ InPhase(k, state[w])
        /\ toWorker[w] # <<>> =>
              \/ toWorker[w][1].type = "KILL_PEER"
              \/ /\ state[w] = k /\ k # RESTARTING
                 /\ toWorker[w][1].type = Expected(k)
                 /\ k = SUSPENDED => Fresh(toWorker[w][1].info)
                 /\ Len(toWorker[w]) > 1 => toWorker[w][2].type = "KILL_PEER"

(* SUSPEND is out exactly as long as someone has not answered it.           *)
Flagged(k) ==
    Clients # {} => /\ suspendSent <=> k = RUNNING
                    /\ k = RUNNING => \E w \in Clients : recorded[w] = RUNNING

(* The images of the checkpoint that is being taken.                        *)
Written(k) ==
    /\ \A w \in Alive : k \in SUSPENDED .. DRAINED /\ state[w] \in {FD_LEADER_ELECTION, DRAINED}
            => Fresh(info[w])
    /\ Busy /\ k \in RUNNING .. FD_LEADER_ELECTION => restartFilenames = {}
    /\ Busy /\ k = DRAINED =>
          /\ \A w \in restartFilenames : Fresh(image[w])
          /\ \A w \in Clients :
                /\ toCoord[w] = BothReports => Fresh(image[w])
                /\ proc[w] = "alive" /\ state[w] = CHECKPOINTED /\ toCoord[w] # BothReports
                      => w \in restartFilenames

(* A restart lets in every process of the script before it goes on, and     *)
(* none after; the generation grows from script to script.                  *)
Joined(k) ==
    Busy =>
        /\ k = RESTARTING =>
              isRestarting /\ Cardinality(Clients) + Cardinality(toRestart) <= numPeers
        /\ k # RESTARTING => \A w \in toRestart : image[w].compId # compId
        /\ k \in (RUNNING .. DRAINED) \cup {REFILLED} => (isRestarting => numPeers = None)
        /\ script.compId = compId =>
              /\ script.generation <= generation
              /\ k \in RUNNING .. DRAINED => script.generation # generation

(* No command waits for a checkpoint when a restart begins, nor after the   *)
(* restart script is written.                                               *)
Waits(k) ==
    ExitOnLast \/ MaxRuns <= 1 =>
        /\ Busy /\ k \in RESTARTING .. DONE_QUERYING => \A c \in Cmds : cmd[c] # "waiting"
        /\ ExitOnLast /\ Clients = {} => \A c \in Cmds : cmd[c] # "waiting"
        /\ MaxRuns <= 1 => toRestart = {}

(* A computation that exists was begun in this run or before it.            *)
Known(id) == id[2] <= runs /\ (id[2] = runs => proc[id[1]] # "absent")

History ==
    /\ runs >= 1 /\ (MaxRuns <= 1 => runs = 1)
    /\ Known(compId) /\ Known(script.compId) /\ \A w \in Workers : Known(image[w].compId)
    /\ \A w \in toRestart :
          /\ Cardinality(toRestart) <= image[w].numPeers
          /\ image[w].compId = script.compId => script.generation <= image[w].generation
    /\ \A w \in script.files :
          image[w].compId = script.compId /\ image[w].generation = script.generation
              => Cardinality(script.files) <= image[w].numPeers

Phase(k) ==
    Recorded(k) /\ Ordered(k) /\ Flagged(k) /\ Written(k) /\ Joined(k) /\ Waits(k)

IndInv ==
    /\ TypeOK
    /\ Membership
    /\ KillReachesAll
    /\ History
    /\ ExitOnLast \/ MaxRuns <= 1 => NoEarlyAnswer
    /\ \E k \in Phases : Phase(k)

------------------------------------------------------------------------------
(* What stays the same when the variables of a part of IndInv do.           *)
LEMMA SameRecorded ==
    ASSUME NEW k, Recorded(k), UNCHANGED <<recorded, toCoord, proc, state>>
    PROVE  Recorded(k)'
BY DEF Recorded, Clients

(* Who takes part in the checkpoint is the same.                            *)
LEMMA SameFresh ==
    ASSUME UNCHANGED <<recorded, restartFilenames, compId, generation>>
    PROVE  \A i : Fresh(i)' <=> Fresh(i)
BY DEF Fresh, Clients

(* No order is sent or carried out.                                         *)
LEMMA SameOrdered ==
    ASSUME NEW k, Ordered(k), UNCHANGED <<proc, state, toWorker>>,
           \A i : Fresh(i) => Fresh(i)'
    PROVE  Ordered(k)'
BY DEF Ordered, Alive

(* No image is written or reported.                                         *)
LEMMA SameWritten ==
    ASSUME NEW k, Written(k), UNCHANGED <<recorded, toCoord, proc, state, info, image,
                                          restartFilenames, compId, generation>>
    PROVE  Written(k)'
BY SameFresh DEF Written, Alive, Clients, Busy

(* Nobody connects, leaves or is restarted.                                 *)
LEMMA SameJoined ==
    ASSUME NEW k, Joined(k), UNCHANGED <<recorded, proc, image, script, toRestart, isRestarting,
                                         numPeers, compId, generation>>
    PROVE  Joined(k)'
BY DEF Joined, Alive, Clients, Busy

(* No process stops for SUSPEND.                                            *)
LEMMA SameFlagged ==
    ASSUME NEW k, Flagged(k), UNCHANGED <<recorded, suspendSent>>
    PROVE  Flagged(k)'
BY DEF Flagged, Clients

(* Nobody comes or goes.                                                    *)
LEMMA SameMembership ==
    ASSUME Membership, UNCHANGED <<up, recorded, proc, toWorker, toCoord, toRestart>>
    PROVE  Membership'
BY DEF Membership, Clients, Alive

(* No script is written and no computation begun.                           *)
LEMMA SameHistory ==
    ASSUME History, UNCHANGED <<runs, proc, image, script, toRestart, compId>>
    PROVE  History'
BY DEF History, Known

(* No command begins to wait.                                               *)
LEMMA SameWaits ==
    ASSUME NEW k, Waits(k), UNCHANGED <<recorded, proc, toRestart>>,
           \A c \in Cmds : cmd'[c] = "waiting" => cmd[c] = "waiting"
    PROVE  Waits(k)'
BY DEF Waits, Busy, Clients, Alive

(* No KILL is sent or received.                                             *)
LEMMA SameKill ==
    ASSUME KillReachesAll, UNCHANGED <<up, killInProgress, recorded, proc, toWorker>>
    PROVE  KillReachesAll'
BY DEF KillReachesAll, Clients, Alive

(* The clients are finitely many.                                           *)
LEMMA FiniteClients ==
    ASSUME TypeOK
    PROVE  /\ IsFiniteSet(Clients) /\ Cardinality(Clients) \in Nat
           /\ IsFiniteSet(restartFilenames)
           /\ IsFiniteSet(Clients \cup restartFilenames)
           /\ Cardinality(Clients \cup restartFilenames) \in Nat
           /\ IsFiniteSet(toRestart) /\ Cardinality(toRestart) \in Nat
           /\ Count(recorded) = Cardinality(Clients)
<1>1. IsFiniteSet(Workers)
  BY CoordinatorAssumption
<1>2. Clients \subseteq Workers /\ restartFilenames \subseteq Workers /\ toRestart \subseteq Workers
  BY DEF Clients, TypeOK
<1>3. IsFiniteSet(Clients) /\ IsFiniteSet(restartFilenames) /\ IsFiniteSet(toRestart)
      /\ IsFiniteSet(Clients \cup restartFilenames)
  BY <1>1, <1>2, FS_Subset, FS_Union
<1> QED BY <1>3, FS_CardinalityType DEF Count, Clients

(* The minimum of the states reported.                                      *)
LEMMA MinOf ==
    ASSUME NEW S, S \subseteq WorkerStates, S # {}
    PROVE  Min(S) \in S /\ \A x \in S : Min(S) <= x
<1>1. \E m \in S : \A x \in S : m <= x
  <2>1. \A i \in 0 .. 9 : (\A j \in 0 .. 9 : j < i => j \notin S) /\ i \in S
                            => \E m \in S : \A x \in S : m <= x
    BY DEF WorkerStates
  <2> DEFINE Above(i) == \A j \in 0 .. 9 : j < i => j \notin S
  <2>2. ASSUME ~\E m \in S : \A x \in S : m <= x PROVE FALSE
    <3>1. \A i \in 0 .. 9 : Above(i) => Above(i + 1)
      BY <2>1, <2>2
    <3>2. Above(0)
      OBVIOUS
    <3> HIDE DEF Above
    <3>3. Above(1) /\ Above(2) /\ Above(3) /\ Above(4) /\ Above(5)
      BY <3>1, <3>2
    <3>4. Above(6) /\ Above(7) /\ Above(8) /\ Above(9) /\ Above(10)
      BY <3>1, <3>3
    <3>5. PICK x \in S : TRUE
      OBVIOUS
    <3>6. x \in 0 .. 9
      BY DEF WorkerStates
    <3>7. x < 10
      BY <3>6
    <3> QED BY <3>4, <3>6, <3>7 DEF Above
  <2> QED BY <2>2
<1> QED BY <1>1 DEF Min

(* The state of the barrier: the least that was reported, except that a     *)
(* restart that is not complete stays RESTARTING.                           *)
LEMMA MinState ==
    ASSUME NEW r \in [Workers -> WorkerStates \cup {None}], NEW v \in Workers, r[v] # None
    PROVE  \E w \in Workers :
              /\ r[w] # None
              /\ \A x \in Workers : r[x] # None => r[w] <= r[x]
              /\ \/ MinimumState(r) = r[w]
                    /\ ~(r[w] = CHECKPOINTED /\ isRestarting /\ Count(r) < numPeers)
                 \/ MinimumState(r) = RESTARTING
                    /\ r[w] = CHECKPOINTED /\ isRestarting /\ Count(r) < numPeers
<1>1. States(r) \subseteq WorkerStates /\ States(r) # {}
  BY DEF States
<1>2. Min(States(r)) \in States(r) /\ \A x \in States(r) : Min(States(r)) <= x
  BY <1>1, MinOf
<1>3. Count(r) # 0
  <2>1. IsFiniteSet({x \in Workers : r[x] # None})
    BY CoordinatorAssumption, FS_Subset
  <2> QED BY <2>1, FS_EmptySet DEF Count
<1>4. PICK w \in Workers : r[w] # None /\ r[w] = Min(States(r))
  BY <1>2 DEF States
<1>5. \A x \in Workers : r[x] # None => r[x] \in States(r)
  BY DEF States
<1> QED BY <1>2, <1>3, <1>4, <1>5 DEF MinimumState

------------------------------------------------------------------------------
(* Steps that leave the processes and what the coordinator knows of them    *)
(* alone.                                                                   *)
LEMMA QuietStep ==
    ASSUME IndInv, TypeOK',
           UNCHANGED <<up, recorded, compVars, killInProgress, restartFilenames, toWorker, toCoord,
                       procVars, diskVars, userVars>>,
           \A c \in Cmds : cmd'[c] \in {"waiting", "early"} => cmd'[c] = cmd[c]
    PROVE  IndInv'
<1> USE DEF compVars, procVars, diskVars, userVars
<1>1. Membership /\ KillReachesAll /\ History /\ (ExitOnLast \/ MaxRuns <= 1 => NoEarlyAnswer)
  BY DEF IndInv
<1>2. PICK k \in Phases : Phase(k)
  BY DEF IndInv
<1>3. Membership' /\ KillReachesAll' /\ History'
  BY <1>1, SameMembership, SameKill, SameHistory
<1>4. ExitOnLast \/ MaxRuns <= 1 => NoEarlyAnswer'
  BY <1>1 DEF NoEarlyAnswer
<1>5. Phase(k)'
  BY <1>2, SameRecorded, SameFresh, SameOrdered, SameFlagged, SameWritten, SameJoined, SameWaits
     DEF Phase
<1> QED BY <1>3, <1>4, <1>5 DEF IndInv

(* The commands that change nothing but the coordinator's settings.         *)
LEMMA QuietCommands ==
    ASSUME IndInv, NEW c \in Cmds, SendPrefix(c) \/ SendInterval(c) \/ CommandFails(c)
    PROVE  IndInv'
<1> USE DEF SendPrefix, SendInterval, CommandFails, compVars, procVars, diskVars, userVars, blockVars
<1>1. TypeOK
  BY DEF IndInv
<1>2. TypeOK'
  <2>1. blockUntilDone' \in BOOLEAN /\ exitAfterCkpt' \in BOOLEAN /\ interval' \in BOOLEAN
    BY <1>1 DEF TypeOK
  <2>2. cmd' \in [Cmds -> CmdStates]
    BY <1>1 DEF TypeOK, CmdStates
  <2> QED BY <1>1, <2>1, <2>2 DEF TypeOK
<1>3. \A d \in Cmds : cmd'[d] \in {"waiting", "early"} => cmd'[d] = cmd[d]
  BY <1>1 DEF TypeOK
<1> QED BY <1>2, <1>3, QuietStep

(* A step of something else.                                                *)
LEMMA StutterStep == ASSUME IndInv, UNCHANGED vars PROVE IndInv'
<1> USE DEF vars, compVars, procVars, diskVars, userVars, blockVars
<1>1. TypeOK'
  BY DEF IndInv, TypeOK
<1> QED BY <1>1, QuietStep

(* A message is put behind what a process has in its socket.                *)
LEMMA AppendMessage ==
    ASSUME NEW S, NEW q \in Seq(S), NEW m \in S
    PROVE  /\ Append(q, m) \in Seq(S) /\ Append(q, m) # <<>> /\ Len(Append(q, m)) = Len(q) + 1
           /\ \A i \in 1 .. Len(q) : Append(q, m)[i] = q[i]
           /\ Append(q, m)[Len(q) + 1] = m
           /\ Len(q) \in Nat
           /\ q # <<>> => Append(q, m)[1] = q[1] /\ Len(q) >= 1
           /\ q = <<>> => Append(q, m)[1] = m /\ Len(q) = 0
           /\ Len(q) > 1 => Append(q, m)[2] = q[2]
           /\ Len(q) = 1 => Append(q, m)[2] = m
<1>1. Append(q, m) \in Seq(S) /\ Append(q, m) # <<>> /\ Len(Append(q, m)) = Len(q) + 1
      /\ (\A i \in 1 .. Len(q) : Append(q, m)[i] = q[i]) /\ Append(q, m)[Len(q) + 1] = m
  BY AppendProperties
<1>2. Len(q) \in Nat /\ (q # <<>> => Len(q) >= 1) /\ (q = <<>> => Len(q) = 0)
  BY EmptySeq, LenProperties
<1>3. q # <<>> => 1 \in 1 .. Len(q)
  BY <1>2
<1>4. Len(q) > 1 => 2 \in 1 .. Len(q)
  BY <1>2
<1>5. /\ q # <<>> => Append(q, m)[1] = q[1]
      /\ q = <<>> => Append(q, m)[1] = m
  BY <1>1, <1>2, <1>3
<1>6. Len(q) > 1 => Append(q, m)[2] = q[2]
  BY <1>1, <1>4
<1>7. Len(q) = 1 => Append(q, m)[2] = m
  BY <1>1
<1> QED BY <1>1, <1>2, <1>5, <1>6, <1>7

(* KILL is put behind the orders of some processes, which only ends them.   *)
LEMMA KillAppended ==
    ASSUME TypeOK, NEW S \in SUBSET Alive,
           toWorker' = [w \in Workers |-> IF w \in S THEN Append(toWorker[w], Order("KILL_PEER"))
                                          ELSE toWorker[w]]
    PROVE  /\ toWorker' \in [Workers -> Seq(Messages)]
           /\ \A w \in S : \E i \in 1 .. Len(toWorker'[w]) : toWorker'[w][i].type = "KILL_PEER"
           /\ \A w \in Workers : proc[w] # "alive" => toWorker'[w] = toWorker[w]
           /\ \A k \in Phases : Ordered(k) /\ UNCHANGED <<proc, state>>
                                   /\ (\A i : Fresh(i) => Fresh(i)') => Ordered(k)'
<1>1. Order("KILL_PEER") \in Messages /\ Order("KILL_PEER").type = "KILL_PEER"
  BY DEF Order, Messages, Orders, NoInfo, Infos, NoComp, CompIds
<1>2. \A w \in Workers : toWorker[w] \in Seq(Messages)
  BY DEF TypeOK
<1>3. S \subseteq Workers
  BY DEF Alive
<1>4. toWorker' \in [Workers -> Seq(Messages)]
  BY <1>1, <1>2, AppendMessage
<1>5. \A w \in S : \E i \in 1 .. Len(toWorker'[w]) : toWorker'[w][i].type = "KILL_PEER"
  <2> SUFFICES ASSUME NEW w \in S
               PROVE \E i \in 1 .. Len(toWorker'[w]) : toWorker'[w][i].type = "KILL_PEER"
    OBVIOUS
  <2>1. /\ toWorker'[w] = Append(toWorker[w], Order("KILL_PEER"))
        /\ Len(toWorker'[w]) = Len(toWorker[w]) + 1 /\ Len(toWorker[w]) \in Nat
        /\ toWorker'[w][Len(toWorker[w]) + 1] = Order("KILL_PEER")
    BY <1>1, <1>2, <1>3, AppendMessage
  <2>2. Len(toWorker[w]) + 1 \in 1 .. Len(toWorker'[w])
    BY <2>1
  <2> QED BY <1>1, <2>1, <2>2
<1>6. \A w \in Workers : proc[w] # "alive" => toWorker'[w] = toWorker[w]
  BY <1>3 DEF Alive
<1>7. ASSUME NEW k \in Phases, Ordered(k), UNCHANGED <<proc, state>>, \A i : Fresh(i) => Fresh(i)'
      PROVE  Ordered(k)'
  <2> SUFFICES ASSUME NEW w \in Alive PROVE Ordered(k)!(w)'
    BY <1>7 DEF Ordered, Alive
  <2>1. Ordered(k)!(w)
    BY <1>7 DEF Ordered
  <2>2. w \in Workers
    BY DEF Alive
  <2>3. CASE w \notin S
    BY <1>7, <2>1, <2>2, <2>3
  <2>4. CASE w \in S
    <3>1. PICK q \in Seq(Messages) : q = toWorker[w]
      BY <1>2, <2>2
    <3>2. PICK m \in Messages : m = Order("KILL_PEER") /\ m.type = "KILL_PEER"
      BY <1>1
    <3>3. toWorker'[w] = Append(q, m)
      BY <2>2, <2>4, <3>1, <3>2
    <3>4. /\ q # <<>> => Append(q, m)[1] = q[1] /\ Len(q) >= 1
          /\ q = <<>> => Append(q, m)[1] = m
          /\ Len(q) \in Nat /\ Len(Append(q, m)) = Len(q) + 1
          /\ Len(q) > 1 => Append(q, m)[2] = q[2]
          /\ Len(q) = 1 => Append(q, m)[2] = m
      BY AppendMessage
    <3>5. CASE q = <<>> \/ q[1].type = "KILL_PEER"
      BY <1>7, <2>1, <3>1, <3>2, <3>3, <3>4, <3>5
    <3>6. CASE q # <<>> /\ q[1].type # "KILL_PEER"
      <4>1. Append(q, m)[1] = q[1] /\ Append(q, m)[2].type = "KILL_PEER"
        BY <2>1, <3>1, <3>2, <3>4, <3>6
      <4>2. k = SUSPENDED => Fresh(q[1].info)'
        BY <1>7, <2>1, <3>1, <3>6
      <4> QED BY <1>7, <2>1, <3>1, <3>3, <3>6, <4>1, <4>2
    <3> QED BY <3>5, <3>6
  <2> QED BY <2>3, <2>4
<1> QED BY <1>4, <1>5, <1>6, <1>7

(* The fewer take part, the fewer peers are enough.                         *)
LEMMA FreshStays ==
    ASSUME TypeOK, Clients' \cup restartFilenames' \subseteq Clients \cup restartFilenames,
           UNCHANGED <<compId, generation>>
    PROVE  \A i : Fresh(i) => Fresh(i)'
<1>1. /\ IsFiniteSet(Clients \cup restartFilenames)
      /\ Cardinality(Clients \cup restartFilenames) \in Nat
  BY FiniteClients
<1>2. PICK A : A = Clients \cup restartFilenames
  OBVIOUS
<1>3. PICK B : B = Clients' \cup restartFilenames'
  OBVIOUS
<1>4. Cardinality(B) <= Cardinality(A) /\ Cardinality(B) \in Nat /\ Cardinality(A) \in Nat
  BY <1>1, <1>2, <1>3, FS_Subset, FS_CardinalityType
<1> SUFFICES ASSUME NEW i, Fresh(i) PROVE Fresh(i)'
  OBVIOUS
<1>5. i.numPeers \in Int /\ i.numPeers >= Cardinality(A)
  BY <1>2 DEF Fresh, Infos
<1>6. i.numPeers >= Cardinality(B)
  BY <1>4, <1>5
<1> QED BY <1>3, <1>6 DEF Fresh

(* The command 'k'.                                                         *)
LEMMA SendKillStep == ASSUME IndInv, NEW c \in Cmds, SendKill(c) PROVE IndInv'
<1> USE DEF SendKill, BroadcastKill, Broadcast, compVars, procVars, diskVars, userVars, blockVars
<1>1. TypeOK /\ Membership /\ KillReachesAll /\ History
      /\ (ExitOnLast \/ MaxRuns <= 1 => NoEarlyAnswer)
  BY DEF IndInv
<1>2. PICK k \in Phases : Phase(k)
  BY DEF IndInv
<1> DEFINE S == Clients \cap Alive
<1>3. S \in SUBSET Alive /\ toWorker' = [w \in Workers |-> IF w \in S
                               THEN Append(toWorker[w], Order("KILL_PEER")) ELSE toWorker[w]]
  BY DEF Clients, Alive
<1>4. /\ toWorker' \in [Workers -> Seq(Messages)]
      /\ \A w \in S : \E i \in 1 .. Len(toWorker'[w]) : toWorker'[w][i].type = "KILL_PEER"
      /\ \A w \in Workers : proc[w] # "alive" => toWorker'[w] = toWorker[w]
      /\ Ordered(k)'
  <2>1. \A i : Fresh(i) => Fresh(i)'
    BY SameFresh
  <2>2. Ordered(k) /\ UNCHANGED <<proc, state>>
    BY <1>2 DEF Phase
  <2> HIDE DEF S
  <2> QED BY <1>1, <1>3, <2>1, <2>2, KillAppended
<1>5. TypeOK'
  <2>1. cmd' \in [Cmds -> CmdStates]
    BY <1>1 DEF TypeOK, CmdStates
  <2>2. killInProgress' \in BOOLEAN
    BY <1>1 DEF TypeOK
  <2> QED BY <1>1, <1>4, <2>1, <2>2 DEF TypeOK
<1>6. Membership'
  BY <1>1, <1>4 DEF Membership, Clients, Alive
<1>7. KillReachesAll'
  BY <1>4 DEF KillReachesAll, Clients, Alive
<1>8. \A d \in Cmds : cmd'[d] \in {"waiting", "early"} => cmd'[d] = cmd[d]
  BY <1>1 DEF TypeOK
<1>9. ExitOnLast \/ MaxRuns <= 1 => NoEarlyAnswer'
  BY <1>1, <1>8 DEF NoEarlyAnswer
<1>10. Phase(k)'
  BY <1>2, <1>4, <1>8, SameRecorded, SameFlagged, SameWritten, SameJoined, SameWaits DEF Phase
<1> QED BY <1>1, <1>5, <1>6, <1>7, <1>9, <1>10, SameHistory DEF IndInv

(* The command 'q'.                                                         *)
LEMMA SendQuitStep == ASSUME IndInv, NEW c \in Cmds, SendQuit(c) PROVE IndInv'
<1> USE DEF SendQuit, compVars, procVars, diskVars, userVars, blockVars
<1>1. TypeOK /\ Membership /\ KillReachesAll /\ History
      /\ (ExitOnLast \/ MaxRuns <= 1 => NoEarlyAnswer)
  BY DEF IndInv
<1>2. PICK k \in Phases : Phase(k)
  BY DEF IndInv
<1> DEFINE S == Clients \cap Alive
<1>3. S \in SUBSET Alive /\ toWorker' = [w \in Workers |-> IF w \in S
                               THEN Append(toWorker[w], Order("KILL_PEER")) ELSE toWorker[w]]
  OBVIOUS
<1>4. Clients' = {} /\ Alive' = Alive /\ (Busy' => Busy)
  BY DEF Clients, Alive, Busy
<1>5. \A i : Fresh(i) => Fresh(i)'
  BY <1>1, <1>4, FreshStays
<1>6. /\ toWorker' \in [Workers -> Seq(Messages)]
      /\ \A w \in Workers : proc[w] # "alive" => toWorker'[w] = toWorker[w]
      /\ Ordered(k)'
  <2>1. Ordered(k) /\ UNCHANGED <<proc, state>>
    BY <1>2 DEF Phase
  <2> HIDE DEF S
  <2> QED BY <1>1, <1>3, <1>5, <2>1, KillAppended
<1>7. TypeOK'
  <2>1. cmd' \in [Cmds -> CmdStates]
    BY <1>1 DEF TypeOK, CmdStates, Lost
  <2>2. recorded' \in [Workers -> WorkerStates \cup {None}]
    OBVIOUS
  <2> QED BY <1>1, <1>6, <2>1, <2>2 DEF TypeOK
<1>8. Membership' /\ KillReachesAll'
  BY <1>1, <1>4, <1>6 DEF Membership, KillReachesAll
<1>9. \A d \in Cmds : cmd'[d] # "waiting" /\ (cmd'[d] = "early" => cmd'[d] = cmd[d])
  BY <1>1 DEF TypeOK, Lost, Pending
<1>10. ExitOnLast \/ MaxRuns <= 1 => NoEarlyAnswer'
  BY <1>1, <1>9 DEF NoEarlyAnswer
<1>11. Joined(k)'
  <2>1. Joined(k) /\ Cardinality(Clients') = 0 /\ Cardinality(Clients) \in Nat
        /\ Cardinality(toRestart) \in Nat /\ numPeers \in Int
    BY <1>1, <1>2, <1>4, FS_EmptySet, FiniteClients DEF Phase, TypeOK
  <2> QED BY <1>4, <2>1 DEF Joined
<1>12. Written(k)'
  BY <1>2, <1>4, <1>5 DEF Phase, Written
<1>13. Recorded(k)' /\ Flagged(k)' /\ Waits(k)'
  BY <1>2, <1>4, <1>9 DEF Phase, Recorded, Flagged, Waits
<1> QED BY <1>1, <1>6, <1>7, <1>8, <1>10, <1>11, <1>12, <1>13, SameHistory DEF IndInv, Phase

------------------------------------------------------------------------------
(* A process dies.                                                          *)
LEMMA DiesStep ==
    ASSUME IndInv, NEW w \in Alive, Dies(w), UNCHANGED <<coordVars, toCoord, image>>
    PROVE  IndInv'
<1> USE DEF Dies, coordVars, compVars, userVars, blockVars
<1>1. TypeOK /\ Membership /\ KillReachesAll /\ History
      /\ (ExitOnLast \/ MaxRuns <= 1 => NoEarlyAnswer)
  BY DEF IndInv
<1>2. PICK k \in Phases : Phase(k)
  BY DEF IndInv
<1>3. w \in Workers /\ Clients' = Clients /\ Alive' = Alive \ {w} /\ (Busy' => Busy)
  BY <1>1 DEF Clients, Alive, Busy, TypeOK
<1>4. \A v \in Workers : v # w => /\ proc'[v] = proc[v] /\ state'[v] = state[v]
                                  /\ info'[v] = info[v] /\ toWorker'[v] = toWorker[v]
  BY <1>1 DEF TypeOK
<1>5. proc'[w] = "dead" /\ toWorker'[w] = <<>>
  BY <1>1, <1>3 DEF TypeOK
<1>6. TypeOK'
  <2>1. NoInfo \in Infos
    BY DEF NoInfo, Infos, NoComp, CompIds
  <2>2. proc' \in [Workers -> {"absent", "alive", "dead"}] /\ info' \in [Workers -> Infos]
    BY <1>1, <2>1 DEF TypeOK
  <2>3. state' \in [Workers -> WorkerStates]
    <3>1. state \in [Workers -> WorkerStates] /\ UNKNOWN \in WorkerStates
      BY <1>1 DEF TypeOK, WorkerStates
    <3> QED BY <3>1
  <2>4. toWorker' \in [Workers -> Seq(Messages)]
    BY <1>1, EmptySeq DEF TypeOK
  <2> QED BY <1>1, <2>2, <2>3, <2>4 DEF TypeOK
<1>7. Membership'
  BY <1>1, <1>3, <1>4, <1>5 DEF Membership, Alive
<1>8. KillReachesAll'
  BY <1>1, <1>3, <1>4 DEF KillReachesAll, Alive
<1>9. History'
  <2>1. \A id : Known(id) => Known(id)'
    BY <1>1, <1>3 DEF Known, TypeOK, Alive
  <2> QED BY <1>1, <2>1 DEF History
<1>10. \A i : Fresh(i) => Fresh(i)'
  BY SameFresh
<1>11. Recorded(k)'
  BY <1>2, <1>3, <1>4, <1>5 DEF Phase, Recorded, Clients
<1>12. Ordered(k)'
  BY <1>2, <1>3, <1>4, <1>10 DEF Phase, Ordered, Alive
<1>13. Written(k)'
  BY <1>2, <1>3, <1>4, <1>5, <1>10 DEF Phase, Written, Alive, Clients
<1>14. Joined(k)' /\ Flagged(k)' /\ Waits(k)'
  BY <1>2, <1>3, SameFlagged DEF Phase, Joined, Waits
<1> QED BY <1>1, <1>6, <1>7, <1>8, <1>9, <1>11, <1>12, <1>13, <1>14 DEF IndInv, Phase, NoEarlyAnswer

(* Every way to die.                                                        *)
LEMMA DeathSteps ==
    ASSUME IndInv, NEW w \in Workers, ObeyKill(w) \/ Finish(w) \/ Crash(w) \/ ForkRefused(w)
    PROVE  IndInv'
<1>1. w \in Alive
  BY DEF ObeyKill, Finish, Crash, ForkRefused, Listening, Alive
<1>2. Dies(w) /\ UNCHANGED <<coordVars, toCoord, image>>
  BY DEF ObeyKill, Finish, Crash, ForkRefused, coordVars, compVars, userVars, blockVars, diskVars
<1> QED BY <1>1, <1>2, DiesStep

------------------------------------------------------------------------------
(* A process reports the next state.                                        *)
LEMMA Reporting ==
    ASSUME TypeOK, NEW k \in Phases, Recorded(k), NEW w \in Alive, state[w] # NextState(k),
           state' = [state EXCEPT ![w] = NextState(k)], NEW ms,
           ms = <<Report(NextState(k))>> \/ (k = DRAINED /\ ms = BothReports),
           toCoord' = [toCoord EXCEPT ![w] = @ \o ms], UNCHANGED <<recorded, proc>>
    PROVE  /\ Recorded(k)'
           /\ state' \in [Workers -> WorkerStates] /\ toCoord' \in [Workers -> Seq(Reports)]
           /\ recorded[w] # None => toCoord'[w] = ms
           /\ \A v \in Workers : v # w => toCoord'[v] = toCoord[v] /\ state'[v] = state[v]
           /\ state'[w] = NextState(k)
<1>1. w \in Workers /\ Clients' = Clients
  BY DEF Alive, Clients
<1>2. NextState(k) \in WorkerStates
  BY DEF NextState, Phases, WorkerStates
<1>3. ms \in Seq(Reports) /\ ms # <<>>
  <2>1. Report(NextState(k)) \in Reports /\ Report(CHECKPOINTED) \in Reports
    BY <1>2 DEF Report, Reports, WorkerStates
  <2>2. Filename \in Reports
    BY DEF Filename, Reports, WorkerStates
  <2>3. \A a, b : a \in Reports /\ b \in Reports =>
                     /\ <<a>> \in Seq(Reports) /\ <<a>> # <<>>
                     /\ <<a, b>> \in Seq(Reports) /\ <<a, b>> # <<>>
    OBVIOUS
  <2> QED BY <2>1, <2>2, <2>3 DEF BothReports
<1>4. state' \in [Workers -> WorkerStates] /\ state'[w] = NextState(k)
  BY <1>1, <1>2 DEF TypeOK
<1>5. toCoord' \in [Workers -> Seq(Reports)]
  BY <1>1, <1>3, ConcatProperties DEF TypeOK
<1>6. \A v \in Workers : v # w => toCoord'[v] = toCoord[v] /\ state'[v] = state[v]
  BY DEF TypeOK
<1>7. ASSUME recorded[w] # None PROVE toCoord'[w] = ms /\ recorded[w] = state[w]
  <2>1. toCoord[w] = <<>> /\ recorded[w] = state[w]
    BY <1>1, <1>7 DEF Recorded, Clients, Alive
  <2>2. <<>> \o ms = ms
    BY <1>3, ConcatEmptySeq
  <2> QED BY <1>1, <2>1, <2>2 DEF TypeOK
<1>8. Recorded(k)'
  <2> SUFFICES ASSUME NEW v \in Clients PROVE Recorded(k)!(v)'
    BY <1>1 DEF Recorded
  <2>1. CASE v # w
    BY <1>6, <2>1 DEF Recorded, Clients
  <2>2. CASE v = w
    BY <1>3, <1>4, <1>7, <2>2 DEF Recorded, Clients
  <2> QED BY <2>1, <2>2
<1> QED BY <1>4, <1>5, <1>6, <1>7, <1>8

(* WorkerStarts and Restored: a process begins, no order is needed.         *)
LEMMA BeginSteps ==
    ASSUME IndInv, NEW w \in Workers, WorkerStarts(w) \/ Restored(w)
    PROVE  IndInv'
<1> USE DEF WorkerStarts, Restored, Send, coordVars, compVars, userVars, blockVars
<1>1. TypeOK /\ Membership /\ KillReachesAll /\ History
      /\ (ExitOnLast \/ MaxRuns <= 1 => NoEarlyAnswer)
  BY DEF IndInv
<1>2. PICK k \in Phases : Phase(k)
  BY DEF IndInv
<1>3. /\ w \in Alive /\ InPhase(k, state[w])
      /\ \/ k = REFILLED /\ state[w] = UNKNOWN /\ WorkerStarts(w)
         \/ k = RESTARTING /\ state[w] = RESTARTING /\ Restored(w)
  BY <1>2 DEF Phase, Ordered, InPhase, Phases, NextState
<1>4. /\ state[w] # NextState(k) /\ state' = [state EXCEPT ![w] = NextState(k)]
      /\ toCoord' = [toCoord EXCEPT ![w] = @ \o <<Report(NextState(k))>>]
  BY <1>3 DEF NextState
<1>5. /\ Recorded(k)'
      /\ state' \in [Workers -> WorkerStates] /\ toCoord' \in [Workers -> Seq(Reports)]
      /\ \A v \in Workers : v # w => toCoord'[v] = toCoord[v] /\ state'[v] = state[v]
      /\ state'[w] = NextState(k)
  BY <1>1, <1>2, <1>3, <1>4, Reporting DEF Phase
<1>6. TypeOK'
  BY <1>1, <1>5 DEF TypeOK
<1>7. Membership'
  BY <1>1, <1>3, <1>5 DEF Membership, Clients, Alive
<1>8. KillReachesAll' /\ History'
  BY <1>1, SameKill, SameHistory
<1>9. Ordered(k)'
  <2>1. \A i : Fresh(i) => Fresh(i)'
    BY SameFresh
  <2>2. InPhase(k, NextState(k)) /\ k \in {REFILLED, RESTARTING}
    BY <1>3 DEF InPhase
  <2>3. toWorker[w] # <<>> => toWorker[w][1].type = "KILL_PEER"
    BY <1>2, <1>3 DEF Phase, Ordered
  <2>4. Alive' = Alive /\ toWorker' = toWorker
    BY DEF Alive
  <2>5. ASSUME NEW v \in Alive, v # w
        PROVE  /\ InPhase(k, state'[v])
               /\ toWorker[v] # <<>> =>
                     \/ toWorker[v][1].type = "KILL_PEER"
                     \/ /\ state'[v] = k /\ k # RESTARTING
                        /\ toWorker[v][1].type = Expected(k)
                        /\ k = SUSPENDED => Fresh(toWorker[v][1].info)'
                        /\ Len(toWorker[v]) > 1 => toWorker[v][2].type = "KILL_PEER"
    <3>1. state'[v] = state[v]
      BY <1>5, <2>5 DEF Alive
    <3>2. Ordered(k)
      BY <1>2 DEF Phase
    <3> HIDE DEF WorkerStarts, Restored, Send, coordVars, compVars, userVars, blockVars
    <3>3. CASE toWorker[v] = <<>>
      BY <2>5, <3>1, <3>2, <3>3 DEF Ordered
    <3>4. CASE toWorker[v] # <<>>
      <4>1. \/ toWorker[v][1].type = "KILL_PEER"
            \/ /\ state'[v] = k /\ k # RESTARTING
               /\ toWorker[v][1].type = Expected(k)
               /\ k = SUSPENDED => Fresh(toWorker[v][1].info)
               /\ Len(toWorker[v]) > 1 => toWorker[v][2].type = "KILL_PEER"
        BY <2>5, <3>1, <3>2, <3>4 DEF Ordered
      <4>2. InPhase(k, state'[v])
        BY <2>5, <3>1, <3>2 DEF Ordered
      <4>3. Fresh(toWorker[v][1].info) => Fresh(toWorker[v][1].info)'
        <5>1. PICK i : i = toWorker[v][1].info /\ i = toWorker'[v][1].info
          BY <2>4
        <5>2. Fresh(i) => Fresh(i)'
          BY <2>1
        <5> QED BY <5>1, <5>2, Zenon
      <4> QED BY <4>1, <4>2, <4>3, Zenon
    <3> QED BY <3>3, <3>4
  <2> HIDE DEF WorkerStarts, Restored, Send, coordVars, compVars, userVars, blockVars
  <2>6. InPhase(k, state'[w])
    BY <1>5, <2>2
  <2> QED BY <2>3, <2>4, <2>5, <2>6 DEF Ordered
<1>10. Written(k)'
  BY <1>2, <1>3 DEF Phase, Written, Alive
<1>11. Joined(k)' /\ Flagged(k)' /\ Waits(k)'
  BY <1>2, SameJoined, SameFlagged, SameWaits DEF Phase
<1> QED BY <1>1, <1>5, <1>6, <1>7, <1>8, <1>9, <1>10, <1>11 DEF IndInv, Phase, NoEarlyAnswer

(* Two reports, one after the other.                                        *)
LEMMA TwoReports ==
    ASSUME NEW a, NEW b
    PROVE  <<a>> \o <<b>> = <<a, b>> /\ <<>> \o <<b>> = <<b>>
<1> DEFINE S == {a, b}  s == <<a>>  t == <<b>>  u == <<a, b>>
<1>1. s \in Seq(S) /\ t \in Seq(S) /\ u \in Seq(S) /\ Len(s) = 1 /\ Len(t) = 1 /\ Len(u) = 2
      /\ s[1] = a /\ t[1] = b /\ u[1] = a /\ u[2] = b
  OBVIOUS
<1> HIDE DEF S, s, t, u
<1>2. /\ s \o t \in Seq(S) /\ Len(s \o t) = Len(s) + Len(t)
      /\ \A i \in 1 .. Len(s) + Len(t) : (s \o t)[i] = IF i <= Len(s) THEN s[i] ELSE t[i - Len(s)]
  BY <1>1, ConcatProperties
<1>3. (s \o t)[1] = a /\ (s \o t)[2] = b /\ Len(s \o t) = 2
  BY <1>1, <1>2
<1>4. s \o t = u
  BY <1>1, <1>2, <1>3, SeqEqual
<1>5. <<>> \o t = t
  BY <1>1, ConcatEmptySeq
<1> QED BY <1>4, <1>5 DEF s, t, u

(* An order is carried out.                                                 *)
LEMMA ObeyStep == ASSUME IndInv, NEW w \in Workers, Obey(w) PROVE IndInv'
<1> USE DEF coordVars, compVars, userVars, blockVars
<1>1. TypeOK /\ Membership /\ KillReachesAll /\ History
      /\ (ExitOnLast \/ MaxRuns <= 1 => NoEarlyAnswer)
  BY DEF IndInv
<1>2. PICK k \in Phases : Phase(k)
  BY DEF IndInv
<1>3. w \in Alive /\ state[w] \in WorkerStates \ {UNKNOWN, RESTARTING} /\ toWorker[w] # <<>>
  BY <1>1 DEF Obey, Listening, TypeOK
<1>4. PICK q \in Seq(Messages) : q = toWorker[w]
  BY <1>1 DEF TypeOK
<1>5. PICK m \in Messages : m = Head(q) /\ m = q[1]
  BY <1>3, <1>4, HeadTailProperties
<1>6. Expected(state[w]) # "KILL_PEER"
  BY <1>3 DEF Expected, WorkerStates
<1>7. /\ m.type = Expected(state[w]) /\ state[w] = k /\ k # RESTARTING
      /\ k = SUSPENDED => Fresh(m.info)
      /\ Len(q) > 1 => q[2].type = "KILL_PEER"
  BY <1>2, <1>3, <1>4, <1>5, <1>6 DEF Obey, Phase, Ordered
<1>8. (m.type = "FD_LEADER_ELECTION" <=> k = SUSPENDED) /\ (m.type = "CHECKPOINT" <=> k = DRAINED)
  BY <1>3, <1>7 DEF Expected, WorkerStates
<1> DEFINE ms == IF k = DRAINED THEN BothReports ELSE <<Report(NextState(k))>>
<1>9. /\ state' = [state EXCEPT ![w] = NextState(k)]
      /\ info' = IF k = SUSPENDED THEN [info EXCEPT ![w] = m.info] ELSE info
      /\ image' = IF k = DRAINED THEN [image EXCEPT ![w] = info[w]] ELSE image
      /\ toCoord' = [toCoord EXCEPT ![w] = @ \o ms]
      /\ toWorker' = [toWorker EXCEPT ![w] = Tail(q)]
      /\ UNCHANGED <<coordVars, proc>>
  <2>1. /\ state' = [state EXCEPT ![w] = NextState(k)]
        /\ info' = IF k = SUSPENDED THEN [info EXCEPT ![w] = m.info] ELSE info
        /\ image' = IF k = DRAINED THEN [image EXCEPT ![w] = info[w]] ELSE image
        /\ toWorker' = [toWorker EXCEPT ![w] = Tail(q)]
        /\ UNCHANGED <<coordVars, proc>>
    BY <1>4, <1>5, <1>7, <1>8 DEF Obey
  <2>2. toCoord' = [toCoord EXCEPT ![w] =
                       @ \o ((IF k = DRAINED THEN <<Filename>> ELSE <<>>) \o <<Report(NextState(k))>>)]
    BY <1>4, <1>5, <1>7, <1>8 DEF Obey, Send, Filename
  <2>3. (IF k = DRAINED THEN <<Filename>> ELSE <<>>) \o <<Report(NextState(k))>> = ms
    <3>1. \A a, b : <<a>> \o <<b>> = <<a, b>> /\ <<>> \o <<b>> = <<b>>
      BY TwoReports
    <3>2. k = DRAINED => NextState(k) = CHECKPOINTED
      BY DEF NextState
    <3>3. CASE k = DRAINED
      BY <3>1, <3>2, <3>3 DEF BothReports
    <3>4. CASE k # DRAINED
      BY <3>1, <3>4
    <3> QED BY <3>3, <3>4
  <2> HIDE DEF ms
  <2> QED BY <2>1, <2>2, <2>3
<1>10. NextState(k) # k
  BY DEF NextState, Phases
<1>11. /\ Recorded(k)'
       /\ state' \in [Workers -> WorkerStates] /\ toCoord' \in [Workers -> Seq(Reports)]
       /\ recorded[w] # None => toCoord'[w] = ms
       /\ \A v \in Workers : v # w => toCoord'[v] = toCoord[v] /\ state'[v] = state[v]
       /\ state'[w] = NextState(k)
  <2>1. ms = <<Report(NextState(k))>> \/ (k = DRAINED /\ ms = BothReports)
    OBVIOUS
  <2> HIDE DEF ms
  <2>2. Recorded(k) /\ state[w] # NextState(k)
    BY <1>2, <1>7, <1>10 DEF Phase
  <2> QED BY <1>1, <1>3, <1>9, <2>1, <2>2, Reporting
<1>12. /\ Tail(q) \in Seq(Messages) /\ Len(Tail(q)) = Len(q) - 1 /\ Len(q) \in Nat
       /\ \A i \in 1 .. Len(Tail(q)) : Tail(q)[i] = q[i + 1]
       /\ Tail(q) # <<>> => Tail(q)[1].type = "KILL_PEER"
  <2>1. /\ Tail(q) \in Seq(Messages) /\ Len(Tail(q)) = Len(q) - 1 /\ Len(q) \in Nat
        /\ \A i \in 1 .. Len(Tail(q)) : Tail(q)[i] = q[i + 1]
    BY <1>3, <1>4, HeadTailProperties, LenProperties
  <2>2. Tail(q) # <<>> => Len(Tail(q)) >= 1
    BY <2>1, EmptySeq, LenProperties
  <2> QED BY <1>7, <2>1, <2>2
<1>13. /\ \A v \in Workers : v # w => /\ info'[v] = info[v] /\ image'[v] = image[v]
                                       /\ toWorker'[v] = toWorker[v]
       /\ toWorker'[w] = Tail(q)
       /\ k = SUSPENDED => info'[w] = m.info
       /\ k # SUSPENDED => info'[w] = info[w]
       /\ k = DRAINED => image'[w] = info[w]
       /\ k # DRAINED => image' = image
  BY <1>1, <1>9 DEF TypeOK
<1>14. TypeOK'
  <2>1. info' \in [Workers -> Infos] /\ image' \in [Workers -> Infos]
    BY <1>1, <1>9 DEF TypeOK, Messages
  <2>2. toWorker' \in [Workers -> Seq(Messages)]
    BY <1>1, <1>9, <1>12 DEF TypeOK
  <2> QED BY <1>1, <1>9, <1>11, <2>1, <2>2 DEF TypeOK
<1>15. Clients' = Clients /\ Alive' = Alive /\ Busy' = Busy /\ (\A i : Fresh(i) => Fresh(i)')
  BY <1>9, SameFresh DEF Clients, Alive, Busy
<1>16. Membership'
  BY <1>1, <1>3, <1>9, <1>11, <1>13, <1>15 DEF Membership, Alive
<1>17. KillReachesAll'
  <2> SUFFICES ASSUME up, killInProgress, NEW v \in Clients \cap Alive
               PROVE  \E i \in 1 .. Len(toWorker'[v]) : toWorker'[v][i].type = "KILL_PEER"
    BY <1>9, <1>15 DEF KillReachesAll
  <2>1. PICK i \in 1 .. Len(toWorker[v]) : toWorker[v][i].type = "KILL_PEER"
    BY <1>1 DEF KillReachesAll
  <2>2. CASE v # w
    BY <1>13, <2>1, <2>2 DEF Alive
  <2>3. CASE v = w
    <3>1. i # 1 /\ i \in 1 .. Len(q)
      BY <1>4, <1>5, <1>6, <1>7, <2>1, <2>3
    <3>2. i - 1 \in 1 .. Len(Tail(q)) /\ (i - 1) + 1 = i
      BY <1>12, <3>1
    <3>3. Tail(q)[i - 1] = q[i]
      BY <1>12, <3>2
    <3> QED BY <1>4, <1>13, <2>1, <2>3, <3>2, <3>3
  <2> QED BY <2>2, <2>3
<1>18. k \in {FD_LEADER_ELECTION, DRAINED} => Fresh(info[w])
  BY <1>2, <1>3, <1>7 DEF Phase, Written
<1>19. History'
  <2>1. CASE k # DRAINED
    BY <1>1, <1>9, <1>13, <2>1, SameHistory
  <2>2. CASE k = DRAINED
    <3>1. info[w].compId = compId /\ info[w].generation = generation
      BY <1>18, <2>2 DEF Fresh
    <3>2. ~(script.compId = compId /\ script.generation = generation)
      BY <1>2, <1>3, <2>2 DEF Phase, Joined, Busy
    <3>3. w \notin toRestart
      BY <1>1, <1>3 DEF Membership, Alive
    <3>4. \A id : Known(id)' <=> Known(id)
      BY <1>9 DEF Known
    <3>5. script.files \subseteq Workers /\ toRestart \subseteq Workers
      BY <1>1 DEF TypeOK
    <3> QED BY <1>1, <1>9, <1>13, <2>2, <3>1, <3>2, <3>3, <3>4, <3>5 DEF History
  <2> QED BY <2>1, <2>2
<1>20. Ordered(k)'
  <2> SUFFICES ASSUME NEW v \in Alive PROVE Ordered(k)!(v)'
    BY <1>15 DEF Ordered
  <2>1. CASE v # w
    BY <1>2, <1>11, <1>13, <1>15, <2>1 DEF Phase, Ordered, Alive
  <2>2. CASE v = w
    BY <1>11, <1>12, <1>13, <2>2 DEF InPhase
  <2> QED BY <2>1, <2>2
<1>21. Written(k)'
  <2>1. ASSUME NEW v \in Alive, k \in SUSPENDED .. DRAINED,
               state'[v] \in {FD_LEADER_ELECTION, DRAINED}
        PROVE  Fresh(info[v])'
    <3>1. CASE v # w
      <4>1. PICK i : i = info[v]
        OBVIOUS
      <4>2. Fresh(i) /\ info'[v] = i
        BY <1>2, <1>11, <1>13, <2>1, <3>1, <4>1 DEF Phase, Written, Alive
      <4> QED BY <1>15, <4>2
    <3>2. CASE v = w
      <4>1. k \in {SUSPENDED, FD_LEADER_ELECTION}
        BY <1>11, <2>1, <3>2 DEF NextState
      <4>2. PICK i : i = IF k = SUSPENDED THEN m.info ELSE info[w]
        OBVIOUS
      <4>3. Fresh(i) /\ info'[v] = i
        BY <1>7, <1>13, <1>18, <3>2, <4>1, <4>2
      <4> QED BY <1>15, <4>3
    <3> QED BY <3>1, <3>2
  <2>2. k = DRAINED => \A v \in Workers : Fresh(image[v]) => Fresh(image[v])'
    <3> SUFFICES ASSUME k = DRAINED, NEW v \in Workers, Fresh(image[v]) PROVE Fresh(image[v])'
      OBVIOUS
    <3>1. PICK i : i = IF v = w THEN info[w] ELSE image[v]
      OBVIOUS
    <3>2. Fresh(i) /\ image'[v] = i
      BY <1>13, <1>18, <3>1
    <3> QED BY <1>15, <3>2
  <2>3. k = DRAINED => Fresh(image[w])'
    <3> SUFFICES ASSUME k = DRAINED PROVE Fresh(image[w])'
      OBVIOUS
    <3>1. PICK i : i = info[w]
      OBVIOUS
    <3> QED BY <1>13, <1>15, <1>18, <3>1
  <2>4. k = DRAINED /\ w \in Clients => toCoord'[w] = BothReports
    BY <1>11 DEF Clients
  <2>5. restartFilenames' = restartFilenames /\ restartFilenames \subseteq Workers
    BY <1>1, <1>9 DEF TypeOK
  <2>6. Clients \subseteq Workers /\ proc' = proc
    BY <1>9 DEF Clients
  <2> QED BY <1>2, <1>11, <1>15, <2>1, <2>2, <2>3, <2>4, <2>5, <2>6 DEF Phase, Written
<1>22. Joined(k)'
  <2>1. w \notin toRestart /\ toRestart \subseteq Workers
    BY <1>1, <1>3 DEF Membership, Alive, TypeOK
  <2> QED BY <1>2, <1>9, <1>13, <1>15, <2>1 DEF Phase, Joined
<1>23. Flagged(k)' /\ Waits(k)'
  BY <1>2, <1>9, SameFlagged, SameWaits DEF Phase
<1> QED BY <1>1, <1>9, <1>11, <1>14, <1>16, <1>17, <1>19, <1>20, <1>21, <1>22, <1>23
        DEF IndInv, Phase, NoEarlyAnswer

------------------------------------------------------------------------------
(* A process connects: what both kinds of newcomers have in common.         *)
LEMMA Joining ==
    ASSUME TypeOK, Membership, NEW w \in Workers, up, proc[w] = "absent", NEW s \in WorkerStates,
           recorded' = [recorded EXCEPT ![w] = s], proc' = [proc EXCEPT ![w] = "alive"],
           state' = [state EXCEPT ![w] = s], UNCHANGED <<up, toCoord>>,
           toRestart' \subseteq toRestart \ {w},
           \A v \in Workers : v # w => toWorker'[v] = toWorker[v]
    PROVE  /\ w \notin Clients /\ w \notin Alive /\ toCoord[w] = <<>> /\ toWorker[w] = <<>>
           /\ Clients' = Clients \cup {w} /\ Alive' = Alive \cup {w}
           /\ recorded'[w] = s /\ state'[w] = s /\ proc'[w] = "alive"
           /\ \A v \in Workers : v # w => /\ recorded'[v] = recorded[v] /\ proc'[v] = proc[v]
                                          /\ state'[v] = state[v]
           /\ recorded' \in [Workers -> WorkerStates \cup {None}]
           /\ proc' \in [Workers -> {"absent", "alive", "dead"}]
           /\ state' \in [Workers -> WorkerStates]
           /\ Membership'
<1>1. w \notin Clients /\ w \notin Alive /\ toCoord[w] = <<>> /\ toWorker[w] = <<>>
  BY DEF Membership, Alive
<1>2. recorded'[w] = s /\ state'[w] = s /\ proc'[w] = "alive"
  BY DEF TypeOK
<1>3. \A v \in Workers : v # w => /\ recorded'[v] = recorded[v] /\ proc'[v] = proc[v]
                                  /\ state'[v] = state[v]
  BY DEF TypeOK
<1>4. /\ recorded' \in [Workers -> WorkerStates \cup {None}]
      /\ proc' \in [Workers -> {"absent", "alive", "dead"}]
      /\ state' \in [Workers -> WorkerStates]
  BY DEF TypeOK
<1>5. s # None
  BY DEF WorkerStates
<1>6. Clients' = Clients \cup {w} /\ Alive' = Alive \cup {w}
  BY <1>2, <1>3, <1>5 DEF Clients, Alive
<1>7. Membership'
  BY <1>1, <1>2, <1>3, <1>6 DEF Membership, Clients, Alive
<1> QED BY <1>1, <1>2, <1>3, <1>4, <1>6, <1>7

(* A new process is accepted, as the first of its computation or later.     *)
LEMMA AcceptNewWorkerStep ==
    ASSUME IndInv, NEW w \in Workers, NEW s \in {UNKNOWN, RUNNING}, AcceptNewWorker(w, s),
           s = UNKNOWN => ~suspendSent \/ Clients = {}
    PROVE  IndInv'
<1> USE DEF AcceptNewWorker, InitializeComputation, userVars, diskVars
<1>1. TypeOK /\ Membership /\ KillReachesAll /\ History
      /\ (ExitOnLast \/ MaxRuns <= 1 => NoEarlyAnswer)
  BY DEF IndInv
<1>2. /\ up /\ proc[w] = "absent" /\ s \in WorkerStates /\ UNCHANGED <<up, toCoord, toRestart>>
      /\ toRestart' \subseteq toRestart \ {w}
      /\ \A v \in Workers : v # w => toWorker'[v] = toWorker[v]
  BY <1>1 DEF TypeOK, WorkerStates
<1>3. /\ w \notin Clients /\ w \notin Alive /\ toCoord[w] = <<>> /\ toWorker[w] = <<>>
      /\ Clients' = Clients \cup {w} /\ Alive' = Alive \cup {w}
      /\ recorded'[w] = s /\ state'[w] = s /\ proc'[w] = "alive"
      /\ \A v \in Workers : v # w => /\ recorded'[v] = recorded[v] /\ proc'[v] = proc[v]
                                     /\ state'[v] = state[v]
      /\ recorded' \in [Workers -> WorkerStates \cup {None}]
      /\ proc' \in [Workers -> {"absent", "alive", "dead"}]
      /\ state' \in [Workers -> WorkerStates]
      /\ Membership'
  BY <1>1, <1>2, Joining
<1>4. /\ killInProgress' = FALSE
      /\ toWorker'[w] = IF suspendSent' THEN <<Order("SUSPEND")>> ELSE <<>>
  BY <1>1 DEF TypeOK
<1>5. TypeOK'
  <2>1. Order("SUSPEND") \in Messages
    BY DEF Order, Messages, Orders, NoInfo, Infos, NoComp, CompIds
  <2>2. <<>> \in Seq(Messages) /\ <<Order("SUSPEND")>> \in Seq(Messages)
    BY <2>1
  <2>3. toWorker' \in [Workers -> Seq(Messages)]
    BY <1>1, <2>2 DEF TypeOK
  <2>4. suspendSent' \in BOOLEAN /\ interval' \in BOOLEAN /\ blockUntilDone' \in BOOLEAN
        /\ killInProgress' \in BOOLEAN
    BY <1>1, <1>4, CoordinatorAssumption DEF TypeOK
  <2>5. compId' \in CompIds /\ generation' \in Nat /\ numPeers' \in Int
    BY <1>1 DEF TypeOK, CompIds
  <2> QED BY <1>1, <1>3, <2>3, <2>4, <2>5 DEF TypeOK
<1>6. \A id : Known(id) => Known(id)'
  BY <1>1, <1>2, <1>3 DEF Known, TypeOK
<1>7. Known(compId)'
  BY <1>1, <1>2, <1>3, <1>6 DEF History, Known, TypeOK
<1>8. History'
  BY <1>1, <1>6, <1>7 DEF History
<1>9. KillReachesAll' /\ (ExitOnLast \/ MaxRuns <= 1 => NoEarlyAnswer')
  BY <1>1, <1>4 DEF KillReachesAll, NoEarlyAnswer
<1>10. ~Known(<<w, runs>>)
  BY <1>2 DEF Known
<1>11. CASE Clients = {}
  <2>1. Alive = {} /\ suspendSent' = FALSE /\ toWorker'[w] = <<>> /\ compId' = <<w, runs>>
        /\ numPeers' = None /\ Clients' = {w} /\ Alive' = {w}
    BY <1>1, <1>2, <1>3, <1>4, <1>11 DEF Membership
  <2>2. Recorded(REFILLED)' /\ Ordered(REFILLED)'
    BY <1>2, <1>3, <2>1 DEF Recorded, Ordered, InPhase, NextState
  <2>3. Flagged(REFILLED)' /\ Written(REFILLED)'
    BY <2>1 DEF Flagged, Written
  <2>4. Joined(REFILLED)'
    <3>1. script' = script /\ image' = image /\ toRestart \subseteq Workers
      BY <1>1 DEF TypeOK
    <3>2. script.compId # <<w, runs>> /\ \A v \in toRestart : image[v].compId # <<w, runs>>
      BY <1>1, <1>10, <3>1 DEF History
    <3> QED BY <1>2, <2>1, <3>1, <3>2 DEF Joined
  <2>5. Waits(REFILLED)'
    <3>1. Waits(1) \/ \E k \in Phases : Waits(k)
      BY DEF IndInv, Phase
    <3> QED BY <1>2, <2>1, <3>1 DEF Waits
  <2> QED BY <1>3, <1>5, <1>8, <1>9, <2>2, <2>3, <2>4, <2>5 DEF IndInv, Phase, Phases
<1>12. CASE Clients # {}
  <2>1. PICK k \in Phases : Phase(k)
    BY DEF IndInv
  <2>2. UNCHANGED <<suspendSent, compId, generation, numPeers, isRestarting>> /\ Busy
    BY <1>12 DEF Busy
  <2>3. k \in {RUNNING, REFILLED} /\ (suspendSent <=> k = RUNNING)
    <3>1. suspendSent <=> k = RUNNING
      BY <1>12, <2>1 DEF Phase, Flagged
    <3>2. CASE ~suspendSent
      <4>1. MinimumState(recorded) \in {RUNNING, UNKNOWN}
        BY <1>12, <3>2 DEF RejectsNew
      <4>2. PICK v \in Workers : recorded[v] # None
        BY <1>12 DEF Clients
      <4>3. PICK u \in Workers : recorded[u] # None /\ recorded[u] \in {RUNNING, UNKNOWN}
        <5>1. recorded \in [Workers -> WorkerStates \cup {None}]
          BY <1>1 DEF TypeOK
        <5>2. \E u \in Workers : recorded[u] # None /\ MinimumState(recorded) \in {recorded[u], RESTARTING}
          BY <4>2, <5>1, MinState
        <5> QED BY <4>1, <5>2
      <4>4. InPhase(k, recorded[u])
        BY <2>1, <4>3 DEF Phase, Recorded, Clients
      <4> QED BY <3>1, <3>2, <4>3, <4>4 DEF InPhase, NextState, Phases
    <3> QED BY <3>1, <3>2
  <2>4. InPhase(k, s)
    BY <1>12, <2>3 DEF InPhase, NextState
  <2>5. Recorded(k)'
    BY <1>2, <1>3, <2>1, <2>4 DEF Phase, Recorded, Clients
  <2>6. Ordered(k)'
    <3> SUFFICES ASSUME NEW v \in Alive' PROVE Ordered(k)!(v)'
      BY DEF Ordered
    <3>1. CASE v # w
      BY <1>2, <1>3, <2>1, <2>3, <3>1 DEF Phase, Ordered, Alive
    <3>2. CASE v = w /\ ~suspendSent
      BY <1>3, <1>4, <2>2, <2>4, <3>2
    <3>3. CASE v = w /\ suspendSent
      <4>1. k = RUNNING /\ s = RUNNING /\ toWorker'[w] = <<Order("SUSPEND")>>
        BY <1>4, <1>12, <2>2, <2>3, <3>3
      <4>2. Order("SUSPEND").type = "SUSPEND" /\ Expected(RUNNING) = "SUSPEND"
        BY DEF Order, Expected
      <4> QED BY <1>3, <2>4, <3>3, <4>1, <4>2
    <3> QED BY <3>1, <3>2, <3>3
  <2>7. Flagged(k)'
    BY <1>3, <1>12, <2>1, <2>2 DEF Phase, Flagged, Clients
  <2>8. Written(k)'
    BY <2>1, <2>2, <2>3 DEF Phase, Written
  <2>9. Joined(k)'
    BY <1>2, <2>1, <2>2, <2>3 DEF Phase, Joined
  <2>10. Waits(k)'
    BY <1>2, <1>3, <2>1, <2>3 DEF Phase, Waits
  <2> QED BY <1>3, <1>5, <1>8, <1>9, <2>5, <2>6, <2>7, <2>8, <2>9, <2>10 DEF IndInv, Phase
<1> QED BY <1>11, <1>12

(* dmtcp_launch and fork.                                                   *)
LEMMA NewWorkerSteps ==
    ASSUME IndInv, ~LateLaunch, NEW w \in Workers, Launch(w) \/ \E p \in Workers : Fork(p, w)
    PROVE  IndInv'
<1>1. CASE Launch(w)
  BY <1>1, AcceptNewWorkerStep DEF Launch
<1>2. CASE \E p \in Workers : Fork(p, w)
  BY <1>2, AcceptNewWorkerStep DEF Fork
<1> QED BY <1>1, <1>2

(* A process of the restart script connects.                                *)
LEMMA RestartStep == ASSUME IndInv, NEW w \in Workers, Restart(w) PROVE IndInv'
<1> USE DEF Restart, InitializeComputation, diskVars
<1>1. TypeOK /\ Membership /\ KillReachesAll /\ History
      /\ (ExitOnLast \/ MaxRuns <= 1 => NoEarlyAnswer)
  BY DEF IndInv
<1>2. /\ up /\ proc[w] = "absent" /\ RESTARTING \in WorkerStates /\ UNCHANGED <<up, toCoord>>
      /\ w \in toRestart /\ toRestart' = toRestart \ {w} /\ toWorker' = toWorker
  BY <1>1 DEF TypeOK, WorkerStates, Membership
<1>3. /\ w \notin Clients /\ w \notin Alive /\ toCoord[w] = <<>> /\ toWorker[w] = <<>>
      /\ Clients' = Clients \cup {w} /\ Alive' = Alive \cup {w}
      /\ recorded'[w] = RESTARTING /\ state'[w] = RESTARTING /\ proc'[w] = "alive"
      /\ \A v \in Workers : v # w => /\ recorded'[v] = recorded[v] /\ proc'[v] = proc[v]
                                     /\ state'[v] = state[v]
      /\ recorded' \in [Workers -> WorkerStates \cup {None}]
      /\ proc' \in [Workers -> {"absent", "alive", "dead"}]
      /\ state' \in [Workers -> WorkerStates]
      /\ Membership'
  BY <1>1, <1>2, Joining
<1>4. killInProgress' = FALSE
  BY <1>1 DEF TypeOK
<1>5. TypeOK'
  <2>1. image[w] \in Infos
    BY <1>1 DEF TypeOK
  <2>2. suspendSent' \in BOOLEAN /\ interval' \in BOOLEAN /\ blockUntilDone' \in BOOLEAN
        /\ killInProgress' \in BOOLEAN
    BY <1>1, <1>4, CoordinatorAssumption DEF TypeOK
  <2>3. compId' \in CompIds /\ generation' \in Nat /\ numPeers' \in Int
    BY <1>1, <2>1 DEF TypeOK, Infos
  <2>4. info' \in [Workers -> Infos]
    BY <1>1, <2>1 DEF TypeOK
  <2>5. toRestart' \in SUBSET Workers
    BY <1>1 DEF TypeOK
  <2> QED BY <1>1, <1>3, <2>2, <2>3, <2>4, <2>5 DEF TypeOK
<1>6. \A id : Known(id) => Known(id)'
  BY <1>1, <1>2, <1>3 DEF Known, TypeOK
<1>7. Known(compId)'
  <2>1. compId' \in {compId, image[w].compId}
    OBVIOUS
  <2> QED BY <1>1, <1>6, <2>1 DEF History
<1>8. /\ Cardinality(toRestart') = Cardinality(toRestart) - 1 /\ Cardinality(toRestart) \in Nat
      /\ Cardinality(Clients') = Cardinality(Clients) + 1 /\ Cardinality(Clients) \in Nat
  <2>1. IsFiniteSet(toRestart) /\ IsFiniteSet(Clients)
        /\ Cardinality(toRestart) \in Nat /\ Cardinality(Clients) \in Nat
    BY <1>1, FiniteClients
  <2> QED BY <1>2, <1>3, <2>1, FS_RemoveElement, FS_AddElement
<1>9. \A v \in toRestart : image[v].numPeers \in Int
  BY <1>1 DEF TypeOK, Infos
<1>10. History'
  BY <1>1, <1>6, <1>7, <1>8, <1>9 DEF History
<1>11. KillReachesAll' /\ (ExitOnLast \/ MaxRuns <= 1 => NoEarlyAnswer')
  BY <1>1, <1>4 DEF KillReachesAll, NoEarlyAnswer
<1>12. PICK k \in Phases : Phase(k) /\ (Clients # {} => k = RESTARTING)
  <2>1. Clients # {} => image[w].compId = compId
    BY DEF RejectsRestart
  <2> QED BY <1>2, <2>1 DEF IndInv, Phase, Joined, Busy
<1>13. Clients = {} => Alive = {}
  BY <1>1, <1>2 DEF Membership
<1>14. InPhase(RESTARTING, RESTARTING) /\ isRestarting' = TRUE
  BY DEF InPhase
<1>15. Recorded(RESTARTING)'
  BY <1>2, <1>3, <1>12, <1>14 DEF Phase, Recorded, Clients
<1>16. Ordered(RESTARTING)'
  BY <1>2, <1>3, <1>12, <1>13, <1>14 DEF Phase, Ordered, Alive
<1>17. suspendSent' = FALSE
  <2>1. CASE Clients = {}
    BY <2>1
  <2>2. CASE Clients # {}
    BY <1>1, <1>12, <2>2 DEF Phase, Flagged, TypeOK
  <2> QED BY <2>1, <2>2
<1>18. Flagged(RESTARTING)' /\ Written(RESTARTING)'
  BY <1>17 DEF Flagged, Written
<1>19. Joined(RESTARTING)'
  <2>1. CASE Clients = {}
    <3>1. compId' = image[w].compId /\ generation' = image[w].generation
          /\ numPeers' = image[w].numPeers /\ Cardinality(Clients) = 0
      BY <2>1, FS_EmptySet
    <3>2. script' = script /\ image' = image
      OBVIOUS
    <3> QED BY <1>1, <1>2, <1>8, <1>9, <1>14, <3>1, <3>2 DEF History, Joined
  <2>2. CASE Clients # {}
    <3>1. numPeers' = numPeers /\ numPeers \in Int /\ Busy /\ k = RESTARTING /\ Joined(k)
      BY <1>1, <1>12, <2>2 DEF TypeOK, Busy, Phase
    <3> QED BY <1>8, <1>14, <2>2, <3>1 DEF Joined
  <2> QED BY <2>1, <2>2
<1>20. Waits(RESTARTING)'
  BY <1>2, <1>3, <1>12 DEF Phase, Waits, Busy
<1> QED BY <1>3, <1>5, <1>10, <1>11, <1>15, <1>16, <1>18, <1>19, <1>20 DEF IndInv, Phase, Phases

(* One that is refused is gone.                                             *)
LEMMA RestartRefusedStep == ASSUME IndInv, NEW w \in Workers, RestartRefused(w) PROVE IndInv'
<1> USE DEF RestartRefused, compVars, blockVars, diskVars
<1>1. TypeOK /\ Membership /\ KillReachesAll /\ History
      /\ (ExitOnLast \/ MaxRuns <= 1 => NoEarlyAnswer)
  BY DEF IndInv
<1>2. PICK k \in Phases : Phase(k)
  BY DEF IndInv
<1>3. /\ w \in toRestart /\ proc[w] = "absent" /\ proc'[w] = "dead"
      /\ \A v \in Workers : v # w => proc'[v] = proc[v]
  BY <1>1 DEF Membership, TypeOK
<1>4. Clients' = Clients /\ Alive' = Alive /\ Busy' = Busy
  BY <1>3 DEF Clients, Alive, Busy
<1>5. TypeOK'
  <2>1. proc' \in [Workers -> {"absent", "alive", "dead"}] /\ toRestart' \in SUBSET Workers
    BY <1>1 DEF TypeOK
  <2> QED BY <1>1, <2>1 DEF TypeOK
<1>6. Membership' /\ KillReachesAll'
  BY <1>1, <1>3, <1>4 DEF Membership, KillReachesAll, Alive
<1>7. Cardinality(toRestart') = Cardinality(toRestart) - 1 /\ Cardinality(toRestart) \in Nat
      /\ Cardinality(Clients) \in Nat
  BY <1>1, <1>3, FiniteClients, FS_RemoveElement
<1>8. History'
  <2>1. \A id : Known(id) => Known(id)'
    BY <1>1, <1>3 DEF Known, TypeOK
  <2>2. \A v \in toRestart : image[v].numPeers \in Int
    BY <1>1 DEF TypeOK, Infos
  <2> QED BY <1>1, <1>7, <2>1, <2>2 DEF History
<1>9. Recorded(k)'
  BY <1>1, <1>2, <1>3, <1>4 DEF Phase, Recorded, Clients, Membership
<1>10. Ordered(k)' /\ Written(k)'
  BY <1>2, <1>3, <1>4, SameFresh DEF Phase, Ordered, Written, Clients
<1>11. Joined(k)'
  BY <1>1, <1>2, <1>4, <1>7 DEF Phase, Joined, TypeOK
<1>12. Flagged(k)' /\ Waits(k)'
  BY <1>2, <1>4, SameFlagged DEF Phase, Waits
<1> QED BY <1>1, <1>5, <1>6, <1>8, <1>9, <1>10, <1>11, <1>12 DEF IndInv, Phase, NoEarlyAnswer

------------------------------------------------------------------------------
(* The next program is launched, or the restart script run.                 *)
LEMMA NextRunStep == ASSUME IndInv, NextRun PROVE IndInv'
<1> USE DEF NextRun, compVars, blockVars, diskVars
<1>1. TypeOK /\ Membership /\ KillReachesAll /\ History
      /\ (ExitOnLast \/ MaxRuns <= 1 => NoEarlyAnswer)
  BY DEF IndInv
<1>2. PICK k \in Phases : Phase(k)
  BY DEF IndInv
<1>3. Alive = {} /\ Clients = {} /\ Alive' = {} /\ Clients' = {} /\ ~Busy'
  BY DEF Alive, Clients, Busy
<1>4. toRestart' \subseteq script.files
  OBVIOUS
<1>5. NoComp \in CompIds /\ NoComp[2] = 0
  BY DEF NoComp, CompIds
<1>6. TypeOK'
  <2>1. suspendSent' \in BOOLEAN /\ killInProgress' \in BOOLEAN /\ isRestarting' \in BOOLEAN
        /\ interval' \in BOOLEAN /\ blockUntilDone' \in BOOLEAN /\ exitAfterCkpt' \in BOOLEAN
        /\ up' \in BOOLEAN
    BY <1>1, CoordinatorAssumption DEF TypeOK
  <2>2. numPeers' \in Int /\ compId' \in CompIds /\ generation' \in Nat
        /\ blockUntilDoneRemote' \in Cmds \cup {None} /\ restartFilenames' \in SUBSET Workers
    BY <1>1, <1>5 DEF TypeOK
  <2>3. proc' \in [Workers -> {"absent", "alive", "dead"}] /\ runs' \in Nat
        /\ toRestart' \in SUBSET Workers
    BY <1>1, <1>4 DEF TypeOK
  <2>4. toCoord' \in [Workers -> Seq(Reports)]
    BY EmptySeq
  <2> QED BY <1>1, <2>1, <2>2, <2>3, <2>4 DEF TypeOK
<1>7. Membership' /\ KillReachesAll'
  BY <1>1, <1>3, <1>6 DEF Membership, KillReachesAll, Alive, Clients, TypeOK
<1>8. History'
  <2>1. runs \in Nat /\ runs' = runs + 1 /\ runs >= 1 /\ MaxRuns \in Nat
    BY <1>1, CoordinatorAssumption DEF History, TypeOK
  <2>2. \A id \in CompIds : Known(id) => Known(id)'
    BY <2>1 DEF Known, CompIds
  <2>3. Known(compId)'
    BY <1>1, <1>5, <2>1, <2>2 DEF History, Known, TypeOK
  <2>4. script.compId \in CompIds /\ \A w \in Workers : image[w].compId \in CompIds
    BY <1>1 DEF TypeOK, Infos
  <2>5. Known(script.compId)' /\ \A w \in Workers : Known(image[w].compId)'
    BY <1>1, <2>2, <2>4 DEF History
  <2>6. ASSUME NEW w \in toRestart'
        PROVE  /\ Cardinality(toRestart') <= image[w].numPeers
               /\ script.generation <= image[w].generation
    <3>1. toRestart' = script.files /\ Intact /\ script.generation \in Nat
      BY <1>1, <2>6 DEF TypeOK
    <3> QED BY <1>1, <2>6, <3>1 DEF Intact, History
  <2> QED BY <1>1, <2>1, <2>3, <2>5, <2>6 DEF History
<1>9. Waits(REFILLED)'
  <2>1. MaxRuns > 1
    BY <1>1, CoordinatorAssumption DEF History, TypeOK
  <2> QED BY <1>2, <1>3, <2>1, CoordinatorAssumption DEF Phase, Waits
<1>10. Recorded(REFILLED)' /\ Ordered(REFILLED)' /\ Flagged(REFILLED)'
  BY <1>3 DEF Recorded, Ordered, Flagged
<1>11. Written(REFILLED)' /\ Joined(REFILLED)'
  BY <1>3 DEF Written, Joined
<1> QED BY <1>1, <1>6, <1>7, <1>8, <1>9, <1>10, <1>11 DEF IndInv, Phase, Phases, NoEarlyAnswer

------------------------------------------------------------------------------
(* A broadcast: who had nothing in front of a KILL has this order there.    *)
LEMMA Broadcasting ==
    ASSUME TypeOK, NEW m \in Messages, Broadcast(m)
    PROVE  /\ toWorker' \in [Workers -> Seq(Messages)]
           /\ \A w \in Workers : proc[w] # "alive" => toWorker'[w] = toWorker[w]
           /\ \A w \in Workers :
                 toWorker[w] = <<>> \/ toWorker[w][1].type = "KILL_PEER" =>
                    \/ toWorker'[w] = <<>>
                    \/ toWorker'[w][1].type = "KILL_PEER"
                    \/ toWorker'[w][1] = m /\ Len(toWorker'[w]) = 1
           /\ \A w \in Workers :
                 (\E i \in 1 .. Len(toWorker[w]) : toWorker[w][i].type = "KILL_PEER") =>
                    \E i \in 1 .. Len(toWorker'[w]) : toWorker'[w][i].type = "KILL_PEER"
           /\ m.type = "KILL_PEER" => \A w \in Workers : recorded'[w] # None /\ proc[w] = "alive" =>
                    \E i \in 1 .. Len(toWorker'[w]) : toWorker'[w][i].type = "KILL_PEER"
<1>1. \A w \in Workers : toWorker[w] \in Seq(Messages)
  BY DEF TypeOK
<1>2. toWorker' \in [Workers -> Seq(Messages)]
  BY <1>1, AppendMessage DEF Broadcast
<1>3. ASSUME NEW w \in Workers
      PROVE  /\ proc[w] # "alive" => toWorker'[w] = toWorker[w]
             /\ toWorker[w] = <<>> \/ toWorker[w][1].type = "KILL_PEER" =>
                    \/ toWorker'[w] = <<>>
                    \/ toWorker'[w][1].type = "KILL_PEER"
                    \/ toWorker'[w][1] = m /\ Len(toWorker'[w]) = 1
             /\ (\E i \in 1 .. Len(toWorker[w]) : toWorker[w][i].type = "KILL_PEER") =>
                    \E i \in 1 .. Len(toWorker'[w]) : toWorker'[w][i].type = "KILL_PEER"
             /\ m.type = "KILL_PEER" /\ recorded'[w] # None /\ proc[w] = "alive" =>
                    \E i \in 1 .. Len(toWorker'[w]) : toWorker'[w][i].type = "KILL_PEER"
  <2>1. CASE toWorker'[w] = toWorker[w] /\ ~(recorded'[w] # None /\ proc[w] = "alive")
    BY <2>1
  <2>2. CASE recorded'[w] # None /\ proc[w] = "alive"
    <3>1. PICK q \in Seq(Messages) : q = toWorker[w]
      BY <1>1
    <3>2. toWorker'[w] = Append(q, m)
      BY <2>2, <3>1 DEF Broadcast
    <3>3. /\ Len(Append(q, m)) = Len(q) + 1 /\ Len(q) \in Nat
          /\ \A i \in 1 .. Len(q) : Append(q, m)[i] = q[i]
          /\ Append(q, m)[Len(q) + 1] = m
          /\ q # <<>> => Append(q, m)[1] = q[1]
          /\ q = <<>> => Append(q, m)[1] = m /\ Len(q) = 0
      BY AppendMessage
    <3>4. Len(q) + 1 \in 1 .. Len(Append(q, m)) /\ 1 .. Len(q) \subseteq 1 .. Len(Append(q, m))
      BY <3>3
    <3>5. (\E i \in 1 .. Len(q) : q[i].type = "KILL_PEER") =>
              \E i \in 1 .. Len(Append(q, m)) : Append(q, m)[i].type = "KILL_PEER"
      BY <3>3, <3>4
    <3>6. m.type = "KILL_PEER" => \E i \in 1 .. Len(Append(q, m)) : Append(q, m)[i].type = "KILL_PEER"
      BY <3>3, <3>4
    <3>7. q = <<>> \/ q[1].type = "KILL_PEER" =>
              \/ Append(q, m)[1].type = "KILL_PEER"
              \/ Append(q, m)[1] = m /\ Len(Append(q, m)) = 1
      BY <3>3
    <3> QED BY <2>2, <3>1, <3>2, <3>5, <3>6, <3>7
  <2> QED BY <2>1, <2>2 DEF Broadcast
<1> QED BY <1>2, <1>3

------------------------------------------------------------------------------
(* Every client runs when a checkpoint may be started.                      *)
LEMMA MayStartFacts ==
    ASSUME TypeOK, MayStart
    PROVE  Clients # {} /\ \A v \in Clients : recorded[v] = RUNNING
<1>1. recorded \in [Workers -> WorkerStates \cup {None}]
  BY DEF TypeOK
<1>2. Count(recorded) # 0
  BY DEF MayStart, MinimumState
<1>3. PICK v \in Workers : recorded[v] # None
  BY <1>2, FS_EmptySet DEF Count
<1>4. PICK x \in Workers : recorded[x] # None /\ MinimumState(recorded) \in {recorded[x], RESTARTING}
  BY <1>1, <1>3, MinState
<1>5. recorded[x] = RUNNING
  BY <1>4 DEF MayStart
<1>6. \A u, y \in Workers : recorded[u] # None /\ recorded[y] # None => recorded[u] = recorded[y]
  <2>1. \A u \in Workers : recorded[u] # None => recorded[u] \in States(recorded)
    BY DEF States
  <2>2. IsFiniteSet(States(recorded))
    <3>1. PICK a \in Int, b \in Int : a = UNKNOWN /\ b = REFILLED
      OBVIOUS
    <3>2. IsFiniteSet(a .. b)
      BY FS_Interval
    <3>3. States(recorded) \subseteq a .. b
      BY <1>1, <3>1 DEF States, WorkerStates
    <3> QED BY <3>2, <3>3, FS_Subset
  <2>3. PICK e : States(recorded) = {e}
    BY <2>2, FS_Singleton DEF MayStart
  <2> QED BY <2>1, <2>3
<1> QED BY <1>4, <1>5, <1>6 DEF Clients

(* startCheckpoint: all clients run and have nothing in front of a KILL.    *)
LEMMA StartStep ==
    ASSUME IndInv, up, MayStart, StartCheckpoint,
           UNCHANGED <<up, killInProgress, interval, blockUntilDone, exitAfterCkpt, toCoord, procVars,
                       diskVars, userVars>>,
           blockUntilDoneRemote' \in Cmds \cup {None}, cmd' \in [Cmds -> CmdStates],
           \A c \in Cmds : cmd'[c] # "early" \/ cmd'[c] = cmd[c]
    PROVE  IndInv'
<1> USE DEF StartCheckpoint, procVars, diskVars, userVars
<1>1. TypeOK /\ Membership /\ KillReachesAll /\ History
      /\ (ExitOnLast \/ MaxRuns <= 1 => NoEarlyAnswer)
  BY DEF IndInv
<1>2. PICK k \in Phases : Phase(k)
  BY DEF IndInv
<1>3. Clients # {} /\ \A v \in Clients : recorded[v] = RUNNING
  BY <1>1, MayStartFacts
<1>4. k = REFILLED /\ Busy
  <2>1. k # RUNNING
    BY <1>2, <1>3 DEF Phase, Flagged, MayStart
  <2> QED BY <1>2, <1>3, <2>1 DEF Phase, Recorded, InPhase, NextState, Phases, Busy
<1>5. \A v \in Clients : toCoord[v] = <<>> /\ (proc[v] = "alive" => state[v] = RUNNING)
  BY <1>2, <1>3, <1>4 DEF Phase, Recorded, NextState
<1>6. Clients' = Clients /\ Alive' = Alive /\ Alive \subseteq Clients
  BY <1>1 DEF Clients, Alive, Membership
<1>7. \A v \in Alive : state[v] = RUNNING
                       /\ (toWorker[v] = <<>> \/ toWorker[v][1].type = "KILL_PEER")
  BY <1>2, <1>4, <1>5, <1>6 DEF Phase, Ordered, Alive
<1>8. PICK m \in Messages : m = Order("SUSPEND") /\ m.type = "SUSPEND"
  BY DEF Order, Messages, Orders, NoInfo, Infos, NoComp, CompIds
<1>9. /\ toWorker' \in [Workers -> Seq(Messages)]
      /\ \A w \in Workers : proc[w] # "alive" => toWorker'[w] = toWorker[w]
      /\ \A w \in Workers :
            toWorker[w] = <<>> \/ toWorker[w][1].type = "KILL_PEER" =>
               \/ toWorker'[w] = <<>>
               \/ toWorker'[w][1].type = "KILL_PEER"
               \/ toWorker'[w][1] = m /\ Len(toWorker'[w]) = 1
      /\ \A w \in Workers :
            (\E i \in 1 .. Len(toWorker[w]) : toWorker[w][i].type = "KILL_PEER") =>
               \E i \in 1 .. Len(toWorker'[w]) : toWorker'[w][i].type = "KILL_PEER"
  BY <1>1, <1>8, Broadcasting
<1>10. TypeOK'
  <2>1. suspendSent' \in BOOLEAN /\ generation' \in Nat /\ restartFilenames' \in SUBSET Workers
    BY <1>1 DEF TypeOK
  <2> QED BY <1>1, <1>9, <2>1 DEF TypeOK
<1>11. Membership'
  BY <1>1, <1>6, <1>9 DEF Membership
<1>12. KillReachesAll'
  BY <1>1, <1>6, <1>9 DEF KillReachesAll, Alive
<1>13. History' /\ (ExitOnLast \/ MaxRuns <= 1 => NoEarlyAnswer')
  BY <1>1, SameHistory DEF NoEarlyAnswer
<1>14. Recorded(RUNNING)'
  BY <1>3, <1>5, <1>6 DEF Recorded, InPhase
<1>15. Ordered(RUNNING)'
  <2> SUFFICES ASSUME NEW v \in Alive PROVE Ordered(RUNNING)!(v)'
    BY <1>6 DEF Ordered
  <2>1. Expected(RUNNING) = "SUSPEND"
    BY DEF Expected
  <2> QED BY <1>7, <1>8, <1>9, <2>1 DEF InPhase, Alive
<1>16. Flagged(RUNNING)' /\ Written(RUNNING)'
  BY <1>3, <1>6 DEF Flagged, Written
<1>17. Joined(RUNNING)'
  <2>1. generation \in Nat /\ script.generation \in Nat
    BY <1>1 DEF TypeOK
  <2> QED BY <1>2, <1>4, <2>1 DEF Phase, Joined
<1>18. Waits(RUNNING)'
  BY <1>2, <1>3, <1>6 DEF Phase, Waits
<1> QED BY <1>10, <1>11, <1>12, <1>13, <1>14, <1>15, <1>16, <1>17, <1>18 DEF IndInv, Phase, Phases

(* The interval timer and the command 'c'.                                  *)
LEMMA StartSteps ==
    ASSUME IndInv, OnTimeoutInterval \/ \E c \in Cmds : SendCheckpoint(c)
    PROVE  IndInv'
<1>1. TypeOK
  BY DEF IndInv
<1>2. CASE OnTimeoutInterval
  <2>1. blockUntilDoneRemote' \in Cmds \cup {None} /\ cmd' \in [Cmds -> CmdStates] /\ cmd' = cmd
    BY <1>1, <1>2 DEF OnTimeoutInterval, blockVars, TypeOK
  <2> QED BY <1>2, <2>1, StartStep DEF OnTimeoutInterval, blockVars
<1>3. ASSUME NEW c \in Cmds, SendCheckpoint(c) PROVE IndInv'
  <2>1. blockUntilDoneRemote' \in Cmds \cup {None} /\ cmd' \in [Cmds -> CmdStates]
    BY <1>1, <1>3 DEF SendCheckpoint, TypeOK, CmdStates, Pending
  <2>2. \A d \in Cmds : cmd'[d] # "early" \/ cmd'[d] = cmd[d]
    BY <1>1, <1>3 DEF SendCheckpoint, TypeOK
  <2>3. CASE MayStart
    BY <1>3, <2>1, <2>2, <2>3, StartStep DEF SendCheckpoint
  <2>4. CASE ~MayStart
    <3>1. \A d \in Cmds : cmd'[d] = "waiting" => cmd'[d] = cmd[d]
      BY <1>1, <1>3, <2>4 DEF SendCheckpoint, TypeOK
    <3>2. UNCHANGED <<up, recorded, compVars, killInProgress, interval, blockUntilDone, exitAfterCkpt,
                      restartFilenames, toWorker, toCoord, procVars, diskVars, userVars>>
      BY <1>3, <2>4 DEF SendCheckpoint
    <3>3. TypeOK'
      BY <1>1, <2>1, <3>2 DEF TypeOK, compVars, procVars, diskVars, userVars
    <3> QED BY <2>2, <3>1, <3>2, <3>3, QuietStep
  <2> QED BY <2>3, <2>4
<1> QED BY <1>2, <1>3

------------------------------------------------------------------------------
(* The last client leaves.                                                  *)
LEMMA LastDisconnectStep ==
    ASSUME IndInv, NEW w \in Workers, OnDisconnect(w), Clients = {w} PROVE IndInv'
<1> USE DEF OnDisconnect, compVars, blockVars, procVars, userVars
<1>1. TypeOK /\ Membership /\ KillReachesAll /\ History
      /\ (ExitOnLast \/ MaxRuns <= 1 => NoEarlyAnswer)
  BY DEF IndInv
<1>2. PICK k \in Phases : Phase(k)
  BY DEF IndInv
<1>3. /\ up /\ proc[w] = "dead" /\ Alive = {} /\ Alive' = {}
  BY <1>1 DEF Membership, Alive
<1>4. /\ recorded' = [recorded EXCEPT ![w] = None] /\ toCoord' = [toCoord EXCEPT ![w] = <<>>]
      /\ UNCHANGED <<toWorker, compVars, blockVars, exitAfterCkpt, script, restartFilenames, procVars,
                     image, userVars>>
      /\ IF ExitOnLast THEN up' = FALSE /\ cmd' = Lost /\ UNCHANGED <<killInProgress, interval>>
         ELSE killInProgress' = FALSE /\ interval' = DefaultInterval /\ UNCHANGED <<up, cmd>>
  OBVIOUS
<1> HIDE DEF OnDisconnect
<1>5. Clients' = {} /\ ~Busy'
  BY <1>1, <1>3, <1>4 DEF Clients, Busy, TypeOK
<1>6. TypeOK'
  <2>1. recorded' \in [Workers -> WorkerStates \cup {None}]
    BY <1>1, <1>4 DEF TypeOK
  <2>2. toCoord' \in [Workers -> Seq(Reports)]
    BY <1>1, <1>4, EmptySeq DEF TypeOK
  <2>3. cmd' \in [Cmds -> CmdStates]
    BY <1>1, <1>4 DEF TypeOK, Lost, CmdStates
  <2>4. up' \in BOOLEAN /\ killInProgress' \in BOOLEAN /\ interval' \in BOOLEAN
    BY <1>1, <1>4, CoordinatorAssumption DEF TypeOK
  <2> QED BY <1>1, <1>4, <2>1, <2>2, <2>3, <2>4 DEF TypeOK
<1>7. Membership'
  BY <1>1, <1>3, <1>4, <1>5 DEF Membership, TypeOK
<1>8. KillReachesAll' /\ History'
  BY <1>1, <1>4, <1>5, SameHistory DEF KillReachesAll
<1>9. ExitOnLast \/ MaxRuns <= 1 => NoEarlyAnswer'
  BY <1>1, <1>4 DEF NoEarlyAnswer, Lost, Pending
<1>10. Waits(REFILLED)'
  BY <1>2, <1>4, <1>5 DEF Phase, Waits, Lost, Pending
<1>11. Recorded(REFILLED)' /\ Ordered(REFILLED)' /\ Flagged(REFILLED)'
  BY <1>3, <1>5 DEF Recorded, Ordered, Flagged
<1>12. Written(REFILLED)' /\ Joined(REFILLED)'
  BY <1>3, <1>5 DEF Written, Joined
<1> QED BY <1>6, <1>7, <1>8, <1>9, <1>10, <1>11, <1>12 DEF IndInv, Phase, Phases

(* Reading reports.                                                         *)
LEMMA ReadReports ==
    ASSUME NEW a, NEW b
    PROVE  /\ Head(<<a>>) = a /\ Tail(<<a>>) = <<>> /\ <<a>> # <<>>
           /\ Head(<<a, b>>) = a /\ Tail(<<a, b>>) = <<b>> /\ <<a, b>> # <<>> /\ <<a, b>> # <<b>>
<1> DEFINE S == {a, b}  s == <<a>>  t == <<b>>  u == <<a, b>>
<1>1. s \in Seq(S) /\ t \in Seq(S) /\ u \in Seq(S) /\ Len(s) = 1 /\ Len(t) = 1 /\ Len(u) = 2
      /\ s[1] = a /\ t[1] = b /\ u[1] = a /\ u[2] = b
  OBVIOUS
<1> HIDE DEF S, s, t, u
<1>2. s # <<>> /\ u # <<>> /\ u # t
  <2>1. Len(<<>>) = 0
    OBVIOUS
  <2>2. Len(u) # Len(<<>>) /\ Len(u) # Len(t) /\ Len(s) # Len(<<>>)
    BY <1>1, <2>1
  <2> QED BY <2>2
<1>3. /\ Head(s) = a /\ Tail(s) \in Seq(S) /\ Len(Tail(s)) = 0
      /\ Head(u) = a /\ Tail(u) \in Seq(S) /\ Len(Tail(u)) = 1
      /\ \A i \in 1 .. Len(Tail(u)) : Tail(u)[i] = u[i + 1]
  BY <1>1, <1>2, HeadTailProperties
<1>4. Tail(s) = <<>>
  BY <1>3, EmptySeq
<1>5. Tail(u) = t
  <2>1. PICK r \in Seq(S) : r = Tail(u)
    BY <1>3
  <2>2. Len(r) = 1 /\ r[1] = b
    BY <1>1, <1>3, <2>1
  <2>3. \A i \in 1 .. Len(r) : r[i] = t[i]
    BY <1>1, <2>2
  <2>4. r = t
    BY <1>1, <2>2, <2>3, SeqEqual
  <2> QED BY <2>1, <2>4
<1> QED BY <1>2, <1>3, <1>4, <1>5 DEF s, t, u

(* The name of an image arrives, in front of the report of its process.     *)
LEMMA FilenameStep ==
    ASSUME IndInv, NEW w \in Workers, OnData(w), Head(toCoord[w]).type = "CKPT_FILENAME"
    PROVE  IndInv'
<1> USE DEF compVars, blockVars, procVars, userVars
<1>1. TypeOK /\ Membership /\ KillReachesAll /\ History
      /\ (ExitOnLast \/ MaxRuns <= 1 => NoEarlyAnswer)
  BY DEF IndInv
<1>2. PICK k \in Phases : Phase(k)
  BY DEF IndInv
<1>3. /\ up /\ w \in Clients /\ toCoord[w] # <<>> /\ toCoord' = [toCoord EXCEPT ![w] = Tail(@)]
      /\ restartFilenames' = restartFilenames \cup {w}
      /\ UNCHANGED <<up, recorded, interval, toWorker, compVars, killInProgress, blockVars,
                     exitAfterCkpt, script, cmd, procVars, image, userVars>>
  BY DEF OnData, Clients
<1>4. k = DRAINED /\ toCoord[w] = BothReports /\ recorded[w] # CHECKPOINTED
  <2>1. PICK r : r = Report(NextState(k))
    OBVIOUS
  <2>2. r.type # "CKPT_FILENAME" /\ Head(<<r>>) = r
    BY <2>1, ReadReports DEF Report
  <2>3. toCoord[w] # <<Report(NextState(k))>>
    BY <2>1, <2>2
  <2> QED BY <1>2, <1>3, <2>3 DEF Phase, Recorded, NextState
<1>5. PICK a, b : a = Filename /\ b = Report(CHECKPOINTED)
  OBVIOUS
<1>6. BothReports = <<a, b>> /\ Tail(<<a, b>>) = <<b>> /\ <<b>> # <<>> /\ <<a, b>> # <<b>>
      /\ b \in Reports
  <2>1. b \in Reports
    BY <1>5 DEF Report, Reports, WorkerStates
  <2> QED BY <1>5, <2>1, ReadReports DEF BothReports
<1>7. /\ toCoord'[w] = <<b>> /\ <<b>> # <<>> /\ <<b>> # BothReports
      /\ \A v \in Workers : v # w => toCoord'[v] = toCoord[v]
  BY <1>1, <1>3, <1>4, <1>6 DEF TypeOK
<1>8. Clients' = Clients /\ Alive' = Alive /\ Busy' = Busy
      /\ Clients' \cup restartFilenames' = Clients \cup restartFilenames
  BY <1>3 DEF Clients, Alive, Busy
<1>9. \A i : Fresh(i) => Fresh(i)'
  BY <1>3, <1>8 DEF Fresh
<1>10. TypeOK'
  <2>1. <<b>> \in Seq(Reports)
    BY <1>6
  <2>2. toCoord' \in [Workers -> Seq(Reports)] /\ restartFilenames' \in SUBSET Workers
    BY <1>1, <1>3, <1>4, <1>6, <2>1 DEF TypeOK
  <2> QED BY <1>1, <1>3, <2>2 DEF TypeOK
<1>11. Membership' /\ KillReachesAll'
  BY <1>1, <1>3, <1>7, <1>8, SameKill DEF Membership
<1>12. Recorded(k)'
  <2>1. w \in Clients /\ Recorded(k)!(w)
    BY <1>2, <1>3 DEF Phase, Recorded
  <2>2. Recorded(k)!(w)'
    BY <1>3, <1>4, <1>5, <1>7, <2>1 DEF NextState, BothReports
  <2>3. ASSUME NEW v \in Clients, v # w PROVE Recorded(k)!(v)'
    BY <1>2, <1>3, <1>7, <2>3 DEF Phase, Recorded, Clients
  <2> QED BY <1>8, <2>2, <2>3 DEF Recorded
<1>13. Written(k)'
  <2>1. Written(k) /\ Busy
    BY <1>2, <1>3 DEF Phase, Busy
  <2>2. Fresh(image[w])'
    <3>1. PICK i : i = image[w]
      OBVIOUS
    <3>2. Fresh(i)
      BY <1>3, <1>4, <2>1, <3>1 DEF Written
    <3> QED BY <1>3, <1>9, <3>1, <3>2 DEF Fresh
  <2>3. ASSUME NEW v \in Workers, Fresh(image[v]) PROVE Fresh(image[v])'
    <3>1. PICK i : i = image[v]
      OBVIOUS
    <3> QED BY <1>3, <1>9, <2>3, <3>1 DEF Fresh
  <2>4. ASSUME NEW v \in Workers, Fresh(info[v]) PROVE Fresh(info[v])'
    <3>1. PICK i : i = info[v]
      OBVIOUS
    <3> QED BY <1>3, <1>9, <2>4, <3>1 DEF Fresh
  <2>5. /\ \A v \in Alive : state[v] \in {FD_LEADER_ELECTION, DRAINED} => Fresh(info[v])'
        /\ \A v \in restartFilenames' : Fresh(image[v])'
    BY <1>1, <1>3, <1>4, <2>1, <2>2, <2>3, <2>4 DEF Written, Alive, TypeOK
  <2>6. \A v \in Clients :
                /\ toCoord'[v] = BothReports => Fresh(image[v])'
                /\ proc[v] = "alive" /\ state[v] = CHECKPOINTED /\ toCoord'[v] # BothReports
                      => v \in restartFilenames'
    BY <1>3, <1>4, <1>7, <2>1, <2>3 DEF Written, Clients
  <2> QED BY <1>3, <1>4, <1>8, <2>5, <2>6 DEF Written, BothReports, Filename, Report
<1>14. Ordered(k)' /\ Flagged(k)' /\ Joined(k)' /\ Waits(k)'
  BY <1>2, <1>3, <1>9, SameOrdered, SameFlagged, SameJoined, SameWaits DEF Phase
<1> QED BY <1>1, <1>3, <1>10, <1>11, <1>12, <1>13, <1>14, SameHistory DEF IndInv, Phase, NoEarlyAnswer

(* A minimum of the recorded states that goes on to the next state says     *)
(* that all clients have reported it.                                       *)
LEMMA Crossing ==
    ASSUME NEW k \in Phases, NEW r \in [Workers -> WorkerStates \cup {None}],
           NEW v \in Workers, r[v] # None,
           \A w \in Workers : r[w] # None => InPhase(k, r[w]),
           NEW old \in RUNNING .. DONE_QUERYING, InPhase(k, old),
           MinimumState(r) = NextState(old) 
    PROVE  /\ old = k /\ \A w \in Workers : r[w] # None => r[w] = NextState(k)
           /\ k = RESTARTING => ~(isRestarting /\ Count(r) < numPeers)
<1>1. PICK w \in Workers :
              /\ r[w] # None
              /\ \A x \in Workers : r[x] # None => r[w] <= r[x]
              /\ \/ MinimumState(r) = r[w]
                    /\ ~(r[w] = CHECKPOINTED /\ isRestarting /\ Count(r) < numPeers)
                 \/ MinimumState(r) = RESTARTING
                    /\ r[w] = CHECKPOINTED /\ isRestarting /\ Count(r) < numPeers
  BY MinState
<1>2. NextState(old) = (IF old = DRAINED THEN CHECKPOINTED ELSE old + 1)
      /\ NextState(k) = (IF k = DRAINED THEN CHECKPOINTED ELSE IF k = REFILLED THEN RUNNING ELSE k + 1)
  BY DEF NextState, Phases
<1>3. MinimumState(r) = r[w]
        /\ ~(r[w] = CHECKPOINTED /\ isRestarting /\ Count(r) < numPeers)
  BY <1>1, <1>2
<1>4. InPhase(k, r[w]) /\ r[w] = NextState(old)
  BY <1>1, <1>3
<1>5. old = k
  BY <1>2, <1>4 DEF InPhase, Phases
<1>6. \A x \in Workers : r[x] # None => r[x] = NextState(k)
  BY <1>1, <1>2, <1>4, <1>5 DEF InPhase, Phases
<1> QED BY <1>1, <1>2, <1>3, <1>4, <1>5, <1>6

------------------------------------------------------------------------------
(* The coordinator hears from client w, and looks at the barrier: w reports *)
(* the next state of the phase, or it has gone and others are left.         *)
Heard(w, s) ==
    /\ up /\ w \in Clients
    /\ recorded' = [recorded EXCEPT ![w] = s]
    /\ toCoord' = [toCoord EXCEPT ![w] = <<>>]
    /\ UpdateMinimumState(recorded[w])
    /\ UNCHANGED <<up, interval, procVars, image, userVars>>

Speaks(k, w, s) ==
    \/ s = NextState(k) /\ toCoord[w] = <<Report(s)>>
    \/ s = None /\ proc[w] = "dead" /\ Clients # {w}

(* The order of the states.                                                 *)
LEMMA NextStates ==
    ASSUME NEW k \in Phases
    PROVE  /\ NextState(k) \in WorkerStates /\ NextState(k) # k /\ NextState(k) # None
           /\ NextState(k) \in Phases
           /\ NextState(k) = (IF k = DRAINED THEN CHECKPOINTED
                              ELSE IF k = REFILLED THEN RUNNING ELSE k + 1)
BY DEF NextState, Phases, WorkerStates

(* The list of the images' names stays, or it was written and is cleared.   *)
LEMMA HeardNames ==
    ASSUME NEW w, NEW s, Heard(w, s)
    PROVE  restartFilenames' \subseteq restartFilenames
BY DEF Heard, UpdateMinimumState, AllSuspended, PlainBarrier, AllCheckpointed, AllRefilled,
       NoBarrier, RestartScript

(* What holds then whether or not the barrier is reached.                   *)
LEMMA HeardFacts ==
    ASSUME IndInv, NEW k \in Phases, Phase(k), NEW w \in Workers, NEW s, Heard(w, s), Speaks(k, w, s)
    PROVE  /\ UNCHANGED <<compId, generation, numPeers>>
           /\ Clients' \subseteq Clients /\ Clients' # {} /\ Alive' = Alive /\ Alive \subseteq Clients'
           /\ Busy /\ Busy'
           /\ \A i : Fresh(i) => Fresh(i)'
           /\ recorded' \in [Workers -> WorkerStates \cup {None}]
           /\ toCoord' \in [Workers -> Seq(Reports)]
           /\ recorded'[w] = s /\ \A v \in Workers : v # w => recorded'[v] = recorded[v]
           /\ toCoord'[w] = <<>> /\ \A v \in Workers : v # w => toCoord'[v] = toCoord[v]
           /\ Recorded(k)'
<1> USE DEF procVars, userVars
<1>1. TypeOK /\ Membership
  BY DEF IndInv
<1>2. /\ up /\ w \in Clients /\ recorded' = [recorded EXCEPT ![w] = s]
      /\ toCoord' = [toCoord EXCEPT ![w] = <<>>]
      /\ restartFilenames' \subseteq restartFilenames
      /\ UNCHANGED <<up, interval, proc, state, info, image>>
  BY HeardNames DEF Heard
<1>3. UNCHANGED <<compId, generation, numPeers>>
  BY DEF Heard, UpdateMinimumState, AllSuspended, PlainBarrier, AllCheckpointed, AllRefilled,
         NoBarrier, compVars
<1>4. s \in WorkerStates \cup {None}
  BY NextStates DEF Speaks
<1>5. /\ recorded'[w] = s /\ \A v \in Workers : v # w => recorded'[v] = recorded[v]
      /\ toCoord'[w] = <<>> /\ \A v \in Workers : v # w => toCoord'[v] = toCoord[v]
      /\ recorded' \in [Workers -> WorkerStates \cup {None}]
  BY <1>1, <1>2, <1>4 DEF TypeOK
<1>6. toCoord' \in [Workers -> Seq(Reports)]
  BY <1>1, <1>2, EmptySeq DEF TypeOK
<1>7. Clients' \subseteq Clients /\ Alive' = Alive /\ Busy
  BY <1>2, <1>5 DEF Clients, Alive, Busy
<1>8. Clients' # {} /\ Alive \subseteq Clients'
  BY <1>1, <1>2, <1>5, NextStates DEF Clients, Alive, Speaks, Membership
<1>9. \A i : Fresh(i) => Fresh(i)'
  BY <1>1, <1>2, <1>3, <1>7, FreshStays
<1>10. Recorded(k)'
  <2> SUFFICES ASSUME NEW v \in Clients' PROVE Recorded(k)!(v)'
    BY DEF Recorded
  <2>1. v \in Clients /\ v \in Workers /\ Recorded(k)!(v)
    BY <1>7 DEF Phase, Recorded, Clients
  <2>2. CASE v # w
    BY <1>2, <1>5, <2>1, <2>2
  <2>3. CASE v = w
    <3>1. s = NextState(k) /\ toCoord[w] = <<Report(s)>>
      BY <1>5, <2>3 DEF Speaks, Clients
    <3>2. toCoord[w] # <<>>
      BY <3>1, ReadReports
    <3> QED BY <1>2, <1>5, <2>1, <2>3, <3>1, <3>2 DEF InPhase
  <2> QED BY <2>2, <2>3
<1> QED BY <1>3, <1>5, <1>6, <1>7, <1>8, <1>9, <1>10 DEF Busy

(* What a process knows, and its image, stay fresh.                         *)
LEMMA FreshRecords ==
    ASSUME \A i : Fresh(i) => Fresh(i)', UNCHANGED <<info, image>>
    PROVE  /\ \A v \in Workers : Fresh(info[v]) => Fresh(info[v])'
           /\ \A v \in Workers : Fresh(image[v]) => Fresh(image[v])'
<1>1. ASSUME NEW v \in Workers, Fresh(image[v]) PROVE Fresh(image[v])'
  <2>1. PICK i : i = image[v]
    OBVIOUS
  <2> QED BY <1>1, <2>1 DEF Fresh
<1>2. ASSUME NEW v \in Workers, Fresh(info[v]) PROVE Fresh(info[v])'
  <2>1. PICK i : i = info[v]
    OBVIOUS
  <2> QED BY <1>2, <2>1 DEF Fresh
<1> QED BY <1>1, <1>2

(* The barrier is not reached: the phase goes on.                           *)
LEMMA StayStep ==
    ASSUME IndInv, NEW k \in Phases, Phase(k), NEW w \in Workers, NEW s, Heard(w, s),
           Speaks(k, w, s), NoBarrier(recorded[w], MinimumState(recorded'))
    PROVE  IndInv'
<1> USE DEF procVars, userVars, compVars, blockVars
<1>1. TypeOK /\ Membership /\ KillReachesAll /\ History
      /\ (ExitOnLast \/ MaxRuns <= 1 => NoEarlyAnswer)
  BY DEF IndInv
<1>2. /\ up /\ w \in Clients
      /\ UNCHANGED <<up, interval, restartFilenames, procVars, image, userVars, toWorker, compVars,
                     killInProgress, blockVars, exitAfterCkpt, script, cmd>>
  BY DEF Heard, NoBarrier
<1>3. /\ Clients' \subseteq Clients /\ Clients' # {} /\ Alive' = Alive /\ Alive \subseteq Clients'
      /\ Busy /\ Busy'
      /\ \A i : Fresh(i) => Fresh(i)'
      /\ recorded' \in [Workers -> WorkerStates \cup {None}]
      /\ toCoord' \in [Workers -> Seq(Reports)]
      /\ recorded'[w] = s /\ \A v \in Workers : v # w => recorded'[v] = recorded[v]
      /\ toCoord'[w] = <<>> /\ \A v \in Workers : v # w => toCoord'[v] = toCoord[v]
      /\ Recorded(k)'
  BY HeardFacts
<1>4. Recorded(k) /\ Ordered(k) /\ Flagged(k) /\ Written(k) /\ Joined(k) /\ Waits(k)
  BY DEF Phase
<1>5. TypeOK'
  BY <1>1, <1>2, <1>3 DEF TypeOK
<1>6. Membership'
  BY <1>1, <1>2, <1>3 DEF Membership, Clients
<1>7. KillReachesAll' /\ History' /\ (ExitOnLast \/ MaxRuns <= 1 => NoEarlyAnswer')
  BY <1>1, <1>2, <1>3, SameHistory DEF KillReachesAll, NoEarlyAnswer
<1>8. Ordered(k)'
  BY <1>2, <1>3, <1>4, SameOrdered
<1>9. Flagged(k)'
  <2>1. ASSUME k = RUNNING PROVE \E v \in Clients' : recorded'[v] = RUNNING
    <3>1. SUFFICES ASSUME \A v \in Clients' : recorded'[v] # RUNNING PROVE FALSE
      OBVIOUS
    <3>2. NextState(k) = SUSPENDED
      BY <2>1 DEF NextState
    <3>3. \A v \in Clients' : recorded'[v] = SUSPENDED
      BY <1>3, <2>1, <3>1, <3>2 DEF Recorded, InPhase
    <3>4. recorded[w] = RUNNING
      <4>1. CASE s = None
        <5>1. PICK v \in Clients : recorded[v] = RUNNING
          BY <1>2, <1>4, <2>1 DEF Flagged
        <5>2. v # w => v \in Clients'
          BY <1>3, <5>1 DEF Clients
        <5> QED BY <1>3, <3>1, <5>1, <5>2 DEF Clients
      <4>2. CASE s # None
        <5>1. toCoord[w] = <<Report(s)>>
          BY <4>2 DEF Speaks
        <5>2. toCoord[w] # <<>>
          BY <5>1, ReadReports
        <5> QED BY <1>2, <1>4, <2>1, <3>2, <5>2 DEF Recorded, InPhase
      <4> QED BY <4>1, <4>2
    <3>5. PICK r \in [Workers -> WorkerStates \cup {None}] : r = recorded'
      BY <1>3
    <3>6. PICK v \in Workers : r[v] # None
      BY <1>3, <3>5 DEF Clients
    <3>7. \A x \in Workers : r[x] # None => r[x] = SUSPENDED
      BY <3>3, <3>5 DEF Clients
    <3>8. MinimumState(r) = SUSPENDED
      BY <3>6, <3>7, MinState
    <3> QED BY <3>4, <3>5, <3>8 DEF NoBarrier
  <2> QED BY <1>2, <1>3, <1>4, <2>1 DEF Flagged
<1>10. Written(k)'
  <2>1. /\ \A v \in Workers : Fresh(info[v]) => Fresh(info[v])'
        /\ \A v \in Workers : Fresh(image[v]) => Fresh(image[v])'
    BY <1>2, <1>3, FreshRecords
  <2>2. \A v \in Alive : k \in SUSPENDED .. DRAINED /\ state[v] \in {FD_LEADER_ELECTION, DRAINED}
            => Fresh(info[v])'
    BY <1>4, <2>1 DEF Written, Alive
  <2>3. k \in RUNNING .. FD_LEADER_ELECTION => restartFilenames = {}
    BY <1>3, <1>4 DEF Written
  <2>4. ASSUME k = DRAINED PROVE \A v \in restartFilenames : Fresh(image[v])'
    BY <1>1, <1>3, <1>4, <2>1, <2>4 DEF Written, TypeOK
  <2>5. toCoord'[w] # BothReports
    BY <1>3, ReadReports DEF BothReports
  <2>6. ASSUME k = DRAINED, NEW v \in Clients'
        PROVE /\ toCoord'[v] = BothReports => Fresh(image[v])'
              /\ proc[v] = "alive" /\ state[v] = CHECKPOINTED /\ toCoord'[v] # BothReports
                      => v \in restartFilenames
    <3>1. v \in Clients /\ v \in Workers
      BY <1>3 DEF Clients
    <3>2. CASE v # w
      BY <1>3, <1>4, <2>1, <2>6, <3>1, <3>2 DEF Written
    <3>3. CASE v = w
      <4>1. proc[w] = "alive" => toCoord[w] # BothReports
        BY ReadReports DEF BothReports, Speaks
      <4> QED BY <1>3, <1>4, <2>5, <2>6, <3>1, <3>3, <4>1 DEF Written
    <3> QED BY <3>2, <3>3
  <2> QED BY <1>2, <1>3, <2>2, <2>3, <2>4, <2>6 DEF Written
<1>11. Joined(k)'
  <2>1. Cardinality(Clients') <= Cardinality(Clients) /\ Cardinality(Clients') \in Nat
        /\ Cardinality(Clients) \in Nat /\ Cardinality(toRestart) \in Nat /\ numPeers \in Int
    BY <1>1, <1>3, FiniteClients, FS_Subset, FS_CardinalityType DEF TypeOK
  <2> QED BY <1>2, <1>3, <1>4, <2>1 DEF Joined
<1>12. Waits(k)'
  BY <1>2, <1>3, <1>4 DEF Waits
<1> QED BY <1>3, <1>5, <1>6, <1>7, <1>8, <1>9, <1>10, <1>11, <1>12 DEF IndInv, Phase

(* The barrier is reached: everyone has done what the phase asks, and said  *)
(* so, and has nothing in front of a KILL.                                  *)
LEMMA CrossedFacts ==
    ASSUME IndInv, NEW k \in Phases, Phase(k), NEW w \in Workers, NEW s, Heard(w, s),
           Speaks(k, w, s), recorded[w] \in RUNNING .. DONE_QUERYING,
           MinimumState(recorded') = NextState(recorded[w])
    PROVE  /\ recorded[w] = k
           /\ \A v \in Clients' : recorded'[v] = NextState(k) /\ toCoord'[v] = <<>>
           /\ \A v \in Alive : /\ state[v] = NextState(k)
                               /\ toWorker[v] = <<>> \/ toWorker[v][1].type = "KILL_PEER"
           /\ k = RESTARTING => toRestart = {}
           /\ \A v \in Clients : toCoord[v] # BothReports \/ proc[v] = "dead"
<1>1. TypeOK /\ Membership
  BY DEF IndInv
<1>2. up /\ w \in Clients /\ UNCHANGED <<proc, state>>
  BY DEF Heard, procVars
<1>3. /\ Clients' \subseteq Clients /\ Clients' # {} /\ Alive' = Alive /\ Alive \subseteq Clients'
      /\ Busy
      /\ recorded' \in [Workers -> WorkerStates \cup {None}]
      /\ recorded'[w] = s /\ \A v \in Workers : v # w => recorded'[v] = recorded[v]
      /\ toCoord'[w] = <<>> /\ \A v \in Workers : v # w => toCoord'[v] = toCoord[v]
      /\ Recorded(k)'
  BY HeardFacts
<1>4. Recorded(k) /\ Ordered(k) /\ Joined(k)
  BY DEF Phase
<1>5. PICK r \in [Workers -> WorkerStates \cup {None}] : r = recorded'
  BY <1>3
<1>6. PICK old \in RUNNING .. DONE_QUERYING : old = recorded[w]
  OBVIOUS
<1>7. InPhase(k, old)
  BY <1>2, <1>4, <1>6 DEF Recorded
<1>8. PICK x \in Workers : r[x] # None
  BY <1>3, <1>5 DEF Clients
<1>9. \A v \in Workers : r[v] # None => InPhase(k, r[v])
  BY <1>3, <1>5 DEF Recorded, Clients, InPhase
<1>10. MinimumState(r) = NextState(old)
  BY <1>5, <1>6
<1>11. /\ old = k /\ \A v \in Workers : r[v] # None => r[v] = NextState(k)
       /\ k = RESTARTING => ~(isRestarting /\ Count(r) < numPeers)
  BY <1>7, <1>8, <1>9, <1>10, Crossing
<1>12. \A v \in Clients' : recorded'[v] = NextState(k) /\ toCoord'[v] = <<>>
  BY <1>3, <1>5, <1>11 DEF Recorded, Clients
<1>13. ASSUME NEW v \in Alive
       PROVE  state[v] = NextState(k) /\ (toWorker[v] = <<>> \/ toWorker[v][1].type = "KILL_PEER")
  <2>1. v \in Clients' /\ proc[v] = "alive"
    BY <1>3 DEF Alive
  <2>2. state[v] = NextState(k)
    BY <1>2, <1>3, <1>12, <2>1 DEF Recorded
  <2> QED BY <1>4, <2>2, NextStates DEF Ordered
<1>14. ASSUME k = RESTARTING PROVE toRestart = {}
  <2>1. Cardinality(Clients') <= Cardinality(Clients) /\ Cardinality(Clients') \in Nat
        /\ Cardinality(Clients) \in Nat /\ Cardinality(toRestart) \in Nat /\ numPeers \in Int
        /\ IsFiniteSet(toRestart)
    BY <1>1, <1>3, FiniteClients, FS_Subset, FS_CardinalityType DEF TypeOK
  <2>2. Cardinality(Clients') = Count(r)
    BY <1>5 DEF Clients, Count
  <2>3. Cardinality(Clients) + Cardinality(toRestart) <= numPeers /\ numPeers <= Count(r)
    BY <1>1, <1>3, <1>4, <1>11, <1>14, <2>1, <2>2 DEF Joined
  <2>4. Cardinality(toRestart) = 0
    BY <2>1, <2>2, <2>3
  <2> QED BY <2>1, <2>4, FS_EmptySet
<1>15. ASSUME NEW v \in Clients PROVE toCoord[v] # BothReports \/ proc[v] = "dead"
  <2>1. BothReports # <<>>
    BY ReadReports DEF BothReports
  <2>2. CASE v # w
    BY <1>3, <1>12, <2>1, <2>2 DEF Clients
  <2>3. CASE v = w
    BY <2>3, ReadReports DEF BothReports, Speaks
  <2> QED BY <2>2, <2>3
<1> QED BY <1>6, <1>11, <1>12, <1>13, <1>14, <1>15

(* The tables of updateMinimumState lead from a state to the next, and the  *)
(* order is the one that is waited for there.                               *)
LEMMA PlainBarrierOrder ==
    ASSUME NEW b \in PlainBarriers
    PROVE  /\ b[1] \in RUNNING .. DONE_QUERYING /\ b[2] = NextState(b[1])
           /\ b[1] \in {SUSPENDED, FD_LEADER_ELECTION, RESTARTING, CHECKPOINTED,
                        NAME_SERVICE_DATA_REGISTERED}
           /\ b[3] = Expected(b[2]) /\ b[3] \in Orders
BY DEF PlainBarriers, NextState, Expected, Orders

(* The barrier is reached: the next phase begins.                           *)
LEMMA CrossStep ==
    ASSUME IndInv, NEW k \in Phases, Phase(k), NEW w \in Workers, NEW s, Heard(w, s),
           Speaks(k, w, s), ~NoBarrier(recorded[w], MinimumState(recorded'))
    PROVE  IndInv'
<1> USE DEF procVars, userVars, compVars, blockVars
<1> DEFINE j == NextState(k)
<1>1. TypeOK /\ Membership /\ KillReachesAll /\ History
      /\ (ExitOnLast \/ MaxRuns <= 1 => NoEarlyAnswer)
  BY DEF IndInv
<1>2. PICK old, new : old = recorded[w] /\ new = MinimumState(recorded')
  OBVIOUS
<1>3. \/ AllSuspended(old, new) \/ PlainBarrier(old, new)
      \/ AllCheckpointed(old, new) \/ AllRefilled(old, new)
  BY <1>2 DEF Heard, UpdateMinimumState
<1>4. old \in RUNNING .. DONE_QUERYING /\ new = NextState(old)
  BY <1>3, PlainBarrierOrder DEF AllSuspended, PlainBarrier, AllCheckpointed, AllRefilled, NextState
<1>5. /\ up /\ w \in Clients
      /\ restartFilenames' \subseteq restartFilenames
      /\ UNCHANGED <<up, interval, proc, state, info, image, toRestart, runs>>
  BY HeardNames DEF Heard
<1>6. /\ UNCHANGED <<compId, generation, numPeers>>
      /\ Clients' \subseteq Clients /\ Clients' # {} /\ Alive' = Alive /\ Alive \subseteq Clients'
      /\ Busy /\ Busy'
      /\ \A i : Fresh(i) => Fresh(i)'
      /\ recorded' \in [Workers -> WorkerStates \cup {None}]
      /\ toCoord' \in [Workers -> Seq(Reports)]
      /\ recorded'[w] = s /\ \A v \in Workers : v # w => recorded'[v] = recorded[v]
      /\ toCoord'[w] = <<>> /\ \A v \in Workers : v # w => toCoord'[v] = toCoord[v]
  BY HeardFacts
<1>7. /\ old = k
      /\ \A v \in Clients' : recorded'[v] = NextState(k) /\ toCoord'[v] = <<>>
      /\ \A v \in Alive : /\ state[v] = NextState(k)
                          /\ toWorker[v] = <<>> \/ toWorker[v][1].type = "KILL_PEER"
      /\ k = RESTARTING => toRestart = {}
  BY <1>2, <1>4, CrossedFacts
<1>8. Flagged(k) /\ Written(k) /\ Joined(k) /\ Waits(k)
  BY DEF Phase
<1>9. k \in RUNNING .. DONE_QUERYING /\ j = (IF k = DRAINED THEN CHECKPOINTED ELSE k + 1)
  BY <1>4, <1>7, NextStates
<1>10. PICK m \in Messages :
          /\ Broadcast(m)
          /\ m.type = Expected(j) \/ m.type = "KILL_PEER"
          /\ k = RUNNING => Fresh(m.info)'
          /\ killInProgress' => killInProgress \/ m.type = "KILL_PEER"
  <2>1. CASE AllSuspended(old, new)
    <3>1. PICK n : n = Count(recorded')
      OBVIOUS
    <3>2. PICK i : i = [compId |-> compId, generation |-> generation, numPeers |-> n]
      OBVIOUS
    <3>3. PICK m : m = [type |-> "FD_LEADER_ELECTION", info |-> i]
      OBVIOUS
    <3>4. Broadcast(m) /\ k = RUNNING /\ killInProgress' = killInProgress
      BY <1>7, <2>1, <3>1, <3>2, <3>3 DEF AllSuspended
    <3>5. restartFilenames = {} /\ restartFilenames' = {}
      BY <1>5, <1>6, <1>8, <3>4 DEF Written
    <3>6. n = Cardinality(Clients') /\ n \in Nat
      BY <1>1, <1>6, <3>1, FiniteClients, FS_Subset, FS_CardinalityType DEF Clients, Count
    <3>7. Clients' \cup restartFilenames' = Clients'
      BY <3>5
    <3>8. i \in Infos /\ i.compId = compId' /\ i.generation = generation' /\ i.numPeers = n
      BY <1>1, <1>6, <3>2, <3>6 DEF Infos, TypeOK
    <3>9. Fresh(i)'
      BY <3>6, <3>7, <3>8 DEF Fresh
    <3>10. m \in Messages /\ m.type = "FD_LEADER_ELECTION" /\ m.info = i
      BY <3>3, <3>8 DEF Messages, Orders
    <3>11. Expected(j) = "FD_LEADER_ELECTION"
      BY <1>9, <3>4 DEF Expected
    <3> QED BY <3>4, <3>9, <3>10, <3>11 DEF Fresh
  <2>2. CASE PlainBarrier(old, new)
    <3>1. PICK b \in PlainBarriers : b[1] = old /\ b[2] = new /\ Broadcast(Order(b[3]))
      BY <2>2 DEF PlainBarrier
    <3>2. b[3] = Expected(j) /\ b[3] \in Orders /\ k # RUNNING
      BY <1>4, <1>7, <3>1, PlainBarrierOrder
    <3>3. Order(b[3]) \in Messages /\ Order(b[3]).type = b[3]
      BY <3>2 DEF Order, Messages, NoInfo, Infos, NoComp, CompIds
    <3> QED BY <2>2, <3>1, <3>2, <3>3 DEF PlainBarrier
  <2>3. \A t \in Orders : Order(t) \in Messages /\ Order(t).type = t
    BY DEF Order, Messages, NoInfo, Infos, NoComp, CompIds
  <2>4. CASE AllCheckpointed(old, new)
    <3>1. k = DRAINED /\ Expected(j) = "REGISTER_NAME_SERVICE_DATA"
      BY <1>7, <1>9, <2>4 DEF AllCheckpointed, Expected
    <3>2. "REGISTER_NAME_SERVICE_DATA" \in Orders /\ "KILL_PEER" \in Orders
      BY DEF Orders
    <3>3. CASE exitAfterCkpt
      <4>1. Broadcast(Order("KILL_PEER"))
        BY <2>4, <3>3 DEF AllCheckpointed, BroadcastKill
      <4> QED BY <2>3, <3>1, <3>2, <4>1
    <3>4. CASE ~exitAfterCkpt
      <4>1. Broadcast(Order("REGISTER_NAME_SERVICE_DATA")) /\ killInProgress' = killInProgress
        BY <2>4, <3>4 DEF AllCheckpointed
      <4> QED BY <2>3, <3>1, <3>2, <4>1
    <3> QED BY <3>3, <3>4
  <2>5. CASE AllRefilled(old, new)
    <3>1. k = DONE_QUERYING /\ Expected(j) = "RESUME" /\ "RESUME" \in Orders
      BY <1>7, <1>9, <2>5 DEF AllRefilled, Expected, Orders
    <3>2. Broadcast(Order("RESUME")) /\ killInProgress' = killInProgress
      BY <2>5 DEF AllRefilled
    <3> QED BY <2>3, <3>1, <3>2
  <2> QED BY <1>3, <2>1, <2>2, <2>4, <2>5
<1>11. /\ toWorker' \in [Workers -> Seq(Messages)]
       /\ \A v \in Workers : proc[v] # "alive" => toWorker'[v] = toWorker[v]
       /\ \A v \in Workers :
             toWorker[v] = <<>> \/ toWorker[v][1].type = "KILL_PEER" =>
                \/ toWorker'[v] = <<>>
                \/ toWorker'[v][1].type = "KILL_PEER"
                \/ toWorker'[v][1] = m /\ Len(toWorker'[v]) = 1
       /\ \A v \in Workers :
             (\E i \in 1 .. Len(toWorker[v]) : toWorker[v][i].type = "KILL_PEER") =>
                \E i \in 1 .. Len(toWorker'[v]) : toWorker'[v][i].type = "KILL_PEER"
       /\ m.type = "KILL_PEER" => \A v \in Workers : recorded'[v] # None /\ proc[v] = "alive" =>
             \E i \in 1 .. Len(toWorker'[v]) : toWorker'[v][i].type = "KILL_PEER"
  BY <1>1, <1>10, Broadcasting
<1>12. Ordered(j)'
  <2> SUFFICES ASSUME NEW v \in Alive PROVE Ordered(j)!(v)'
    BY <1>6 DEF Ordered
  <2>1. v \in Workers /\ state'[v] = j
    BY <1>5, <1>7 DEF Alive
  <2>2. \/ toWorker'[v] = <<>>
        \/ toWorker'[v][1].type = "KILL_PEER"
        \/ toWorker'[v][1] = m /\ Len(toWorker'[v]) = 1
    BY <1>7, <1>11, <2>1
  <2>3. ASSUME toWorker'[v][1] = m, j = SUSPENDED PROVE Fresh(toWorker[v][1].info)'
    <3>1. k = RUNNING
      BY <1>9, <2>3
    <3> QED BY <1>10, <2>3, <3>1 DEF Fresh
  <2>4. j # RESTARTING
    BY <1>9
  <2> HIDE DEF j
  <2> QED BY <1>10, <2>1, <2>2, <2>3, <2>4 DEF InPhase
<1>13. Recorded(j)'
  BY <1>5, <1>6, <1>7 DEF Recorded, InPhase, Alive, Clients
<1>14. Flagged(j)'
  <2>1. suspendSent' = FALSE
    <3>1. CASE k = RUNNING
      BY <1>3, <1>7, <3>1, PlainBarrierOrder
         DEF AllSuspended, PlainBarrier, AllCheckpointed, AllRefilled
    <3>2. CASE k # RUNNING
      <4>1. suspendSent' = suspendSent
        BY <1>3, <1>7, <3>2 DEF AllSuspended, PlainBarrier, AllCheckpointed, AllRefilled
      <4>2. ~suspendSent
        BY <1>5, <1>8, <3>2 DEF Flagged
      <4> QED BY <1>1, <4>1, <4>2 DEF TypeOK
    <3> QED BY <3>1, <3>2
  <2> QED BY <1>9, <2>1 DEF Flagged
<1>15. Written(j)'
  <2>1. \A v \in Workers : Fresh(info[v]) => Fresh(info[v])'
    BY <1>5, <1>6, FreshRecords
  <2>2. ASSUME NEW v \in Alive, j \in SUSPENDED .. DRAINED, j \in {FD_LEADER_ELECTION, DRAINED}
        PROVE  Fresh(info[v])'
    <3>1. k \in SUSPENDED .. DRAINED /\ state[v] \in {FD_LEADER_ELECTION, DRAINED} /\ v \in Workers
      BY <1>7, <1>9, <2>2 DEF Alive
    <3> QED BY <1>8, <2>1, <3>1 DEF Written
  <2>3. j \in RUNNING .. DRAINED => restartFilenames = {}
    BY <1>6, <1>8, <1>9 DEF Written
  <2>4. \A v \in Clients' : toCoord'[v] # BothReports
    BY <1>7, ReadReports DEF BothReports
  <2>5. \A v \in Alive : state'[v] = j
    BY <1>5, <1>7
  <2>6. \A v \in Clients' : proc'[v] = "alive" => v \in Alive
    BY <1>5 DEF Alive, Clients
  <2> HIDE DEF j
  <2>7. \A v \in Alive' : j \in SUSPENDED .. DRAINED /\ state'[v] \in {FD_LEADER_ELECTION, DRAINED}
            => Fresh(info[v])'
    BY <1>6, <2>2, <2>5
  <2> QED BY <1>5, <2>3, <2>4, <2>5, <2>6, <2>7 DEF Written
<1>16. Joined(j)'
  <2>1. IF k = DONE_QUERYING THEN isRestarting' = FALSE ELSE isRestarting' = isRestarting
    BY <1>3, <1>7, PlainBarrierOrder DEF AllSuspended, PlainBarrier, AllCheckpointed, AllRefilled
  <2>2. \/ k = DRAINED /\ script'.compId = compId /\ script'.generation = generation
        \/ k # DRAINED /\ script' = script
    BY <1>3, <1>7, PlainBarrierOrder DEF AllSuspended, PlainBarrier, AllCheckpointed, AllRefilled, RestartScript
  <2>3. \A v \in toRestart : image[v].compId # compId
    BY <1>6, <1>7, <1>8 DEF Joined
  <2>4. generation \in Nat
    BY <1>1 DEF TypeOK
  <2>5. j \in (RUNNING .. DRAINED) \cup {REFILLED} => (isRestarting' => numPeers = None)
    <3>1. CASE k = DONE_QUERYING
      BY <2>1, <3>1
    <3>2. CASE k # DONE_QUERYING /\ j \in (RUNNING .. DRAINED) \cup {REFILLED}
      <4>1. k \in RUNNING .. DRAINED
        BY <1>9, <3>2
      <4> QED BY <1>6, <1>8, <2>1, <3>2, <4>1 DEF Joined
    <3> QED BY <3>1, <3>2
  <2>6. script'.compId = compId =>
              /\ script'.generation <= generation
              /\ j \in RUNNING .. DRAINED => script'.generation # generation
    BY <1>6, <1>8, <1>9, <2>2, <2>4 DEF Joined
  <2>7. j # RESTARTING
    BY <1>9
  <2> HIDE DEF j
  <2> QED BY <1>5, <1>6, <2>3, <2>5, <2>6, <2>7 DEF Joined
<1>17. /\ cmd' \in [Cmds -> CmdStates]
       /\ \A c \in Cmds : cmd'[c] = "waiting" => cmd[c] = "waiting" /\ k # DRAINED
       /\ \A c \in Cmds : cmd'[c] = "early" => \/ cmd[c] = "early"
                                               \/ k = DONE_QUERYING /\ cmd[c] = "waiting"
  <2>1. CASE AllSuspended(old, new) \/ PlainBarrier(old, new)
    <3>1. cmd' = cmd /\ k # DRAINED
      BY <1>7, <2>1, PlainBarrierOrder DEF AllSuspended, PlainBarrier
    <3> QED BY <1>1, <3>1 DEF TypeOK
  <2>2. CASE AllCheckpointed(old, new)
    BY <1>1, <1>7, <2>2 DEF AllCheckpointed, TypeOK, CmdStates, Pending
  <2>3. CASE AllRefilled(old, new)
    BY <1>1, <1>7, <2>3 DEF AllRefilled, TypeOK, CmdStates, Pending, Replied
  <2> QED BY <1>3, <2>1, <2>2, <2>3
<1>18. Waits(j)'
  <2>1. ASSUME ExitOnLast \/ MaxRuns <= 1, j \in RESTARTING .. DONE_QUERYING, NEW c \in Cmds
        PROVE  cmd'[c] # "waiting"
    BY <1>6, <1>8, <1>9, <1>17, <2>1 DEF Waits
  <2> HIDE DEF j
  <2> QED BY <1>5, <1>6, <1>8, <2>1 DEF Waits
<1>19. ExitOnLast \/ MaxRuns <= 1 => NoEarlyAnswer'
  BY <1>1, <1>6, <1>8, <1>17 DEF NoEarlyAnswer, Waits
<1>20. History'
  <2>1. CASE script' = script
    BY <1>1, <1>5, <1>6, <2>1, SameHistory
  <2>2. CASE script' # script
    <3>1. k = DRAINED /\ RestartScript
      BY <1>3, <1>7, <2>2 DEF AllSuspended, PlainBarrier, AllCheckpointed, AllRefilled
    <3>2. script'.compId = compId /\ script'.files = restartFilenames
      BY <3>1 DEF RestartScript
    <3>3. \A v \in toRestart : image[v].compId # compId
      BY <1>6, <1>8, <3>1 DEF Joined
    <3>4. Cardinality(restartFilenames) <= Cardinality(Clients \cup restartFilenames)
          /\ Cardinality(restartFilenames) \in Nat
          /\ Cardinality(Clients \cup restartFilenames) \in Nat
      BY <1>1, FiniteClients, FS_Subset, FS_CardinalityType
    <3>5. ASSUME NEW v \in restartFilenames PROVE Cardinality(restartFilenames) <= image[v].numPeers
      <4>1. PICK i : i = image[v]
        OBVIOUS
      <4>2. Fresh(i)
        BY <1>6, <1>8, <3>1, <3>5, <4>1 DEF Written
      <4>3. i.numPeers \in Int /\ i.numPeers >= Cardinality(Clients \cup restartFilenames)
        BY <4>2 DEF Fresh, Infos
      <4> QED BY <3>4, <4>1, <4>3
    <3> QED BY <1>1, <1>5, <1>6, <3>2, <3>3, <3>5 DEF History, Known
  <2> QED BY <2>1, <2>2
<1>21. TypeOK'
  <2>1. suspendSent' \in BOOLEAN /\ isRestarting' \in BOOLEAN /\ exitAfterCkpt' \in BOOLEAN
        /\ blockUntilDone' \in BOOLEAN
    BY <1>1, <1>3 DEF TypeOK, AllSuspended, PlainBarrier, AllCheckpointed, AllRefilled
  <2>2. killInProgress' \in BOOLEAN
    BY <1>1, <1>3 DEF TypeOK, AllSuspended, PlainBarrier, AllCheckpointed, AllRefilled, BroadcastKill
  <2>3. blockUntilDoneRemote' \in Cmds \cup {None}
    BY <1>1, <1>3 DEF TypeOK, AllSuspended, PlainBarrier, AllCheckpointed, AllRefilled
  <2>4. script' \in [compId : CompIds, generation : Nat, files : SUBSET Workers]
    BY <1>1, <1>3 DEF TypeOK, AllSuspended, PlainBarrier, AllCheckpointed, AllRefilled, RestartScript
  <2> QED BY <1>1, <1>5, <1>6, <1>11, <1>17, <2>1, <2>2, <2>3, <2>4 DEF TypeOK
<1>22. Membership'
  BY <1>1, <1>5, <1>6, <1>11 DEF Membership, Clients
<1>23. KillReachesAll'
  BY <1>1, <1>5, <1>6, <1>10, <1>11 DEF KillReachesAll, Clients, Alive
<1>24. j \in Phases
  BY NextStates
<1> HIDE DEF j
<1> QED BY <1>12, <1>13, <1>14, <1>15, <1>16, <1>18, <1>19, <1>20, <1>21, <1>22, <1>23, <1>24
    DEF IndInv, Phase

(* onData and onDisconnect: in both the coordinator hears from a client.    *)
LEMMA ReportHeard ==
    ASSUME IndInv, NEW k \in Phases, Phase(k), NEW w \in Workers, OnData(w),
           Head(toCoord[w]).type # "CKPT_FILENAME"
    PROVE  Heard(w, NextState(k)) /\ Speaks(k, w, NextState(k))
<1>1. up /\ w \in Clients /\ toCoord[w] # <<>>
  BY DEF OnData, Clients
<1>2. PICK r, a, b : r = Report(NextState(k)) /\ a = Filename /\ b = Report(CHECKPOINTED)
  OBVIOUS
<1>3. Head(<<a, b>>) = a /\ Head(<<r>>) = r /\ Tail(<<r>>) = <<>>
  BY ReadReports
<1>4. a.type = "CKPT_FILENAME" /\ r.state = NextState(k)
  BY <1>2 DEF Filename, Report
<1>5. toCoord[w] # BothReports
  BY <1>2, <1>3, <1>4 DEF BothReports
<1>6. toCoord[w] = <<r>>
  BY <1>1, <1>2, <1>5 DEF Phase, Recorded
<1>7. /\ toCoord' = [toCoord EXCEPT ![w] = <<>>]
      /\ recorded' = [recorded EXCEPT ![w] = NextState(k)]
      /\ UpdateMinimumState(recorded[w])
      /\ UNCHANGED <<up, interval, procVars, image, userVars>>
  BY <1>3, <1>4, <1>6 DEF OnData
<1> QED BY <1>1, <1>2, <1>6, <1>7 DEF Heard, Speaks

(* A client that has gone, and was not the last.                            *)
LEMMA DepartureHeard ==
    ASSUME NEW k, NEW w \in Workers, OnDisconnect(w), Clients # {w}
    PROVE  Heard(w, None) /\ Speaks(k, w, None)
BY DEF OnDisconnect, Heard, Speaks, Clients

(* Every message of a client.                                               *)
LEMMA OnDataStep == ASSUME IndInv, NEW w \in Workers, OnData(w) PROVE IndInv'
<1>1. PICK k \in Phases : Phase(k)
  BY DEF IndInv
<1>2. CASE Head(toCoord[w]).type = "CKPT_FILENAME"
  BY <1>2, FilenameStep
<1>3. CASE Head(toCoord[w]).type # "CKPT_FILENAME"
  <2>1. Heard(w, NextState(k)) /\ Speaks(k, w, NextState(k))
    BY <1>1, <1>3, ReportHeard
  <2> QED BY <1>1, <2>1, StayStep, CrossStep
<1> QED BY <1>2, <1>3

(* Every end of a connection.                                               *)
LEMMA OnDisconnectStep == ASSUME IndInv, NEW w \in Workers, OnDisconnect(w) PROVE IndInv'
<1>1. PICK k \in Phases : Phase(k)
  BY DEF IndInv
<1>2. CASE Clients = {w}
  BY <1>2, LastDisconnectStep
<1>3. CASE Clients # {w}
  <2>1. Heard(w, None) /\ Speaks(k, w, None)
    BY <1>3, DepartureHeard
  <2> QED BY <1>1, <2>1, StayStep, CrossStep
<1> QED BY <1>2, <1>3

------------------------------------------------------------------------------
(* A coordinator without clients is in the phase of a running computation.  *)
LEMMA InitIndInv == Init => IndInv
<1> SUFFICES ASSUME Init PROVE IndInv
  OBVIOUS
<1> USE DEF Init
<1>1. Clients = {} /\ Alive = {} /\ ~Busy
  BY DEF Clients, Alive, Busy
<1>2. NoComp \in CompIds /\ NoComp[2] = 0 /\ NoInfo \in Infos /\ NoInfo.compId = NoComp
  BY DEF NoComp, CompIds, NoInfo, Infos
<1>3. TypeOK
  <2>1. toWorker \in [Workers -> Seq(Messages)] /\ toCoord \in [Workers -> Seq(Reports)]
    BY EmptySeq
  <2>2. recorded \in [Workers -> WorkerStates \cup {None}] /\ state \in [Workers -> WorkerStates]
    BY DEF WorkerStates
  <2>3. script \in [compId : CompIds, generation : Nat, files : SUBSET Workers]
        /\ info \in [Workers -> Infos] /\ image \in [Workers -> Infos]
    BY <1>2
  <2>4. cmd \in [Cmds -> CmdStates]
    BY DEF CmdStates
  <2>5. up \in BOOLEAN /\ suspendSent \in BOOLEAN /\ killInProgress \in BOOLEAN
        /\ isRestarting \in BOOLEAN /\ interval \in BOOLEAN /\ blockUntilDone \in BOOLEAN
        /\ exitAfterCkpt \in BOOLEAN
    BY CoordinatorAssumption
  <2>6. proc \in [Workers -> {"absent", "alive", "dead"}] /\ numPeers \in Int /\ compId \in CompIds
        /\ generation \in Nat /\ blockUntilDoneRemote \in Cmds \cup {None} /\ runs \in Nat
        /\ restartFilenames \in SUBSET Workers /\ toRestart \in SUBSET Workers
    BY <1>2
  <2> HIDE DEF Init
  <2> QED BY <2>1, <2>2, <2>3, <2>4, <2>5, <2>6 DEF TypeOK
<1>4. Membership /\ KillReachesAll
  BY <1>1 DEF Membership, KillReachesAll
<1>5. History /\ NoEarlyAnswer
  BY <1>2 DEF History, Known, NoEarlyAnswer
<1>6. Recorded(REFILLED) /\ Ordered(REFILLED) /\ Flagged(REFILLED)
  BY <1>1 DEF Recorded, Ordered, Flagged
<1>7. Written(REFILLED) /\ Joined(REFILLED) /\ Waits(REFILLED)
  BY <1>1 DEF Written, Joined, Waits
<1> QED BY <1>3, <1>4, <1>5, <1>6, <1>7 DEF IndInv, Phase, Phases

(* Every step of the system leads from a phase to a phase.                  *)
LEMMA NextIndInv == ASSUME ~LateLaunch, IndInv, [Next]_vars PROVE IndInv'
<1>1. CASE CoordinatorStep
  BY <1>1, OnDataStep, OnDisconnectStep, StartSteps DEF CoordinatorStep
<1>2. CASE CommandStep
  BY <1>2, QuietCommands, StartSteps, SendKillStep, SendQuitStep DEF CommandStep
<1>3. CASE WorkerStep
  <2>1. PICK w \in Workers :
        \/ Launch(w) \/ (\E p \in Workers : Fork(p, w)) \/ ForkRefused(w)
        \/ Restart(w) \/ RestartRefused(w) \/ WorkerStarts(w) \/ Restored(w)
        \/ Obey(w) \/ ObeyKill(w) \/ Finish(w) \/ Crash(w)
    BY <1>3 DEF WorkerStep
  <2>2. CASE Launch(w) \/ (\E p \in Workers : Fork(p, w))
    BY <2>2, NewWorkerSteps
  <2>3. CASE ForkRefused(w) \/ ObeyKill(w) \/ Finish(w) \/ Crash(w)
    BY <2>3, DeathSteps
  <2>4. CASE Restart(w) \/ RestartRefused(w)
    BY <2>4, RestartStep, RestartRefusedStep
  <2>5. CASE WorkerStarts(w) \/ Restored(w) \/ Obey(w)
    BY <2>5, BeginSteps, ObeyStep
  <2> QED BY <2>1, <2>2, <2>3, <2>4, <2>5
<1>4. CASE NextRun
  BY <1>4, NextRunStep
<1>5. CASE UNCHANGED vars
  BY <1>5, StutterStep
<1> QED BY <1>1, <1>2, <1>3, <1>4, <1>5 DEF Next

(* The coordinator, its processes and the sockets between them are always   *)
(* in some phase, for any number of processes, commands and computations,   *)
(* and wherever processes die.  Nobody launches into a computation that is  *)
(* being suspended: a launched process that dies before its first report    *)
(* would leave the barrier unnoticed.                                       *)
THEOREM IndInvHolds == ASSUME ~LateLaunch PROVE Spec => []IndInv
<1>1. Init => IndInv
  BY InitIndInv
<1>2. IndInv /\ [Next]_vars => IndInv'
  BY NextIndInv
<1> QED BY <1>1, <1>2, PTL DEF Spec

(* waitForCoordinatorMsg's assertion never fails.                           *)
THEOREM InStep == ASSUME ~LateLaunch PROVE Spec => []OnlyExpectedOrders
<1>1. IndInv => OnlyExpectedOrders
  <2> SUFFICES ASSUME IndInv, NEW w \in Listening, toWorker[w] # <<>>
               PROVE  Head(toWorker[w]).type \in {Expected(state[w]), "KILL_PEER"}
    BY DEF OnlyExpectedOrders
  <2>1. PICK k \in Phases : Ordered(k)
    BY DEF IndInv, Phase
  <2>2. w \in Alive /\ w \in Workers
    BY DEF Listening, Alive
  <2>3. toWorker[w][1].type \in {Expected(state[w]), "KILL_PEER"}
    BY <2>1, <2>2 DEF Ordered
  <2>4. PICK q \in Seq(Messages) : q = toWorker[w]
    BY <2>2 DEF IndInv, TypeOK
  <2>5. Head(q) = q[1]
    BY <2>4, HeadTailProperties
  <2> QED BY <2>3, <2>4, <2>5
<1> QED BY <1>1, IndInvHolds, PTL

(* validateNewWorkerProcess's assertion never fails, and the variables keep *)
(* their types.                                                             *)
THEOREM FlagMeansPending == ASSUME ~LateLaunch PROVE Spec => []SuspendFlagMeansPending
<1>1. IndInv => SuspendFlagMeansPending
  <2> SUFFICES ASSUME IndInv
               PROVE TypeOK /\ (up /\ suspendSent /\ Clients # {} => MinimumState(recorded) # SUSPENDED)
    BY DEF SuspendFlagMeansPending
  <2>1. TypeOK
    BY DEF IndInv
  <2>2. ASSUME suspendSent, Clients # {} PROVE MinimumState(recorded) # SUSPENDED
    <3>1. PICK v \in Clients : recorded[v] = RUNNING
      BY <2>2 DEF IndInv, Phase, Flagged
    <3>2. PICK r \in [Workers -> WorkerStates \cup {None}] : r = recorded
      BY <2>1 DEF TypeOK
    <3>3. v \in Workers /\ r[v] # None /\ r[v] = RUNNING
      BY <3>1, <3>2 DEF Clients
    <3>4. MinimumState(r) # SUSPENDED
      BY <3>3, MinState
    <3> QED BY <3>2, <3>4
  <2> QED BY <2>1, <2>2
<1> QED BY <1>1, IndInvHolds, PTL

(* A kill that is in progress has reached, or will reach, every process.    *)
THEOREM KillIsEverywhere == ASSUME ~LateLaunch PROVE Spec => []KillReachesAll
<1>1. IndInv => KillReachesAll
  BY DEF IndInv
<1> QED BY <1>1, IndInvHolds, PTL

(* The images of one checkpoint are a consistent cut: while one process is  *)
(* between the leader election and the end of the refill, none runs.        *)
THEOREM ConsistentCut == ASSUME ~LateLaunch PROVE Spec => []NobodyRunsDuringCheckpoint
<1>1. IndInv => NobodyRunsDuringCheckpoint
  <2> SUFFICES ASSUME IndInv, NEW v \in Alive, NEW w \in Alive,
                      state[v] \in (FD_LEADER_ELECTION .. DONE_QUERYING)
               PROVE  state[w] \notin {UNKNOWN, RUNNING}
    BY DEF NobodyRunsDuringCheckpoint
  <2>1. PICK k \in Phases : Ordered(k)
    BY DEF IndInv, Phase
  <2>2. InPhase(k, state[v]) /\ InPhase(k, state[w])
    BY <2>1 DEF Ordered
  <2> QED BY <2>2, NextStates DEF InPhase, Phases
<1> QED BY <1>1, IndInvHolds, PTL

(* A blocking command whose checkpoint was started is not answered before   *)
(* the restart script is written, if the coordinator exits with its last    *)
(* client or serves one computation only.                                   *)
THEOREM AnswersAreNotEarly ==
    ASSUME ~LateLaunch, ExitOnLast \/ MaxRuns <= 1 PROVE Spec => []NoEarlyAnswer
<1>1. IndInv => NoEarlyAnswer
  BY DEF IndInv
<1> QED BY <1>1, IndInvHolds, PTL

------------------------------------------------------------------------------
(* Only the barrier behind DRAINED writes a restart script.                 *)
LEMMA WritesScript ==
    ASSUME Next, script' # script
    PROVE  \E w \in Workers :
              /\ \/ OnData(w) /\ Head(toCoord[w]).type # "CKPT_FILENAME"
                 \/ OnDisconnect(w) /\ Clients # {w}
              /\ AllCheckpointed(recorded[w], MinimumState(recorded'))
<1> USE DEF compVars, blockVars, procVars, userVars, diskVars, coordVars
<1>1. ~CommandStep
  BY DEF CommandStep, SendPrefix, SendCheckpoint, SendInterval, SendKill, SendQuit, CommandFails
<1>2. ~NextRun
  BY DEF NextRun
<1>3. ~WorkerStep
  <2>1. \A w \in Workers : ~Launch(w) /\ ~ForkRefused(w) /\ \A p \in Workers : ~Fork(p, w)
    BY DEF Launch, Fork, ForkRefused, AcceptNewWorker
  <2>2. \A w \in Workers : ~Restart(w) /\ ~RestartRefused(w) /\ ~WorkerStarts(w) /\ ~Restored(w)
    BY DEF Restart, RestartRefused, WorkerStarts, Restored
  <2>3. \A w \in Workers : ~Obey(w) /\ ~ObeyKill(w) /\ ~Finish(w) /\ ~Crash(w)
    BY DEF Obey, ObeyKill, Finish, Crash
  <2> QED BY <2>1, <2>2, <2>3 DEF WorkerStep
<1>4. ~OnTimeoutInterval
  BY DEF OnTimeoutInterval
<1>5. PICK w \in Workers : OnData(w) \/ OnDisconnect(w)
  BY <1>1, <1>2, <1>3, <1>4 DEF Next, CoordinatorStep
<1>6. ASSUME UpdateMinimumState(recorded[w])
      PROVE  AllCheckpointed(recorded[w], MinimumState(recorded'))
  BY <1>6 DEF UpdateMinimumState, AllSuspended, PlainBarrier, AllRefilled, NoBarrier
<1>7. CASE OnData(w)
  <2>1. Head(toCoord[w]).type = "OK" /\ UpdateMinimumState(recorded[w])
    BY <1>7 DEF OnData
  <2>2. Head(toCoord[w]).type # "CKPT_FILENAME"
    BY <2>1
  <2>3. AllCheckpointed(recorded[w], MinimumState(recorded'))
    BY <1>6, <2>1
  <2> QED BY <1>7, <2>2, <2>3
<1>8. CASE OnDisconnect(w)
  <2>1. Clients # {w} /\ UpdateMinimumState(recorded[w])
    BY <1>8 DEF OnDisconnect
  <2> QED BY <1>6, <1>8, <2>1
<1> QED BY <1>5, <1>7, <1>8

(* A restart script names a fresh image of every process that is alive, and *)
(* is written while all of them stand at the barrier.                       *)
THEOREM ScriptsAreComplete == ASSUME ~LateLaunch PROVE Spec => ScriptIsComplete
<1>1. ASSUME IndInv, Next, script' # script
      PROVE  /\ Clients \subseteq script'.files \cup {w \in Workers : proc[w] = "dead"}
             /\ \A w \in script'.files : image[w].generation = generation
             /\ \A w \in Clients \cap Alive : state[w] = CHECKPOINTED
  <2>1. PICK w \in Workers :
              /\ \/ OnData(w) /\ Head(toCoord[w]).type # "CKPT_FILENAME"
                 \/ OnDisconnect(w) /\ Clients # {w}
              /\ AllCheckpointed(recorded[w], MinimumState(recorded'))
    BY <1>1, WritesScript
  <2>2. PICK k \in Phases : Phase(k)
    BY <1>1 DEF IndInv
  <2>3. PICK s : Heard(w, s) /\ Speaks(k, w, s)
    BY <1>1, <2>1, <2>2, ReportHeard, DepartureHeard
  <2>4. /\ recorded[w] = DRAINED /\ MinimumState(recorded') = NextState(recorded[w])
        /\ script'.files = restartFilenames
    BY <2>1 DEF AllCheckpointed, NextState, RestartScript
  <2>5. /\ recorded[w] = k
        /\ \A v \in Alive : state[v] = NextState(k)
        /\ \A v \in Clients : toCoord[v] # BothReports \/ proc[v] = "dead"
    BY <1>1, <2>2, <2>3, <2>4, CrossedFacts
  <2>6. k = DRAINED /\ NextState(k) = CHECKPOINTED /\ Written(k) /\ Busy
    BY <2>2, <2>3, <2>4, <2>5 DEF NextState, Phase, Heard, Busy
  <2>7. \A v \in restartFilenames : image[v].generation = generation
    BY <2>6 DEF Written, Fresh
  <2>8. proc \in [Workers -> {"absent", "alive", "dead"}] /\ \A v \in Clients : proc[v] # "absent"
    BY <1>1 DEF IndInv, TypeOK, Membership
  <2>9. \A v \in Clients : proc[v] = "dead" \/ v \in restartFilenames
    BY <2>5, <2>6, <2>8 DEF Written, Alive, Clients
  <2> QED BY <2>4, <2>5, <2>6, <2>7, <2>9 DEF Clients
<1>2. IndInv /\ [Next]_vars =>
        [script' # script =>
            /\ Clients \subseteq script'.files \cup {w \in Workers : proc[w] = "dead"}
            /\ \A w \in script'.files : image[w].generation = generation
            /\ \A w \in Clients \cap Alive : state[w] = CHECKPOINTED]_vars
  BY <1>1
<1> QED BY <1>2, IndInvHolds, PTL DEF Spec, ScriptIsComplete

------------------------------------------------------------------------------
(* Where no process crashes inside a checkpoint and nobody asks for a kill, *)
(* the only deaths are those of processes that run, or begin to, and of all *)
(* of them after an 'x' command, when the restart script has been written.  *)
NobodyKills ==
    CrashStates \subseteq {UNKNOWN, RUNNING} /\ \A c \in Cmds : Requests[c] \cap {"k", "q"} = {}

NoKills ==
    \A w \in Workers : \A i \in 1 .. Len(toWorker[w]) : toWorker[w][i].type # "KILL_PEER"

KillsAfterImages ==
    /\ killInProgress =>
          /\ \A w \in Clients : recorded[w] = CHECKPOINTED /\ toCoord[w] = <<>>
          /\ \A w \in Alive : toWorker[w] # <<>> /\ toWorker[w][1].type = "KILL_PEER"
    /\ ~killInProgress => NoKills

GoneWhileRunning ==
    \A w \in Clients :
        proc[w] = "dead" /\ ~killInProgress =>
            /\ recorded[w] \in {UNKNOWN, RUNNING, REFILLED}
            /\ toCoord[w] \in {<<>>, <<Report(RUNNING)>>}

(* No process has learned of more peers than still take part.               *)
Within(i) == i.numPeers <= Cardinality(Clients)

NobodyLost ==
    /\ \A w \in Alive :
         /\ state[w] \in {FD_LEADER_ELECTION, DRAINED} => Within(info[w])
         /\ toWorker[w] # <<>> /\ toWorker[w][1].type = "FD_LEADER_ELECTION"
               => Within(toWorker[w][1].info)
    /\ \A w \in Clients : toCoord[w] = BothReports => Within(image[w])
    /\ (\E w \in Clients : recorded[w] = DRAINED) =>
          \A w \in restartFilenames : Within(image[w])

Lossless == KillsAfterImages /\ GoneWhileRunning /\ NobodyLost

(* A step that leaves the processes alone.                                  *)
LEMMA SameLossless ==
    ASSUME Lossless, UNCHANGED <<killInProgress, recorded, toCoord, toWorker, proc, state, info,
                                 image, restartFilenames>>
    PROVE  Lossless'
<1>1. KillsAfterImages'
  BY DEF Lossless, KillsAfterImages, NoKills, Clients, Alive
<1>2. GoneWhileRunning'
  BY DEF Lossless, GoneWhileRunning, Clients
<1>3. NobodyLost'
  BY DEF Lossless, NobodyLost, Within, Clients, Alive
<1> QED BY <1>1, <1>2, <1>3 DEF Lossless

(* Nobody is left: there is nothing to say.                                 *)
Vacant == Clients = {} /\ Alive = {} /\ \A w \in Workers : toWorker[w] = <<>>

LEMMA EmptyLossless == Vacant => Lossless
<1> SUFFICES ASSUME Vacant PROVE Lossless
  OBVIOUS
<1> USE DEF Vacant
<1>1. NoKills
  BY DEF NoKills
<1> QED BY <1>1 DEF Lossless, KillsAfterImages, GoneWhileRunning, NobodyLost

(* The numbers of peers are numbers.                                        *)
LEMMA PeersAreNumbers ==
    ASSUME TypeOK
    PROVE  /\ \A w \in Workers : info[w].numPeers \in Int /\ image[w].numPeers \in Int
           /\ \A w \in Workers : toWorker[w] # <<>> => toWorker[w][1].info.numPeers \in Int
           /\ Cardinality(Clients) \in Nat
<1>1. \A w \in Workers : info[w].numPeers \in Int /\ image[w].numPeers \in Int
  BY DEF TypeOK, Infos
<1>2. ASSUME NEW w \in Workers, toWorker[w] # <<>> PROVE toWorker[w][1].info.numPeers \in Int
  <2>1. PICK q \in Seq(Messages) : q = toWorker[w]
    BY DEF TypeOK
  <2>2. q[1] \in Messages
    BY <1>2, <2>1, EmptySeq, LenProperties, ElementOfSeq
  <2> QED BY <2>1, <2>2 DEF Messages, Infos
<1> QED BY <1>1, <1>2, FiniteClients

(* More clients: what was within their number still is.                     *)
LEMMA MoreClients ==
    ASSUME TypeOK, TypeOK', Clients \subseteq Clients'
    PROVE  /\ Cardinality(Clients) <= Cardinality(Clients')
           /\ Cardinality(Clients) \in Nat /\ Cardinality(Clients') \in Nat
<1>1. IsFiniteSet(Workers) /\ Clients' \subseteq Workers
  BY CoordinatorAssumption DEF Clients
<1>2. PICK A : A = Clients'
  OBVIOUS
<1>3. IsFiniteSet(A) /\ Clients \subseteq A
  BY <1>1, <1>2, FS_Subset
<1> QED BY <1>2, <1>3, FS_Subset, FS_CardinalityType

(* An order other than KILL is sent to all.                                 *)
LEMMA OrderSent ==
    ASSUME TypeOK, NEW m \in Messages, m.type # "KILL_PEER", Broadcast(m), NoKills
    PROVE  /\ NoKills'
           /\ \A w \in Workers : toWorker'[w] # <<>> =>
                 \/ toWorker'[w][1] = m
                 \/ toWorker[w] # <<>> /\ toWorker'[w][1] = toWorker[w][1]
<1>1. ASSUME NEW w \in Workers
      PROVE  /\ \A i \in 1 .. Len(toWorker'[w]) : toWorker'[w][i].type # "KILL_PEER"
             /\ toWorker'[w] # <<>> =>
                 \/ toWorker'[w][1] = m
                 \/ toWorker[w] # <<>> /\ toWorker'[w][1] = toWorker[w][1]
  <2>1. PICK q \in Seq(Messages) : q = toWorker[w]
    BY DEF TypeOK
  <2>2. \A i \in 1 .. Len(q) : q[i].type # "KILL_PEER"
    BY <2>1 DEF NoKills
  <2>3. CASE toWorker'[w] = q
    BY <2>1, <2>2, <2>3
  <2>4. CASE toWorker'[w] = Append(q, m)
    <3>1. /\ Len(Append(q, m)) = Len(q) + 1 /\ Len(q) \in Nat
          /\ \A i \in 1 .. Len(q) : Append(q, m)[i] = q[i]
          /\ Append(q, m)[Len(q) + 1] = m
          /\ q # <<>> => Append(q, m)[1] = q[1]
          /\ q = <<>> => Append(q, m)[1] = m
      BY AppendMessage
    <3>2. \A i \in 1 .. Len(Append(q, m)) : i \in 1 .. Len(q) \/ i = Len(q) + 1
      BY <3>1
    <3>3. \A i \in 1 .. Len(Append(q, m)) : Append(q, m)[i].type # "KILL_PEER"
      BY <2>2, <3>1, <3>2
    <3> QED BY <2>1, <2>4, <3>1, <3>3
  <2> QED BY <2>1, <2>3, <2>4 DEF Broadcast
<1> QED BY <1>1 DEF NoKills

(* Orders are messages.                                                     *)
LEMMA OrdersAreMessages == \A t \in Orders : Order(t) \in Messages /\ Order(t).type = t
BY DEF Order, Messages, NoInfo, Infos, NoComp, CompIds

(* After an 'x' command all processes stand behind their images.            *)
LEMMA KilledStandStill ==
    ASSUME IndInv, Lossless, killInProgress, up
    PROVE  \A w \in Alive : w \in Clients /\ state[w] = CHECKPOINTED
<1>1. PICK k \in Phases : Phase(k)
  BY DEF IndInv
<1> QED BY <1>1 DEF IndInv, Membership, Phase, Recorded, Lossless, KillsAfterImages, Alive, Clients

(* A checkpoint is started.                                                 *)
LEMMA StartLossless ==
    ASSUME IndInv, Lossless, MayStart, StartCheckpoint,
           UNCHANGED <<killInProgress, toCoord, proc, state, info, image>>
    PROVE  Lossless'
<1>1. TypeOK
  BY DEF IndInv
<1>2. Clients # {} /\ \A v \in Clients : recorded[v] = RUNNING
  BY <1>1, MayStartFacts
<1>3. ~killInProgress /\ NoKills
  BY <1>2 DEF Lossless, KillsAfterImages
<1>4. /\ recorded' = recorded /\ restartFilenames' = {} /\ Broadcast(Order("SUSPEND"))
      /\ Order("SUSPEND") \in Messages /\ Order("SUSPEND").type = "SUSPEND"
  BY OrdersAreMessages DEF StartCheckpoint, Orders
<1>5. /\ NoKills'
      /\ \A w \in Workers : toWorker'[w] # <<>> =>
            \/ toWorker'[w][1] = Order("SUSPEND")
            \/ toWorker[w] # <<>> /\ toWorker'[w][1] = toWorker[w][1]
  BY <1>1, <1>3, <1>4, OrderSent
<1>6. Clients' = Clients /\ Alive' = Alive
  BY <1>4 DEF Clients, Alive
<1>7. KillsAfterImages' /\ GoneWhileRunning'
  BY <1>3, <1>4, <1>5, <1>6 DEF Lossless, KillsAfterImages, GoneWhileRunning
<1>8. NobodyLost'
  BY <1>4, <1>5, <1>6 DEF Lossless, NobodyLost, Within, Alive
<1> QED BY <1>7, <1>8 DEF Lossless

(* Commands.                                                                *)
LEMMA CommandLossless ==
    ASSUME NobodyKills, IndInv, Lossless, CommandStep \/ OnTimeoutInterval
    PROVE  Lossless'
<1> USE DEF procVars, diskVars, compVars
<1>1. CASE OnTimeoutInterval
  BY <1>1, StartLossless DEF OnTimeoutInterval
<1>2. ASSUME NEW c \in Cmds, SendPrefix(c) \/ SendInterval(c) \/ CommandFails(c) PROVE Lossless'
  BY <1>2, SameLossless DEF SendPrefix, SendInterval, CommandFails
<1>3. ASSUME NEW c \in Cmds, SendCheckpoint(c) PROVE Lossless'
  <2>1. CASE MayStart
    BY <1>3, <2>1, StartLossless DEF SendCheckpoint
  <2>2. CASE ~MayStart
    BY <1>3, <2>2, SameLossless DEF SendCheckpoint
  <2> QED BY <2>1, <2>2
<1>4. ASSUME NEW c \in Cmds PROVE ~SendKill(c) /\ ~SendQuit(c)
  BY DEF NobodyKills, SendKill, SendQuit
<1> QED BY <1>1, <1>2, <1>3, <1>4 DEF CommandStep

(* A process joins, or is started again: w, which runs or is RESTARTING.     *)
LEMMA JoinLossless ==
    ASSUME TypeOK, TypeOK', Membership, Lossless, NEW w \in Workers, up, proc[w] = "absent",
           ~killInProgress, ~killInProgress',
           NEW s \in {UNKNOWN, RUNNING, RESTARTING},
           recorded' = [recorded EXCEPT ![w] = s],
           proc' = [proc EXCEPT ![w] = "alive"],
           state' = [state EXCEPT ![w] = s],
           \A v \in Workers : v # w => info'[v] = info[v] /\ toWorker'[v] = toWorker[v],
           toWorker'[w] \in {<<>>, <<Order("SUSPEND")>>},
           UNCHANGED <<toCoord, image, restartFilenames>>
    PROVE  Lossless'
<1>1. w \notin Clients /\ toCoord[w] = <<>>
  BY DEF Membership
<1>2. /\ Clients' = Clients \cup {w} /\ Alive' = Alive \cup {w}
      /\ recorded'[w] = s /\ state'[w] = s /\ proc'[w] = "alive"
      /\ \A v \in Workers : v # w => recorded'[v] = recorded[v] /\ state'[v] = state[v]
                                     /\ proc'[v] = proc[v]
  BY DEF TypeOK, Clients, Alive
<1>3. PICK m : m = Order("SUSPEND") /\ m.type = "SUSPEND"
  BY OrdersAreMessages DEF Orders
<1>4. <<m>>[1] = m /\ Len(<<m>>) = 1 /\ Len(<<>>) = 0
  OBVIOUS
<1>5. /\ \A i \in 1 .. Len(toWorker'[w]) : toWorker'[w][i].type # "KILL_PEER"
      /\ toWorker'[w] # <<>> => toWorker'[w][1].type # "FD_LEADER_ELECTION"
  BY <1>3, <1>4
<1>6. KillsAfterImages'
  BY <1>5 DEF Lossless, KillsAfterImages, NoKills
<1>7. GoneWhileRunning'
  BY <1>2 DEF Lossless, GoneWhileRunning, Clients
<1>8. /\ Cardinality(Clients) <= Cardinality(Clients')
      /\ Cardinality(Clients) \in Nat /\ Cardinality(Clients') \in Nat
  BY <1>2, MoreClients
<1>9. /\ \A v \in Workers : info[v].numPeers \in Int /\ image[v].numPeers \in Int
      /\ \A v \in Workers : toWorker[v] # <<>> => toWorker[v][1].info.numPeers \in Int
  BY PeersAreNumbers
<1>10. NobodyLost'
  <2>1. ASSUME NEW v \in Alive'
        PROVE  /\ state'[v] \in {FD_LEADER_ELECTION, DRAINED} => Within(info[v])'
               /\ toWorker'[v] # <<>> /\ toWorker'[v][1].type = "FD_LEADER_ELECTION"
                     => Within(toWorker[v][1].info)'
    <3>1. CASE v = w
      BY <1>2, <1>5, <3>1
    <3>2. CASE v # w
      <4>1. v \in Alive /\ v \in Workers /\ info'[v] = info[v] /\ toWorker'[v] = toWorker[v]
            /\ state'[v] = state[v]
        BY <1>2, <2>1, <3>2 DEF Alive
      <4> QED BY <1>8, <1>9, <4>1 DEF Lossless, NobodyLost, Within
    <3> QED BY <3>1, <3>2
  <2>2. ASSUME NEW v \in Workers, Within(image[v]) PROVE Within(image[v])'
    BY <1>8, <1>9, <2>2 DEF Within
  <2>3. BothReports # <<>>
    BY ReadReports DEF BothReports
  <2>4. ASSUME NEW v \in Clients', toCoord'[v] = BothReports PROVE Within(image[v])'
    BY <1>1, <1>2, <2>2, <2>3, <2>4 DEF Lossless, NobodyLost, Clients
  <2>5. ASSUME NEW v \in Clients', recorded'[v] = DRAINED, NEW x \in restartFilenames'
        PROVE  Within(image[x])'
    <3>1. v \in Clients /\ recorded[v] = DRAINED /\ x \in Workers /\ x \in restartFilenames
      BY <1>2, <2>5 DEF Clients, TypeOK
    <3> QED BY <2>2, <3>1 DEF Lossless, NobodyLost
  <2> QED BY <2>1, <2>4, <2>5 DEF NobodyLost
<1> QED BY <1>6, <1>7, <1>10 DEF Lossless

(* launch, fork and restart, and their refusals.                            *)
LEMMA NewcomersLossless ==
    ASSUME IndInv, IndInv', Lossless, NEW w \in Workers,
           Launch(w) \/ (\E p \in Workers : Fork(p, w)) \/ Restart(w) \/ RestartRefused(w)
    PROVE  Lossless'
<1>1. TypeOK /\ Membership /\ TypeOK'
  BY DEF IndInv
<1>2. ASSUME NEW s \in {UNKNOWN, RUNNING}, AcceptNewWorker(w, s) PROVE Lossless'
  <2>1. /\ up /\ proc[w] = "absent" /\ ~killInProgress /\ ~killInProgress'
        /\ recorded' = [recorded EXCEPT ![w] = s] /\ proc' = [proc EXCEPT ![w] = "alive"]
        /\ state' = [state EXCEPT ![w] = s] /\ info' = info
        /\ UNCHANGED <<toCoord, image, restartFilenames>>
    BY <1>2 DEF AcceptNewWorker, InitializeComputation, diskVars
  <2>2. /\ toWorker'[w] \in {<<>>, <<Order("SUSPEND")>>}
        /\ \A v \in Workers : v # w => toWorker'[v] = toWorker[v]
    BY <1>1, <1>2 DEF AcceptNewWorker, TypeOK
  <2> QED BY <1>1, <2>1, <2>2, JoinLossless
<1>3. CASE Restart(w)
  <2>1. /\ up /\ w \in toRestart /\ ~killInProgress /\ ~killInProgress'
        /\ recorded' = [recorded EXCEPT ![w] = RESTARTING] /\ proc' = [proc EXCEPT ![w] = "alive"]
        /\ state' = [state EXCEPT ![w] = RESTARTING] /\ info' = [info EXCEPT ![w] = image[w]]
        /\ UNCHANGED <<toWorker, toCoord, image, restartFilenames>>
    BY <1>3 DEF Restart, InitializeComputation, diskVars
  <2>2. proc[w] = "absent" /\ toWorker[w] = <<>>
    BY <1>1, <2>1 DEF Membership
  <2>3. \A v \in Workers : v # w => info'[v] = info[v]
    BY <1>1, <2>1 DEF TypeOK
  <2> QED BY <1>1, <2>1, <2>2, <2>3, JoinLossless
<1>4. CASE RestartRefused(w)
  <2>1. /\ proc[w] = "absent" /\ w \notin Clients /\ proc' = [proc EXCEPT ![w] = "dead"]
        /\ UNCHANGED <<recorded, killInProgress, restartFilenames, toWorker, toCoord, state, info, image>>
    BY <1>1, <1>4 DEF RestartRefused, Membership, diskVars
  <2>2. Clients' = Clients /\ Alive' = Alive /\ \A v \in Clients : proc'[v] = proc[v]
    BY <1>1, <2>1 DEF Clients, Alive, TypeOK
  <2>3. KillsAfterImages' /\ GoneWhileRunning'
    BY <2>1, <2>2 DEF Lossless, KillsAfterImages, NoKills, GoneWhileRunning
  <2>4. NobodyLost'
    BY <2>1, <2>2 DEF Lossless, NobodyLost, Within
  <2> QED BY <2>3, <2>4 DEF Lossless
<1> QED BY <1>2, <1>3, <1>4 DEF Launch, Fork

(* A program ends, or a KILL arrives.                                       *)
LEMMA DeathLossless ==
    ASSUME NobodyKills, IndInv, Lossless, NEW w \in Workers,
           ObeyKill(w) \/ Finish(w) \/ Crash(w) \/ ForkRefused(w)
    PROVE  Lossless'
<1>1. TypeOK
  BY DEF IndInv
<1>2. PICK k \in Phases : Phase(k)
  BY DEF IndInv
<1>3. /\ w \in Alive /\ Dies(w)
      /\ UNCHANGED <<recorded, killInProgress, restartFilenames, toCoord, image>>
  BY DEF ObeyKill, Finish, Crash, ForkRefused, Listening, Alive, coordVars, diskVars
<1>4. /\ Clients' = Clients /\ Alive' = Alive \ {w} /\ toWorker'[w] = <<>>
      /\ \A v \in Workers : v # w => /\ proc'[v] = proc[v] /\ state'[v] = state[v]
                                     /\ info'[v] = info[v] /\ toWorker'[v] = toWorker[v]
  BY <1>1, <1>3 DEF Clients, Alive, TypeOK, Dies
<1>5. killInProgress \/ state[w] \in {UNKNOWN, RUNNING}
  <2>1. CASE ObeyKill(w)
    <3>1. PICK q \in Seq(Messages) : q = toWorker[w]
      BY <1>1 DEF TypeOK
    <3>2. q # <<>> /\ Head(q).type = "KILL_PEER"
      BY <2>1, <3>1 DEF ObeyKill
    <3>3. 1 \in 1 .. Len(q) /\ q[1] = Head(q)
      BY <3>2, HeadTailProperties, EmptySeq, LenProperties
    <3> QED BY <3>1, <3>2, <3>3 DEF Lossless, KillsAfterImages, NoKills
  <2>2. CASE Finish(w) \/ ForkRefused(w)
    BY <2>2 DEF Finish, ForkRefused
  <2>3. CASE Crash(w)
    BY <2>3 DEF Crash, NobodyKills
  <2> QED BY <2>1, <2>2, <2>3
<1>6. KillsAfterImages'
  <2>1. NoKills => NoKills'
    BY <1>4 DEF NoKills
  <2> QED BY <1>3, <1>4, <2>1 DEF Lossless, KillsAfterImages, Alive
<1>7. GoneWhileRunning'
  <2>1. ASSUME w \in Clients, ~killInProgress
        PROVE  /\ recorded[w] \in {UNKNOWN, RUNNING, REFILLED}
               /\ toCoord[w] \in {<<>>, <<Report(RUNNING)>>}
    <3>1. Recorded(k)!(w) /\ state[w] \in {UNKNOWN, RUNNING} /\ proc[w] = "alive"
      BY <1>2, <1>3, <1>5, <2>1 DEF Phase, Recorded, Alive
    <3>2. CASE toCoord[w] = <<>>
      BY <3>1, <3>2
    <3>3. CASE toCoord[w] # <<>>
      <4>1. NextState(k) = RUNNING
        BY <3>1, <3>3, NextStates DEF Phases
      <4>2. k = REFILLED
        BY <4>1, NextStates DEF Phases
      <4>3. recorded[w] \in {UNKNOWN, RUNNING, REFILLED}
        BY <3>1, <4>1, <4>2 DEF InPhase
      <4>4. toCoord[w] = <<Report(NextState(k))>>
        BY <3>1, <3>3, <4>2
      <4> QED BY <4>1, <4>3, <4>4, Zenon
    <3> QED BY <3>2, <3>3
  <2> QED BY <1>3, <1>4, <2>1 DEF Lossless, GoneWhileRunning, Clients
<1>8. NobodyLost'
  BY <1>3, <1>4 DEF Lossless, NobodyLost, Within, Alive
<1> QED BY <1>6, <1>7, <1>8 DEF Lossless

(* A process begins, and reports.                                           *)
LEMMA BeginLossless ==
    ASSUME IndInv, Lossless, NEW w \in Workers, WorkerStarts(w) \/ Restored(w)
    PROVE  Lossless'
<1>1. TypeOK /\ Membership
  BY DEF IndInv
<1>2. PICK k \in Phases : Phase(k)
  BY DEF IndInv
<1>3. PICK s \in {RUNNING, CHECKPOINTED} :
        /\ w \in Alive /\ state[w] \in {UNKNOWN, RESTARTING}
        /\ state' = [state EXCEPT ![w] = s]
        /\ toCoord' = [toCoord EXCEPT ![w] = @ \o <<Report(s)>>]
        /\ UNCHANGED <<recorded, killInProgress, restartFilenames, proc, info, toWorker, image>>
  BY DEF WorkerStarts, Restored, Send, coordVars
<1>4. /\ Clients' = Clients /\ Alive' = Alive /\ state'[w] = s
      /\ \A v \in Workers : v # w => toCoord'[v] = toCoord[v] /\ state'[v] = state[v]
  BY <1>1, <1>3 DEF Clients, Alive, TypeOK
<1>5. ASSUME w \in Clients PROVE ~killInProgress /\ toCoord'[w] # BothReports
  <2>1. Recorded(k)!(w) /\ proc[w] = "alive" /\ NextState(k) \notin {UNKNOWN, RESTARTING}
    BY <1>2, <1>3, <1>5, NextStates DEF Phase, Recorded, Alive, Phases
  <2>2. toCoord[w] = <<>>
    BY <1>3, <2>1
  <2>3. PICK r : r = Report(s)
    OBVIOUS
  <2>4. toCoord'[w] = <<r>>
    BY <1>1, <1>3, <2>2, <2>3, TwoReports DEF TypeOK
  <2>5. \A a, b : <<a, b>> # <<r>>
    BY ReadReports
  <2>6. up
    BY <1>1, <1>5 DEF Membership
  <2> QED BY <1>3, <2>4, <2>5, <2>6, KilledStandStill DEF BothReports
<1>6. KillsAfterImages'
  BY <1>3, <1>4, <1>5 DEF Lossless, KillsAfterImages, NoKills, Clients
<1>7. GoneWhileRunning'
  BY <1>3, <1>4 DEF Lossless, GoneWhileRunning, Clients, Alive
<1>8. NobodyLost'
  BY <1>3, <1>4, <1>5 DEF Lossless, NobodyLost, Within, Clients, Alive
<1> QED BY <1>6, <1>7, <1>8 DEF Lossless

(* The orders that are waited for.                                          *)
LEMMA ExpectedOrders ==
    ASSUME NEW x \in RUNNING .. REFILLED, x # RESTARTING
    PROVE  /\ Expected(x) # "KILL_PEER" /\ (Expected(x) = "FD_LEADER_ELECTION" <=> x = SUSPENDED)
           /\ Expected(x) = "CHECKPOINT" <=> x = DRAINED
<1>1. x = 1 \/ x = 2 \/ x = 3 \/ x = 4 \/ x = 6 \/ x = 7 \/ x = 8 \/ x = 9
  OBVIOUS
<1>2. /\ Expected(1) = "SUSPEND" /\ Expected(2) = "FD_LEADER_ELECTION" /\ Expected(3) = "DRAIN"
      /\ Expected(4) = "CHECKPOINT" /\ Expected(6) = "REGISTER_NAME_SERVICE_DATA"
      /\ Expected(7) = "SEND_QUERIES" /\ Expected(8) = "REFILL" /\ Expected(9) = "RESUME"
  BY DEF Expected
<1> QED BY <1>1, <1>2

(* An order is carried out: what a process learns of its peers is in the    *)
(* order, and what it has learned goes into its image.                      *)
LEMMA ObeyLossless ==
    ASSUME IndInv, IndInv', Lossless, NEW w \in Workers, Obey(w)
    PROVE  Lossless'
<1>1. TypeOK /\ Membership
  BY DEF IndInv
<1>2. PICK k \in Phases : Phase(k)
  BY DEF IndInv
<1>3. PICK q \in Seq(Messages), m \in Messages :
          /\ q = toWorker[w] /\ q # <<>> /\ m = Head(q) /\ m = q[1]
          /\ 1 \in 1 .. Len(q)
  <2>1. PICK q \in Seq(Messages) : q = toWorker[w] /\ q # <<>>
    BY <1>1 DEF Obey, TypeOK
  <2>2. Head(q) \in Messages /\ Head(q) = q[1] /\ 1 \in 1 .. Len(q)
    BY <2>1, HeadTailProperties, EmptySeq, LenProperties
  <2> QED BY <2>1, <2>2
<1>4. /\ w \in Alive /\ state[w] \notin {UNKNOWN, RESTARTING} /\ m.type = Expected(state[w])
      /\ state' = [state EXCEPT ![w] = NextState(@)]
      /\ info' = IF m.type = "FD_LEADER_ELECTION" THEN [info EXCEPT ![w] = m.info] ELSE info
      /\ image' = IF m.type = "CHECKPOINT" THEN [image EXCEPT ![w] = info[w]] ELSE image
      /\ toWorker' = [toWorker EXCEPT ![w] = Tail(@)]
      /\ UNCHANGED <<recorded, killInProgress, restartFilenames, proc>>
  BY <1>3 DEF Obey, Listening, coordVars
<1>5. state[w] \in RUNNING .. REFILLED
  BY <1>1, <1>4 DEF TypeOK, WorkerStates
<1>6. m.type # "KILL_PEER" /\ (m.type = "FD_LEADER_ELECTION" <=> state[w] = SUSPENDED)
      /\ (m.type = "CHECKPOINT" <=> state[w] = DRAINED)
  <2>1. PICK x \in RUNNING .. REFILLED : x = state[w] /\ x # RESTARTING
    BY <1>4, <1>5
  <2>2. /\ Expected(x) # "KILL_PEER" /\ (Expected(x) = "FD_LEADER_ELECTION" <=> x = SUSPENDED)
        /\ (Expected(x) = "CHECKPOINT" <=> x = DRAINED)
    BY <2>1, ExpectedOrders
  <2> QED BY <1>4, <2>1, <2>2
<1>7. ~killInProgress /\ NoKills
  BY <1>3, <1>4, <1>6 DEF Lossless, KillsAfterImages
<1>8. state[w] = k /\ NextState(k) # k /\ Tail(q) = <<>>
  <2>1. Ordered(k)!(w)
    BY <1>2, <1>4 DEF Phase, Ordered
  <2>2. state[w] = k /\ ~(Len(q) > 1 /\ q[2].type # "KILL_PEER")
    BY <1>3, <1>6, <2>1
  <2>3. Len(q) \in Nat
    BY LenProperties
  <2>4. ASSUME Len(q) > 1 PROVE FALSE
    BY <1>3, <1>7, <2>2, <2>3, <2>4 DEF NoKills
  <2>5. Len(q) = 1
    <3>1. PICK n \in Nat : n = Len(q)
      BY <2>3
    <3>2. 1 \in 1 .. n /\ ~(n > 1)
      BY <1>3, <2>4, <3>1
    <3>3. n = 1
      BY <3>2
    <3> QED BY <3>1, <3>3
  <2>6. Tail(q) \in Seq(Messages) /\ Len(Tail(q)) = 0
    BY <1>3, <2>5, HeadTailProperties
  <2> QED BY <2>2, <2>6, EmptySeq, NextStates
<1>9. /\ Clients' = Clients /\ Alive' = Alive /\ state'[w] = NextState(k) /\ toWorker'[w] = <<>>
      /\ info'[w] = IF k = SUSPENDED THEN m.info ELSE info[w]
      /\ image'[w] = IF k = DRAINED THEN info[w] ELSE image[w]
      /\ \A v \in Workers : v # w => /\ toWorker'[v] = toWorker[v] /\ state'[v] = state[v]
                                     /\ info'[v] = info[v] /\ image'[v] = image[v]
  BY <1>1, <1>3, <1>4, <1>6, <1>8 DEF Clients, Alive, TypeOK
<1>10. \A v \in Workers : v # w => toCoord'[v] = toCoord[v]
  BY <1>1 DEF Obey, Send, TypeOK
<1>11. k = SUSPENDED => Within(m.info)
  <2>1. k = SUSPENDED => toWorker[w][1].type = "FD_LEADER_ELECTION"
    BY <1>3, <1>6, <1>8
  <2> QED BY <1>3, <1>4, <2>1 DEF Lossless, NobodyLost
<1>12. k \in {FD_LEADER_ELECTION, DRAINED} => Within(info[w])
  BY <1>4, <1>8 DEF Lossless, NobodyLost
<1>13. KillsAfterImages'
  <2>1. NoKills'
    <3>1. Len(<<>>) = 0
      OBVIOUS
    <3> QED BY <1>7, <1>9, <3>1 DEF NoKills
  <2> QED BY <1>4, <1>7, <2>1 DEF KillsAfterImages
<1>14. GoneWhileRunning'
  BY <1>4, <1>9, <1>10 DEF Lossless, GoneWhileRunning, Clients, Alive
<1>15. NobodyLost'
  <2>1. ASSUME NEW v \in Alive'
        PROVE  /\ state'[v] \in {FD_LEADER_ELECTION, DRAINED} => Within(info[v])'
               /\ toWorker'[v] # <<>> /\ toWorker'[v][1].type = "FD_LEADER_ELECTION"
                     => Within(toWorker[v][1].info)'
    <3>1. CASE v = w
      <4>1. NextState(k) \in {FD_LEADER_ELECTION, DRAINED} => k \in {SUSPENDED, FD_LEADER_ELECTION}
        BY NextStates DEF Phases
      <4> QED BY <1>9, <1>11, <1>12, <3>1, <4>1 DEF Within
    <3>2. CASE v # w
      BY <1>9, <2>1, <3>2 DEF Lossless, NobodyLost, Within, Alive
    <3> QED BY <3>1, <3>2
  <2>2. ASSUME NEW v \in Workers, Within(image[v]) PROVE Within(image[v])'
    BY <1>9, <1>12, <2>2 DEF Within
  <2>3. ASSUME w \in Clients, toCoord'[w] = BothReports PROVE Within(image[w])'
    <3>1. k = DRAINED
      <4>1. SUFFICES ASSUME k # DRAINED PROVE FALSE
        OBVIOUS
      <4>2. PICK r : r = Report(NextState(k))
        OBVIOUS
      <4>3. toCoord' = [toCoord EXCEPT ![w] = @ \o (<<>> \o <<r>>)]
        BY <1>3, <1>6, <1>8, <4>1, <4>2 DEF Obey, Send
      <4>4. toCoord[w] = <<>>
        BY <1>2, <1>4, <1>8, <2>3 DEF Phase, Recorded, Alive
      <4>5. toCoord'[w] = <<r>>
        BY <1>1, <4>3, <4>4, TwoReports DEF TypeOK
      <4>6. \A a, b : <<a, b>> # <<r>>
        BY ReadReports
      <4> QED BY <2>3, <4>5, <4>6 DEF BothReports
    <3> QED BY <1>9, <1>12, <3>1 DEF Within
  <2>4. ASSUME NEW v \in Clients', toCoord'[v] = BothReports PROVE Within(image[v])'
    <3>1. CASE v = w
      BY <1>9, <2>3, <2>4, <3>1
    <3>2. CASE v # w
      BY <1>9, <1>10, <2>2, <2>4, <3>2 DEF Lossless, NobodyLost, Clients
    <3> QED BY <3>1, <3>2
  <2>5. ASSUME NEW v \in Clients', recorded'[v] = DRAINED, NEW x \in restartFilenames'
        PROVE  Within(image[x])'
    <3>1. v \in Clients /\ recorded[v] = DRAINED /\ x \in Workers /\ x \in restartFilenames
      BY <1>1, <1>4, <1>9, <2>5 DEF TypeOK
    <3> QED BY <2>2, <3>1 DEF Lossless, NobodyLost
  <2> QED BY <2>1, <2>4, <2>5 DEF NobodyLost
<1> QED BY <1>13, <1>14, <1>15 DEF Lossless

(* The name of an image arrives.                                            *)
LEMMA FilenameLossless ==
    ASSUME IndInv, Lossless, NEW w \in Workers, OnData(w), Head(toCoord[w]).type = "CKPT_FILENAME"
    PROVE  Lossless'
<1>1. TypeOK /\ Membership
  BY DEF IndInv
<1>2. PICK k \in Phases : Phase(k)
  BY DEF IndInv
<1>3. /\ up /\ w \in Clients /\ toCoord[w] # <<>> /\ toCoord' = [toCoord EXCEPT ![w] = Tail(@)]
      /\ restartFilenames' = restartFilenames \cup {w}
      /\ UNCHANGED <<recorded, toWorker, killInProgress, proc, state, info, image>>
  BY DEF OnData, Clients, procVars
<1>4. \A s : toCoord[w] # <<Report(s)>>
  <2> SUFFICES ASSUME NEW s, toCoord[w] = <<Report(s)>> PROVE FALSE
    OBVIOUS
  <2>1. PICK r : r = Report(s) /\ r.type = "OK"
    BY DEF Report
  <2>2. Head(<<r>>) = r
    BY ReadReports
  <2> QED BY <2>1, <2>2
<1>5. toCoord[w] = BothReports
  BY <1>2, <1>3, <1>4 DEF Phase, Recorded
<1>6. PICK a, b : a = Filename /\ b = Report(CHECKPOINTED)
  OBVIOUS
<1>7. toCoord'[w] = <<b>> /\ <<b>> # BothReports
      /\ \A v \in Workers : v # w => toCoord'[v] = toCoord[v]
  <2>1. BothReports = <<a, b>> /\ Tail(<<a, b>>) = <<b>> /\ <<a, b>> # <<b>>
    BY <1>6, ReadReports DEF BothReports
  <2> QED BY <1>1, <1>3, <1>5, <2>1 DEF TypeOK
<1>8. Clients' = Clients /\ Alive' = Alive
  BY <1>3 DEF Clients, Alive
<1>9. ~killInProgress /\ proc[w] # "dead" /\ Within(image[w])
  BY <1>3, <1>4, <1>5 DEF Lossless, KillsAfterImages, GoneWhileRunning, NobodyLost
<1>10. KillsAfterImages'
  BY <1>3, <1>9 DEF Lossless, KillsAfterImages, NoKills
<1>11. GoneWhileRunning'
  BY <1>3, <1>7, <1>8, <1>9 DEF Lossless, GoneWhileRunning, Clients
<1>12. NobodyLost'
  BY <1>3, <1>7, <1>8, <1>9 DEF Lossless, NobodyLost, Within, Clients
<1> QED BY <1>10, <1>11, <1>12 DEF Lossless

(* While processes are killed no barrier is reached.                        *)
LEMMA KilledNoBarrier ==
    ASSUME IndInv, Lossless, killInProgress, NEW k \in Phases, Phase(k), NEW w \in Workers, NEW s,
           Heard(w, s), Speaks(k, w, s)
    PROVE  s = None /\ NoBarrier(recorded[w], MinimumState(recorded'))
<1>1. \A v \in Clients : recorded[v] = CHECKPOINTED /\ toCoord[v] = <<>>
  BY DEF Lossless, KillsAfterImages
<1>2. w \in Clients /\ UpdateMinimumState(recorded[w])
  BY DEF Heard
<1>3. s = None
  BY <1>1, <1>2, ReadReports DEF Speaks
<1>4. /\ Clients' \subseteq Clients /\ Clients' # {}
      /\ recorded'[w] = s /\ \A v \in Workers : v # w => recorded'[v] = recorded[v]
  BY HeardFacts
<1>5. ASSUME ~NoBarrier(recorded[w], MinimumState(recorded')) PROVE FALSE
  <2>1. PICK old, new : old = recorded[w] /\ new = MinimumState(recorded')
    OBVIOUS
  <2>2. \/ AllSuspended(old, new) \/ PlainBarrier(old, new)
        \/ AllCheckpointed(old, new) \/ AllRefilled(old, new)
    BY <1>2, <1>5, <2>1 DEF UpdateMinimumState
  <2>3. old \in RUNNING .. DONE_QUERYING /\ new = NextState(old)
    <3>1. CASE PlainBarrier(old, new)
      BY <3>1, PlainBarrierOrder DEF PlainBarrier
    <3>2. CASE ~PlainBarrier(old, new)
      <4>1. <<old, new>> \in {<<RUNNING, SUSPENDED>>, <<DRAINED, CHECKPOINTED>>,
                              <<DONE_QUERYING, REFILLED>>}
        BY <2>2, <3>2 DEF AllSuspended, AllCheckpointed, AllRefilled
      <4> QED BY <4>1 DEF NextState
    <3> QED BY <3>1, <3>2
  <2>4. recorded[w] = k /\ \A v \in Clients' : recorded'[v] = NextState(k)
    BY <2>1, <2>3, CrossedFacts
  <2>5. PICK v \in Clients' : TRUE
    BY <1>4
  <2>6. v \in Clients /\ v # w /\ v \in Workers
    BY <1>3, <1>4, <2>5 DEF Clients
  <2> QED BY <1>1, <1>2, <1>4, <2>4, <2>5, <2>6, NextStates
<1> QED BY <1>3, <1>5

(* A client whose departure is heard of has been running.                   *)
LEMMA DepartedRan ==
    ASSUME IndInv, Lossless, ~killInProgress, NEW k \in Phases, Phase(k), NEW w \in Clients,
           proc[w] = "dead"
    PROVE  k \in {RUNNING, DONE_QUERYING, REFILLED} /\ recorded[w] \in {UNKNOWN, RUNNING, REFILLED}
<1>1. recorded[w] \in {UNKNOWN, RUNNING, REFILLED} /\ InPhase(k, recorded[w])
  BY DEF Lossless, GoneWhileRunning, Phase, Recorded
<1> QED BY <1>1, NextStates DEF InPhase, Phases

(* The coordinator hears from a client, and no barrier is reached.          *)
LEMMA StayLossless ==
    ASSUME IndInv, IndInv', Lossless, NEW k \in Phases, Phase(k), NEW w \in Workers, NEW s,
           Heard(w, s), Speaks(k, w, s), NoBarrier(recorded[w], MinimumState(recorded'))
    PROVE  Lossless'
<1>1. TypeOK /\ Membership /\ TypeOK'
  BY DEF IndInv
<1>2. /\ up /\ w \in Clients
      /\ UNCHANGED <<toWorker, killInProgress, restartFilenames, proc, state, info, image>>
  BY DEF Heard, NoBarrier, procVars
<1>3. /\ Clients' \subseteq Clients /\ Clients' # {} /\ Alive' = Alive /\ Alive \subseteq Clients'
      /\ Busy
      /\ recorded'[w] = s /\ \A v \in Workers : v # w => recorded'[v] = recorded[v]
      /\ toCoord'[w] = <<>> /\ \A v \in Workers : v # w => toCoord'[v] = toCoord[v]
  BY HeardFacts
<1>4. BothReports # <<>> /\ \A r : <<r>> # BothReports
  BY ReadReports DEF BothReports
<1>5. Recorded(k) /\ Ordered(k) /\ Written(k)
  BY DEF Phase
<1>6. CASE killInProgress
  <2>1. s = None
    BY <1>6, KilledNoBarrier
  <2>2. /\ \A v \in Clients' : v # w /\ recorded'[v] = CHECKPOINTED /\ toCoord'[v] = <<>>
        /\ \A v \in Alive : toWorker[v] # <<>> /\ toWorker[v][1].type = "KILL_PEER"
    BY <1>3, <1>6, <2>1 DEF Lossless, KillsAfterImages, Clients
  <2>3. \A v \in Alive : state[v] = CHECKPOINTED
    BY <1>2, <1>6, KilledStandStill
  <2>4. KillsAfterImages' /\ GoneWhileRunning'
    BY <1>2, <1>3, <1>6, <2>2 DEF KillsAfterImages, GoneWhileRunning
  <2>5. NobodyLost'
    BY <1>2, <1>3, <1>4, <2>2, <2>3 DEF NobodyLost
  <2> QED BY <2>4, <2>5 DEF Lossless
<1>7. CASE ~killInProgress
  <2>1. KillsAfterImages'
    BY <1>2, <1>7 DEF Lossless, KillsAfterImages, NoKills
  <2>2. GoneWhileRunning'
    <3>1. ASSUME NEW v \in Clients', proc[v] = "dead"
          PROVE  /\ recorded'[v] \in {UNKNOWN, RUNNING, REFILLED}
                 /\ toCoord'[v] \in {<<>>, <<Report(RUNNING)>>}
      <4>1. CASE v # w
        BY <1>3, <1>7, <3>1, <4>1 DEF Lossless, GoneWhileRunning, Clients
      <4>2. CASE v = w
        <5>1. s # None
          BY <1>3, <3>1, <4>2 DEF Clients
        <5>2. toCoord[w] = <<Report(s)>> /\ s = NextState(k)
          BY <5>1 DEF Speaks
        <5>3. PICK r, x : r = Report(s) /\ x = Report(RUNNING) /\ r.state = s /\ x.state = RUNNING
          <6>1. Report(s).state = s /\ Report(RUNNING).state = RUNNING
            BY DEF Report
          <6> QED BY <6>1
        <5>4. <<r>> = <<x>> \/ <<r>> = <<>>
          BY <1>2, <1>7, <3>1, <4>2, <5>2, <5>3 DEF Lossless, GoneWhileRunning
        <5>5. r = x
          BY <5>4, ReadReports
        <5> QED BY <1>3, <4>2, <5>3, <5>5
      <4> QED BY <4>1, <4>2
    <3> QED BY <1>2, <3>1 DEF GoneWhileRunning
  <2>3. CASE s # None
    <3>1. Clients' = Clients
      BY <1>2, <1>3, <2>3 DEF Clients
    <3>2. s = NextState(k) /\ (s = DRAINED => restartFilenames = {})
      BY <1>3, <1>5, <2>3, NextStates DEF Speaks, Written, Phases
    <3>3. /\ \A v \in Alive' :
                /\ state'[v] \in {FD_LEADER_ELECTION, DRAINED} => Within(info[v])'
                /\ toWorker'[v] # <<>> /\ toWorker'[v][1].type = "FD_LEADER_ELECTION"
                      => Within(toWorker[v][1].info)'
          /\ \A v \in Clients' : toCoord'[v] = BothReports => Within(image[v])'
      BY <1>2, <1>3, <1>4, <3>1 DEF Lossless, NobodyLost, Within, Clients
    <3>4. (\E v \in Clients' : recorded'[v] = DRAINED) =>
             \A v \in restartFilenames' : Within(image[v])'
      BY <1>2, <1>3, <3>1, <3>2 DEF Lossless, NobodyLost, Within, Clients
    <3> QED BY <2>1, <2>2, <3>3, <3>4 DEF Lossless, NobodyLost
  <2>4. CASE s = None
    <3>1. proc[w] = "dead"
      BY <2>4, NextStates DEF Speaks
    <3>2. k \in {RUNNING, DONE_QUERYING, REFILLED}
      BY <1>2, <1>7, <3>1, DepartedRan
    <3>3. \A x : InPhase(k, x) => x \notin {FD_LEADER_ELECTION, DRAINED}
      BY <3>2, NextStates DEF InPhase, Phases
    <3>4. Expected(k) # "FD_LEADER_ELECTION"
      BY <3>2 DEF Expected
    <3>5. \A v \in Alive : /\ state[v] \notin {FD_LEADER_ELECTION, DRAINED}
                           /\ toWorker[v] # <<>> => toWorker[v][1].type # "FD_LEADER_ELECTION"
      BY <1>5, <3>3, <3>4 DEF Ordered
    <3>6. \A v \in Clients : toCoord[v] # BothReports /\ recorded[v] # DRAINED
      <4>1. \A v \in Clients : InPhase(k, recorded[v])
        BY <1>5 DEF Recorded
      <4>2. \A v \in Clients : toCoord[v] = <<>> \/ toCoord[v] = <<Report(NextState(k))>>
        BY <1>5, <3>2 DEF Recorded
      <4> QED BY <1>4, <3>3, <4>1, <4>2
    <3>7. \A v \in Clients' : toCoord'[v] # BothReports /\ recorded'[v] # DRAINED
      BY <1>3, <1>4, <2>4, <3>6 DEF Clients
    <3>8. NobodyLost'
      BY <1>2, <1>3, <3>5, <3>7 DEF NobodyLost
    <3> QED BY <2>1, <2>2, <3>8 DEF Lossless
  <2> QED BY <2>3, <2>4
<1> QED BY <1>6, <1>7

(* A barrier is reached and the next order is sent.                         *)
LEMMA CrossLossless ==
    ASSUME IndInv, IndInv', Lossless, NEW k \in Phases, Phase(k), NEW w \in Workers, NEW s,
           Heard(w, s), Speaks(k, w, s), ~NoBarrier(recorded[w], MinimumState(recorded'))
    PROVE  Lossless'
<1>1. TypeOK /\ Membership /\ TypeOK'
  BY DEF IndInv
<1>2. ~killInProgress /\ NoKills
  BY KilledNoBarrier DEF Lossless, KillsAfterImages
<1>3. PICK old, new : old = recorded[w] /\ new = MinimumState(recorded')
  OBVIOUS
<1>4. /\ up /\ w \in Clients /\ UpdateMinimumState(old)
      /\ restartFilenames' \subseteq restartFilenames
      /\ UNCHANGED <<proc, state, info, image>>
  BY <1>3, HeardNames DEF Heard, procVars
<1>5. \/ AllSuspended(old, new) \/ PlainBarrier(old, new)
      \/ AllCheckpointed(old, new) \/ AllRefilled(old, new)
  BY <1>3, <1>4 DEF UpdateMinimumState
<1>6. old \in RUNNING .. DONE_QUERYING /\ new = NextState(old)
  <2>1. CASE PlainBarrier(old, new)
    BY <2>1, PlainBarrierOrder DEF PlainBarrier
  <2>2. CASE ~PlainBarrier(old, new)
    <3>1. <<old, new>> \in {<<RUNNING, SUSPENDED>>, <<DRAINED, CHECKPOINTED>>,
                            <<DONE_QUERYING, REFILLED>>}
      BY <1>5, <2>2 DEF AllSuspended, AllCheckpointed, AllRefilled
    <3> QED BY <3>1 DEF NextState
  <2> QED BY <2>1, <2>2
<1>7. /\ Clients' \subseteq Clients /\ Clients' # {} /\ Alive' = Alive /\ Alive \subseteq Clients'
      /\ Busy
      /\ recorded'[w] = s /\ \A v \in Workers : v # w => recorded'[v] = recorded[v]
  BY HeardFacts
<1>8. /\ old = k
      /\ \A v \in Clients' : recorded'[v] = NextState(k) /\ toCoord'[v] = <<>>
      /\ \A v \in Alive : /\ state[v] = NextState(k)
                          /\ toWorker[v] = <<>> \/ toWorker[v][1].type = "KILL_PEER"
  BY <1>3, <1>6, CrossedFacts
<1>9. \A v \in Alive : toWorker[v] = <<>>
  <2> SUFFICES ASSUME NEW v \in Alive, toWorker[v] # <<>> PROVE FALSE
    OBVIOUS
  <2>1. PICK q \in Seq(Messages) : q = toWorker[v]
    BY <1>1 DEF TypeOK, Alive
  <2>2. 1 \in 1 .. Len(q)
    BY <2>1, EmptySeq, LenProperties
  <2> QED BY <1>2, <1>8, <2>1, <2>2 DEF NoKills, Alive
<1>10. s = None => k = RUNNING
  <2>1. s = None => proc[w] = "dead"
    BY NextStates DEF Speaks
  <2>2. proc[w] = "dead" => recorded[w] \in {UNKNOWN, RUNNING, REFILLED}
    BY <1>2, <1>4, DepartedRan
  <2>3. recorded[w] = k /\ k \in RUNNING .. DONE_QUERYING
    BY <1>3, <1>6, <1>8
  <2> QED BY <2>1, <2>2, <2>3
<1>11. k # RUNNING => Clients' = Clients
  BY <1>4, <1>7, <1>10 DEF Clients
<1>12. BothReports # <<>>
  BY ReadReports DEF BothReports
<1>13. GoneWhileRunning'
  <2> SUFFICES ASSUME NEW v \in Clients', proc[v] = "dead"
               PROVE  recorded'[v] \in {UNKNOWN, RUNNING, REFILLED} /\ toCoord'[v] = <<>>
    BY <1>4 DEF GoneWhileRunning
  <2>1. CASE v # w
    BY <1>2, <1>7, <1>8, <2>1 DEF Lossless, GoneWhileRunning, Clients
  <2>2. CASE v = w
    <3>1. s # None
      BY <1>7, <2>2 DEF Clients
    <3>2. toCoord[w] = <<Report(s)>>
      BY <3>1 DEF Speaks
    <3>3. PICK r, x : r = Report(s) /\ x = Report(RUNNING) /\ r.state = s /\ x.state = RUNNING
      <4>1. Report(s).state = s /\ Report(RUNNING).state = RUNNING
        BY DEF Report
      <4> QED BY <4>1
    <3>4. <<r>> = <<x>> \/ <<r>> = <<>>
      BY <1>2, <1>4, <2>2, <3>2, <3>3 DEF Lossless, GoneWhileRunning
    <3>5. r = x
      BY <3>4, ReadReports
    <3> QED BY <1>7, <1>8, <2>2, <3>3, <3>5
  <2> QED BY <2>1, <2>2
<1>14. /\ \A v \in Clients' : toCoord'[v] # BothReports
       /\ (\E v \in Clients' : recorded'[v] = DRAINED) => restartFilenames' = {}
  <2>1. NextState(k) = DRAINED => k = FD_LEADER_ELECTION
    BY NextStates DEF Phases
  <2>2. k = FD_LEADER_ELECTION => restartFilenames = {}
    BY <1>7 DEF Phase, Written
  <2> QED BY <1>4, <1>8, <1>12, <2>1, <2>2
<1>15. \A v \in Alive' : state'[v] \in {FD_LEADER_ELECTION, DRAINED} => Within(info[v])'
  <2>1. ASSUME NEW v \in Alive, state[v] \in {FD_LEADER_ELECTION, DRAINED} PROVE Within(info[v])'
    <3>1. k # RUNNING
      BY <1>8, <2>1, NextStates
    <3> QED BY <1>4, <1>11, <2>1, <3>1 DEF Lossless, NobodyLost, Within
  <2> QED BY <1>4, <1>7, <2>1
<1>16. CASE AllCheckpointed(old, new) /\ exitAfterCkpt
  <2>1. Broadcast(Order("KILL_PEER")) /\ killInProgress'
    BY <1>7, <1>16 DEF AllCheckpointed, BroadcastKill, Clients
  <2>2. PICK m \in Messages : m = Order("KILL_PEER") /\ m.type = "KILL_PEER"
    BY OrdersAreMessages DEF Orders
  <2>3. \A v \in Alive : toWorker'[v] # <<>> /\ toWorker'[v][1] = m
    <3> SUFFICES ASSUME NEW v \in Alive PROVE toWorker'[v] # <<>> /\ toWorker'[v][1] = m
      OBVIOUS
    <3>1. toWorker'[v] = Append(<<>>, m)
      BY <1>7, <1>9, <2>1, <2>2 DEF Broadcast, Alive, Clients
    <3> QED BY <3>1, AppendMessage, EmptySeq
  <2>4. k = DRAINED /\ NextState(k) = CHECKPOINTED
    BY <1>8, <1>16 DEF AllCheckpointed, NextState
  <2>5. KillsAfterImages'
    BY <1>7, <1>8, <2>1, <2>2, <2>3, <2>4 DEF KillsAfterImages
  <2>6. NobodyLost'
    BY <1>7, <1>14, <1>15, <2>2, <2>3 DEF NobodyLost
  <2> QED BY <1>13, <2>5, <2>6 DEF Lossless
<1>17. CASE ~(AllCheckpointed(old, new) /\ exitAfterCkpt)
  <2>1. PICK m \in Messages :
          /\ Broadcast(m) /\ m.type # "KILL_PEER"
          /\ m.type = "FD_LEADER_ELECTION" => m.info.numPeers = Cardinality(Clients')
    <3>1. CASE AllSuspended(old, new)
      <4>1. PICK n : n = Count(recorded')
        OBVIOUS
      <4>2. PICK i : i = [compId |-> compId, generation |-> generation, numPeers |-> n]
        OBVIOUS
      <4>3. PICK m : m = [type |-> "FD_LEADER_ELECTION", info |-> i]
        OBVIOUS
      <4>4. Broadcast(m)
        BY <3>1, <4>1, <4>2, <4>3 DEF AllSuspended
      <4>5. n = Cardinality(Clients') /\ n \in Nat
        <5>1. IsFiniteSet(Clients)
          BY <1>1, FiniteClients
        <5> QED BY <1>7, <4>1, <5>1, FS_Subset, FS_CardinalityType DEF Clients, Count
      <4>6. i \in Infos /\ i.numPeers = n
        BY <1>1, <4>2, <4>5 DEF Infos, TypeOK
      <4>7. m \in Messages /\ m.type = "FD_LEADER_ELECTION" /\ m.info = i
        BY <4>3, <4>6 DEF Messages, Orders
      <4> QED BY <4>4, <4>5, <4>6, <4>7
    <3>2. ASSUME NEW t \in Orders, Broadcast(Order(t)), t \notin {"KILL_PEER", "FD_LEADER_ELECTION"}
          PROVE  \E m \in Messages : /\ Broadcast(m) /\ m.type # "KILL_PEER"
                                     /\ m.type # "FD_LEADER_ELECTION"
      BY <3>2, OrdersAreMessages
    <3>3. CASE PlainBarrier(old, new)
      <4>1. PICK b \in PlainBarriers : Broadcast(Order(b[3]))
        BY <3>3 DEF PlainBarrier
      <4>2. b[3] \in Orders /\ b[3] \notin {"KILL_PEER", "FD_LEADER_ELECTION"}
        BY <4>1 DEF PlainBarriers, Orders
      <4> QED BY <3>2, <4>1, <4>2
    <3>4. CASE AllCheckpointed(old, new)
      <4>1. Broadcast(Order("REGISTER_NAME_SERVICE_DATA"))
        BY <1>17, <3>4 DEF AllCheckpointed
      <4>2. "REGISTER_NAME_SERVICE_DATA" \in Orders
        BY DEF Orders
      <4> QED BY <3>2, <4>1, <4>2
    <3>5. CASE AllRefilled(old, new)
      <4>1. Broadcast(Order("RESUME")) /\ "RESUME" \in Orders
        BY <3>5 DEF AllRefilled, Orders
      <4> QED BY <3>2, <4>1
    <3> QED BY <1>5, <3>1, <3>3, <3>4, <3>5
  <2>2. killInProgress' = killInProgress
    BY <1>5, <1>17 DEF AllSuspended, PlainBarrier, AllCheckpointed, AllRefilled
  <2>3. /\ NoKills'
        /\ \A v \in Workers : toWorker'[v] # <<>> =>
              \/ toWorker'[v][1] = m
              \/ toWorker[v] # <<>> /\ toWorker'[v][1] = toWorker[v][1]
    BY <1>1, <1>2, <2>1, OrderSent
  <2>4. KillsAfterImages'
    BY <1>2, <2>2, <2>3 DEF KillsAfterImages
  <2>5. ASSUME NEW v \in Alive', toWorker'[v] # <<>>, toWorker'[v][1].type = "FD_LEADER_ELECTION"
        PROVE  Within(toWorker[v][1].info)'
    <3>1. v \in Alive /\ v \in Workers
      BY <1>7 DEF Alive
    <3>2. toWorker'[v][1] = m
      BY <1>9, <2>3, <2>5, <3>1
    <3>3. m.info.numPeers = Cardinality(Clients') /\ Cardinality(Clients') \in Nat
      <4>1. (TypeOK => Cardinality(Clients) \in Nat)'
        BY FiniteClients, PTL
      <4> QED BY <1>1, <2>1, <2>5, <3>2, <4>1
    <3> QED BY <3>2, <3>3 DEF Within
  <2>6. NobodyLost'
    BY <1>14, <1>15, <2>5 DEF NobodyLost
  <2> QED BY <1>13, <2>4, <2>6 DEF Lossless
<1> QED BY <1>16, <1>17

(* Every message and every departure.                                       *)
LEMMA HearingLossless ==
    ASSUME IndInv, IndInv', Lossless, NEW w \in Workers, OnData(w) \/ OnDisconnect(w)
    PROVE  Lossless'
<1>1. TypeOK /\ Membership
  BY DEF IndInv
<1>2. PICK k \in Phases : Phase(k)
  BY DEF IndInv
<1>3. CASE OnData(w) /\ Head(toCoord[w]).type = "CKPT_FILENAME"
  BY <1>3, FilenameLossless
<1>4. CASE OnData(w) /\ Head(toCoord[w]).type # "CKPT_FILENAME"
  <2>1. Heard(w, NextState(k)) /\ Speaks(k, w, NextState(k))
    BY <1>2, <1>4, ReportHeard
  <2> QED BY <1>2, <2>1, StayLossless, CrossLossless
<1>5. CASE OnDisconnect(w) /\ Clients # {w}
  <2>1. Heard(w, None) /\ Speaks(k, w, None)
    BY <1>5, DepartureHeard
  <2> QED BY <1>2, <2>1, StayLossless, CrossLossless
<1>6. CASE OnDisconnect(w) /\ Clients = {w}
  <2>1. /\ up /\ proc[w] = "dead" /\ recorded' = [recorded EXCEPT ![w] = None]
        /\ UNCHANGED <<toWorker, proc>>
    BY <1>6 DEF OnDisconnect, procVars
  <2>2. Alive = {} /\ \A v \in Workers : toWorker[v] = <<>>
    BY <1>1, <1>6, <2>1 DEF Membership, Alive
  <2>3. Clients' = {} /\ Alive' = {} /\ \A v \in Workers : toWorker'[v] = <<>>
    BY <1>1, <1>6, <2>1, <2>2 DEF Clients, Alive, TypeOK
  <2>4. (Vacant => Lossless)'
    BY EmptyLossless, PTL
  <2> QED BY <2>3, <2>4 DEF Vacant
<1> QED BY <1>3, <1>4, <1>5, <1>6

(* Every step.                                                              *)
LEMMA NextLossless ==
    ASSUME NobodyKills, IndInv, IndInv', Lossless, [Next]_vars PROVE Lossless'
<1>1. CASE CoordinatorStep
  BY <1>1, HearingLossless, CommandLossless DEF CoordinatorStep
<1>2. CASE CommandStep
  BY <1>2, CommandLossless
<1>3. CASE WorkerStep
  <2>1. PICK w \in Workers :
        \/ Launch(w) \/ (\E p \in Workers : Fork(p, w)) \/ ForkRefused(w)
        \/ Restart(w) \/ RestartRefused(w) \/ WorkerStarts(w) \/ Restored(w)
        \/ Obey(w) \/ ObeyKill(w) \/ Finish(w) \/ Crash(w)
    BY <1>3 DEF WorkerStep
  <2>2. CASE Launch(w) \/ (\E p \in Workers : Fork(p, w)) \/ Restart(w) \/ RestartRefused(w)
    BY <2>2, NewcomersLossless
  <2>3. CASE ForkRefused(w) \/ ObeyKill(w) \/ Finish(w) \/ Crash(w)
    BY <2>3, DeathLossless
  <2>4. CASE WorkerStarts(w) \/ Restored(w) \/ Obey(w)
    BY <2>4, BeginLossless, ObeyLossless
  <2> QED BY <2>1, <2>2, <2>3, <2>4
<1>4. CASE NextRun
  <2>1. Clients' = {} /\ Alive' = {} /\ \A v \in Workers : toWorker'[v] = <<>>
    <3>1. Alive = {} /\ Clients = {} /\ proc' = [w \in Workers |-> "absent"]
          /\ UNCHANGED <<recorded, toWorker>>
      BY <1>4 DEF NextRun
    <3>2. \A v \in Workers : toWorker[v] = <<>>
      BY <3>1 DEF IndInv, Membership, Alive
    <3> QED BY <3>1, <3>2 DEF Clients, Alive
  <2>2. (Vacant => Lossless)'
    BY EmptyLossless, PTL
  <2> QED BY <2>1, <2>2 DEF Vacant
<1>5. CASE UNCHANGED vars
  BY <1>5, SameLossless DEF vars, procVars, diskVars
<1> QED BY <1>1, <1>2, <1>3, <1>4, <1>5 DEF Next

(* Whoever is counted at the leader election takes part to the end.         *)
THEOREM LosslessHolds == ASSUME ~LateLaunch, NobodyKills PROVE Spec => []Lossless
<1>1. Init => Lossless
  <2> SUFFICES ASSUME Init PROVE Lossless
    OBVIOUS
  <2>1. Clients = {} /\ Alive = {} /\ \A w \in Workers : toWorker[w] = <<>>
    BY DEF Init, Clients, Alive
  <2> QED BY <2>1, EmptyLossless DEF Vacant
<1>2. IndInv /\ IndInv' /\ Lossless /\ [Next]_vars => Lossless'
  BY NextLossless
<1> QED BY <1>1, <1>2, IndInvHolds, PTL DEF Spec

(* Where nobody crashes inside a checkpoint and nothing is killed, the      *)
(* restart script names as many images as each of them says there are       *)
(* processes: a restart that waits for that many finds them all.            *)
THEOREM ScriptsAreRestartable ==
    ASSUME ~LateLaunch, NobodyKills PROVE Spec => ScriptIsRestartable
<1>1. ASSUME IndInv, Lossless, Next, script' # script
      PROVE  \A v \in script'.files : image[v].numPeers = Cardinality(script'.files)
  <2>1. PICK w \in Workers :
              /\ \/ OnData(w) /\ Head(toCoord[w]).type # "CKPT_FILENAME"
                 \/ OnDisconnect(w) /\ Clients # {w}
              /\ AllCheckpointed(recorded[w], MinimumState(recorded'))
    BY <1>1, WritesScript
  <2>2. PICK k \in Phases : Phase(k)
    BY <1>1 DEF IndInv
  <2>3. PICK s : Heard(w, s) /\ Speaks(k, w, s)
    BY <1>1, <2>1, <2>2, ReportHeard, DepartureHeard
  <2>4. /\ recorded[w] = DRAINED /\ MinimumState(recorded') = NextState(recorded[w])
        /\ script'.files = restartFilenames /\ w \in Clients
    BY <2>1, <2>3 DEF AllCheckpointed, NextState, RestartScript, Heard
  <2>5. /\ recorded[w] = k
        /\ \A v \in Alive : state[v] = NextState(k)
        /\ \A v \in Clients : toCoord[v] # BothReports \/ proc[v] = "dead"
    BY <1>1, <2>2, <2>3, <2>4, CrossedFacts
  <2>6. k = DRAINED /\ NextState(k) = CHECKPOINTED /\ Written(k) /\ Busy
    BY <2>2, <2>4, <2>5 DEF NextState, Phase, Busy
  <2>7. ~killInProgress
    BY <1>1, <2>4 DEF Lossless, KillsAfterImages
  <2>8. \A v \in Clients : proc[v] # "dead"
    BY <1>1, <2>2, <2>6, <2>7, DepartedRan
  <2>9. proc \in [Workers -> {"absent", "alive", "dead"}] /\ \A v \in Clients : proc[v] # "absent"
    BY <1>1 DEF IndInv, TypeOK, Membership
  <2>10. Clients \subseteq restartFilenames
    BY <2>5, <2>6, <2>8, <2>9 DEF Written, Alive, Clients
  <2>11. PICK F : F = restartFilenames
    OBVIOUS
  <2>12. IsFiniteSet(F) /\ Cardinality(F) \in Nat /\ Cardinality(Clients) \in Nat
         /\ Cardinality(Clients) <= Cardinality(F)
    BY <1>1, <2>10, <2>11, FiniteClients, FS_Subset, FS_CardinalityType DEF IndInv
  <2>13. \A v \in F : image[v].numPeers >= Cardinality(F) /\ image[v].numPeers <= Cardinality(Clients)
                      /\ image[v].numPeers \in Int
    <3>1. Clients \cup restartFilenames = F
      BY <2>10, <2>11
    <3>2. \A v \in F : Fresh(image[v])
      BY <2>6, <2>11 DEF Written
    <3>3. \A v \in F : Within(image[v])
      BY <1>1, <2>4, <2>11 DEF Lossless, NobodyLost
    <3> QED BY <3>1, <3>2, <3>3 DEF Fresh, Within, Infos
  <2>14. \A v \in F : image[v].numPeers = Cardinality(F)
    BY <2>12, <2>13
  <2> QED BY <2>4, <2>11, <2>14
<1>2. IndInv /\ Lossless /\ [Next]_vars =>
        [script' # script =>
            \A w \in script'.files : image[w].numPeers = Cardinality(script'.files)]_vars
  BY <1>1
<1> QED BY <1>2, IndInvHolds, LosslessHolds, PTL DEF Spec, ScriptIsRestartable
==============================================================================
