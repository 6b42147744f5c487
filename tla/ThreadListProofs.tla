-------------------------- MODULE ThreadListProofs ---------------------------
(***************************************************************************)
(* IndInv is an inductive invariant of ThreadList, for any number of       *)
(* threads, of wrapped calls and of checkpoints.                           *)
(***************************************************************************)
EXTENDS ThreadList, CollectionTheorems

(* The places at which the handler can stop a thread during a checkpoint.   *)
Resting == {"user", "exclWait"} \cup Mutexes

Stopped == {t \in Threads : handler[t] # "out"}
Waiting == {t \in Threads : handler[t] = "waiting"}

(* From here on the checkpoint thread holds mutex m, until releaseLocks.    *)
Behind(m) == {"creation", "execution", "uninitialized", "scan", "collect"} \cup
             (IF m = "libdlLock" THEN {} ELSE {"libdlLock"}) \cup
             (IF m = "_dmtcp_lock" THEN {"theCkptCanStart"} ELSE {})

(* What the checkpoint thread holds at each of its places, and that nobody  *)
(* is in a section whose lock it holds.                                     *)
Locks ==
    /\ held = CASE ckpt = "execution" -> {"creation"}
                [] ckpt \in {"uninitialized", "scan", "collect"} -> {"creation", "execution"}
                [] OTHER -> {}
    /\ \A m \in Mutexes : owner[m] = CkptThread <=> ckpt \in Behind(m)
    /\ \A t \in Threads :
          /\ "creation" \in held => pc[t] \notin {"create", "clone", "cloned", "created", "unable"}
          /\ "execution" \in held => pc[t] \notin {"wrapper", "clone", "cloned", "exiting", "excl"}
    /\ ckpt \in {"precheckpoint", "written"} => \A m \in Mutexes : owner[m] = Nobody

(* A thread in runCoordinatorCmd holds what it is going to release, and     *)
(* _dmtcp_lock is held nowhere else.                                        *)
Commands ==
    \A t \in Threads :
        /\ pc[t] \in {"command", "unlocking"} => owner["_dmtcp_lock"] = t
        /\ owner["_dmtcp_lock"] = t => pc[t] \in {"theCkptCanStart", "command", "unlocking"}
        /\ pc[t] = "command" => owner["theCkptCanStart"] = t

(* How often a thread at a place is counted in uninitializedThreadCount.    *)
Weight == [p \in Places |-> CASE p \in {"create", "unable", "uncreated", "starting"} -> 1
                              [] p \in {"clone", "born", "listed"} -> 2
                              [] OTHER -> 0]
Weights == [t \in Threads |-> Weight[pc[t]]]

Counted == uninitializedThreadCount = SumOver(Weights, Threads)

(* A thread, its descriptor and its place in the handler belong together.   *)
Descriptors ==
    \A t \in Threads :
        /\ Alive(t) /\ pc[t] # "born" => t \in activeThreads
        /\ pc[t] \in {"exiting", "zombie"} => state[t] = "ST_ZOMBIE"
        /\ Alive(t) /\ pc[t] \notin {"born", "exiting", "zombie"} => state[t] # "ST_ZOMBIE"
        /\ handler[t] # "out" => pc[t] \in Resting
        /\ handler[t] = "out" => state[t] \in {"ST_RUNNING", "ST_SIGNALED", "ST_ZOMBIE"}
        /\ handler[t] = "saved" => state[t] = "ST_SUSPINPROG"
        /\ handler[t] \in {"waiting", "restored"} => state[t] = "ST_SUSPENDED"
        /\ handler[t] = "woken" => state[t] = "ST_RUNNING"
        /\ t \in pending => /\ state[t] = "ST_SIGNALED" /\ handler[t] = "out"
                            /\ pc[t] \in Resting

(* Which steps of the handler there are at a place of the checkpoint thread.*)
Handlers ==
    /\ pending # {} => ckpt = "scan"
    /\ \A t \in Threads :
          /\ handler[t] = "saved" => ckpt \in {"scan", "collect"}
          /\ handler[t] = "waiting" => ckpt \in {"scan", "collect", "precheckpoint", "written",
                                                 "restore", "resume", "sleep", "crashed"}
          /\ handler[t] = "woken" => ckpt \in {"resume", "sleep"}
          /\ handler[t] = "restored" => ckpt = "restore"

(* Nobody is half created from the first pass over the list on, and nobody  *)
(* runs but those past threadExit once the last pass is over.               *)
Halted ==
    /\ ckpt \in {"scan", "collect", "precheckpoint", "written", "restore"} =>
          \A t \in Threads : Alive(t) => pc[t] \in Resting \cup {"zombie"}
    /\ ckpt \in {"collect", "precheckpoint", "written", "restore"} =>
          /\ \A t \in Threads : Alive(t) /\ pc[t] # "zombie" => handler[t] # "out"
          /\ \A t \in activeThreads : handler[t] # "out" \/ state[t] = "ST_ZOMBIE"
          /\ numUserThreads = Cardinality(Stopped)

(* What a pass that needs no further one has seen so far.                   *)
Passing ==
    ckpt = "scan" =>
        /\ toScan \subseteq activeThreads
        /\ ~needrescan =>
              /\ \A t \in activeThreads \ toScan : handler[t] # "out" \/ state[t] = "ST_ZOMBIE"
              /\ numUserThreads = Cardinality(Stopped \ toScan)

Semaphores ==
    /\ preResumeThreadCount = Cardinality(Stopped)
    /\ ckpt \notin {"scan", "collect", "restore"} => semNotifyCkptThread = 0
    /\ ckpt = "scan" => semNotifyCkptThread = Cardinality(Waiting)
    /\ ckpt \in {"collect", "restore"} =>
          left + Cardinality(Waiting) = semNotifyCkptThread + numUserThreads
    /\ ckpt \in {"resume", "sleep"} =>
          semWaitForCkptThreadSignal + left = Cardinality(Waiting)
    /\ ckpt \notin {"resume", "sleep"} => semWaitForCkptThreadSignal = 0
    /\ ckpt = "sleep" => left = 0

IndInv ==
    /\ TypeOK /\ Locks /\ Counted /\ Descriptors
    /\ Handlers /\ Halted /\ Passing /\ Semaphores

------------------------------------------------------------------------------
(* The places and their weights.                                            *)
LEMMA WeightFacts ==
    /\ Weight \in [Places -> Nat]
    /\ Weight["create"] = 1 /\ Weight["starting"] = 1
    /\ Weight["unable"] = 1 /\ Weight["uncreated"] = 1
    /\ Weight["clone"] = 2 /\ Weight["born"] = 2 /\ Weight["listed"] = 2
    /\ \A p \in Places \ {"create", "unable", "uncreated", "starting", "clone", "born", "listed"} :
          Weight[p] = 0
    /\ TypeOK => Weights \in [Threads -> Nat]
BY DEF Weight, Weights, Places, Mutexes, TypeOK

(* Every set of threads is finite.                                          *)
LEMMA ThreadSets ==
    ASSUME NEW S \in SUBSET Threads
    PROVE  IsFiniteSet(S) /\ Cardinality(S) \in Nat
BY ThreadAssumption, FS_Subset, FS_CardinalityType

(* The sets that the semaphores are compared with.                          *)
LEMMA HandlerSets ==
    /\ Stopped \in SUBSET Threads /\ Waiting \in SUBSET Stopped
    /\ IsFiniteSet(Stopped) /\ Cardinality(Stopped) \in Nat
    /\ IsFiniteSet(Waiting) /\ Cardinality(Waiting) \in Nat
    /\ Cardinality(Waiting) <= Cardinality(Stopped)
    /\ Cardinality(Stopped) = Cardinality(Waiting) => Stopped = Waiting
<1>1. Stopped \in SUBSET Threads /\ Waiting \in SUBSET Stopped
  BY DEF Stopped, Waiting
<1> QED BY <1>1, ThreadSets, FS_Subset

(* Init establishes the invariant.                                          *)
LEMMA InitIndInv == Init => IndInv
<1> SUFFICES ASSUME Init PROVE IndInv
  OBVIOUS
<1> USE ThreadAssumption, OwnerAssumption DEF Init
<1>1. TypeOK
  <2>1. needrescan \in BOOLEAN
    BY Zenon
  <2> QED BY <2>1 DEF TypeOK, Places, ThreadStates, Mutexes, NotThreads
<1>2. Locks
  BY DEF Locks, Behind, Mutexes, Nobody, CkptThread
<1>3. Counted
  <2>1. \A t \in Threads : Weights[t] = 0
    BY WeightFacts DEF Weights, Places
  <2>2. SumOver(Weights, Threads) = 0
    BY <1>1, <2>1, WeightFacts, SumZero
  <2> QED BY <2>2 DEF Counted
<1>4. Descriptors
  BY DEF Descriptors, Alive
<1>5. Handlers /\ Halted /\ Passing
  BY DEF Handlers, Halted, Passing
<1>6. Stopped = {} /\ Waiting = {}
  BY DEF Stopped, Waiting
<1>7. Semaphores
  BY <1>6, FS_EmptySet DEF Semaphores
<1> QED BY <1>1, <1>2, <1>3, <1>4, <1>5, <1>7 DEF IndInv

------------------------------------------------------------------------------
(* Steps of the user threads.                                               *)

(* Who can run while the checkpoint thread is busy.                         *)
LEMMA WhoRuns ==
    ASSUME IndInv, NEW t \in Threads, Runs(t)
    PROVE  /\ handler[t] = "out" /\ Alive(t) /\ ckpt # "crashed"
           /\ ckpt = "scan" => pc[t] \in Resting \cup {"zombie"}
           /\ ckpt \in {"collect", "precheckpoint", "written", "restore"} => pc[t] = "zombie"
BY DEF IndInv, Halted, Runs

(* The counter follows a thread from one place to another.                  *)
LEMMA CountStep ==
    ASSUME TypeOK, Counted, NEW t \in Threads, NEW from \in Places, NEW to \in Places,
           pc[t] = from, pc' = [pc EXCEPT ![t] = to],
           uninitializedThreadCount' = uninitializedThreadCount - Weight[from] + Weight[to]
    PROVE  Counted' /\ uninitializedThreadCount' \in Nat
<1> DEFINE g == [x \in Threads |-> Weight[pc'[x]]]
<1>1. pc' \in [Threads -> Places] /\ pc'[t] = to /\ \A x \in Threads \ {t} : pc'[x] = pc[x]
  BY DEF TypeOK
<1>2. Weights \in [Threads -> Nat] /\ g \in [Threads -> Nat]
  BY <1>1, WeightFacts
<1>3. \A x \in Threads \ {t} : Weights[x] = g[x]
  BY <1>1 DEF Weights
<1>4. Weights[t] = Weight[from] /\ g[t] = Weight[to]
  BY <1>1 DEF Weights
<1>5. Weights' = g
  BY DEF Weights
<1> HIDE DEF g
<1>6. /\ SumOver(g, Threads) + Weights[t] = SumOver(Weights, Threads) + g[t]
      /\ SumOver(Weights, Threads) \in Nat /\ SumOver(g, Threads) \in Nat
      /\ Weights[t] \in Nat /\ g[t] \in Nat
  BY <1>2, <1>3, ThreadAssumption, SumChange
<1>7. uninitializedThreadCount' = SumOver(g, Threads)
  <2> DEFINE before == SumOver(Weights, Threads)
             after == SumOver(g, Threads)
             a == Weight[from]
             b == Weight[to]
  <2>1. before \in Nat /\ after \in Nat /\ a \in Nat /\ b \in Nat /\ after + a = before + b
    BY <1>4, <1>6
  <2>2. uninitializedThreadCount' = before - a + b
    BY DEF Counted
  <2> HIDE DEF before, after, a, b
  <2>3. uninitializedThreadCount' = after
    BY <2>1, <2>2
  <2> QED BY <2>3 DEF after
<1> QED BY <1>5, <1>6, <1>7 DEF Counted

(* A user thread goes from one place to another and leaves its descriptor   *)
(* as it is.                                                                *)
LEMMA GotoStep ==
    ASSUME IndInv, NEW t \in Threads, NEW from \in Places, NEW to \in Places,
           Goto(t, from, to), UNCHANGED <<state, activeThreads>>, ops' \in 0 .. MaxOps,
           owner' \in [Mutexes -> Threads \cup NotThreads],
           \A m \in Mutexes : owner'[m] = CkptThread <=> owner[m] = CkptThread,
           owner' = owner \/ from # "zombie",
           uninitializedThreadCount' = uninitializedThreadCount - Weight[from] + Weight[to],
           to \in {"create", "clone", "cloned", "created", "unable"} =>
               "creation" \notin held \/ from \in {"create", "clone", "cloned", "created", "unable"},
           to \in {"wrapper", "clone", "cloned", "exiting", "excl"} =>
               "execution" \notin held \/ from \in {"wrapper", "clone", "cloned", "exiting", "excl"},
           from \in Resting /\ "execution" \in held => to \in Resting,
           from = "zombie" <=> to = "gone",
           to \in {"exiting", "zombie"} <=> from = "exiting",
           from # "born" /\ to \notin {"unborn", "born"}
    PROVE  IndInv'
<1>1. /\ TypeOK /\ Locks /\ Counted /\ Descriptors
      /\ Handlers /\ Halted /\ Passing /\ Semaphores
  BY DEF IndInv
<1>2. /\ pc[t] = from /\ pc' = [pc EXCEPT ![t] = to]
      /\ pc' \in [Threads -> Places]
      /\ pc'[t] = to /\ \A x \in Threads : x # t => pc'[x] = pc[x]
      /\ Runs(t)
      /\ UNCHANGED <<handler, pending, preResumeThreadCount, semNotifyCkptThread,
                     semWaitForCkptThreadSignal, ckpt, held, left, toScan, needrescan,
                     numUserThreads, ckpts>>
  BY <1>1 DEF Goto, TypeOK, signalVars, ckptVars
<1>3. /\ handler[t] = "out" /\ Alive(t) /\ ckpt # "crashed"
      /\ ckpt = "scan" => from \in Resting \cup {"zombie"}
      /\ ckpt \in {"collect", "precheckpoint", "written", "restore"} => from = "zombie"
  BY <1>2, WhoRuns
<1>4. Counted' /\ uninitializedThreadCount' \in Nat
  BY <1>1, <1>2, CountStep
<1>5. TypeOK'
  BY <1>1, <1>2, <1>4 DEF TypeOK
<1>6. Locks'
  <2>1. \A m \in Mutexes : owner'[m] = CkptThread <=> ckpt' \in Behind(m)
    BY <1>1, <1>2 DEF Locks
  <2>2. ASSUME NEW x \in Threads
        PROVE  /\ "creation" \in held => pc'[x] \notin {"create", "clone", "cloned", "created", "unable"}
               /\ "execution" \in held => pc'[x] \notin {"wrapper", "clone", "cloned", "exiting", "excl"}
    BY <1>1, <1>2 DEF Locks
  <2>3. ckpt \in {"precheckpoint", "written"} => \A m \in Mutexes : owner'[m] = Nobody
    BY <1>1, <1>3 DEF Locks
  <2>4. held' = (CASE ckpt' = "execution" -> {"creation"}
                   [] ckpt' \in {"uninitialized", "scan", "collect"} -> {"creation", "execution"}
                   [] OTHER -> {})
    BY <1>1, <1>2 DEF Locks
  <2> QED BY <1>2, <2>1, <2>2, <2>3, <2>4 DEF Locks
<1>7. ckpt = "scan" => "execution" \in held
  BY <1>1 DEF Locks
<1>8. Descriptors'
  <2> SUFFICES ASSUME NEW x \in Threads PROVE Descriptors!(x)'
    BY DEF Descriptors
  <2>1. CASE x # t
    BY <1>1, <1>2, <2>1 DEF Descriptors, Alive
  <2>2. CASE x = t
    <3>1. t \in pending => to \in Resting
      BY <1>1, <1>7, <1>3, <1>2 DEF Descriptors, Handlers
    <3> QED BY <1>1, <1>2, <1>3, <2>2, <3>1 DEF Descriptors, Alive
  <2> QED BY <2>1, <2>2
<1>9. Handlers'
  BY <1>1, <1>2 DEF Handlers
<1>10. Stopped' = Stopped /\ Waiting' = Waiting
  BY <1>2 DEF Stopped, Waiting
<1>11. Halted'
  <2>1. ASSUME ckpt \in {"scan", "collect", "precheckpoint", "written", "restore"}, NEW x \in Threads,
               Alive(x)'
        PROVE  pc'[x] \in Resting \cup {"zombie"}
    BY <1>1, <1>2, <1>3, <1>7, <2>1 DEF Halted, Alive
  <2>2. ASSUME ckpt \in {"collect", "precheckpoint", "written", "restore"}, NEW x \in Threads,
               Alive(x)', pc'[x] # "zombie"
        PROVE  handler'[x] # "out"
    BY <1>1, <1>2, <1>3, <2>2 DEF Halted, Alive
  <2> QED BY <1>1, <1>2, <1>10, <2>1, <2>2 DEF Halted
<1>12. Passing'
  BY <1>1, <1>2, <1>10 DEF Passing
<1>13. Semaphores'
  BY <1>1, <1>2, <1>10 DEF Semaphores
<1> QED BY <1>4, <1>5, <1>6, <1>8, <1>9, <1>11, <1>12, <1>13 DEF IndInv

(* The steps that leave the counter alone.                                  *)
LEMMA PlainSteps ==
    ASSUME IndInv, NEW t \in Threads,
           \/ EnterWrapper(t) \/ LeaveWrapper(t) \/ CallExcl(t) \/ AcquireExcl(t)
           \/ ReleaseExcl(t) \/ LeaveClone(t) \/ LeaveCreate(t) \/ LeaveExit(t) \/ Vanish(t)
    PROVE  IndInv'
<1> USE DEF Plain, Call, Resting
<1>1. ops \in 0 .. MaxOps /\ MaxOps \in Nat /\ owner \in [Mutexes -> Threads \cup NotThreads]
      /\ uninitializedThreadCount \in Nat
  BY ThreadAssumption DEF IndInv, TypeOK
<1>2. \A p \in {"user", "wrapper", "exclWait", "excl", "cloned", "created", "exiting", "zombie", "gone"} :
          p \in Places /\ Weight[p] = 0
  BY WeightFacts DEF Places
<1>3. CASE EnterWrapper(t)
  BY <1>1, <1>2, <1>3, GotoStep DEF EnterWrapper, CanReadExecution
<1>4. CASE LeaveWrapper(t)
  BY <1>1, <1>2, <1>4, GotoStep DEF LeaveWrapper
<1>5. CASE CallExcl(t)
  BY <1>1, <1>2, <1>5, GotoStep DEF CallExcl
<1>6. CASE AcquireExcl(t)
  BY <1>1, <1>2, <1>6, GotoStep DEF AcquireExcl, CanWriteExecution
<1>7. CASE ReleaseExcl(t)
  BY <1>1, <1>2, <1>7, GotoStep DEF ReleaseExcl
<1>8. CASE LeaveClone(t)
  BY <1>1, <1>2, <1>8, GotoStep DEF LeaveClone, Mutexes
<1>9. CASE LeaveCreate(t)
  BY <1>1, <1>2, <1>9, GotoStep DEF LeaveCreate
<1>10. CASE LeaveExit(t)
  BY <1>1, <1>2, <1>10, GotoStep DEF LeaveExit, Mutexes
<1>11. CASE Vanish(t)
  BY <1>1, <1>2, <1>11, GotoStep DEF Vanish, Mutexes
<1> QED BY <1>3, <1>4, <1>5, <1>6, <1>7, <1>8, <1>9, <1>10, <1>11

(* The steps at a mutex.  Once the checkpoint thread holds the wrapper lock *)
(* it holds every mutex.                                                    *)
LEMMA MutexSteps ==
    ASSUME IndInv, NEW t \in Threads, NEW m \in UserMutexes,
           CallLock(t, m) \/ AcquireLock(t, m) \/ ReleaseLock(t, m)
    PROVE  IndInv'
<1> USE DEF Plain, Call, Resting
<1>1. /\ ops \in 0 .. MaxOps /\ MaxOps \in Nat /\ owner \in [Mutexes -> Threads \cup NotThreads]
      /\ uninitializedThreadCount \in Nat
  BY ThreadAssumption DEF IndInv, TypeOK
<1>2. /\ {"user", "command", m} \subseteq Places
      /\ Weight["user"] = 0 /\ Weight["command"] = 0 /\ Weight[m] = 0
      /\ m \in {"theCkptCanStart", "libdlLock"} /\ m \in Mutexes
  BY WeightFacts DEF Places, Mutexes, UserMutexes
<1>3. t # CkptThread /\ Nobody # CkptThread
  BY OwnerAssumption DEF NotThreads, Nobody, CkptThread
<1>4. CASE CallLock(t, m)
  BY <1>1, <1>2, <1>4, GotoStep DEF CallLock
<1>5. CASE AcquireLock(t, m)
  <2>1. /\ owner' \in [Mutexes -> Threads \cup NotThreads]
        /\ \A l \in Mutexes : owner'[l] = CkptThread <=> owner[l] = CkptThread
    BY <1>1, <1>2, <1>3, <1>5 DEF AcquireLock
  <2>2. "execution" \notin held
    BY <1>2, <1>3, <1>5 DEF AcquireLock, IndInv, Locks, Behind
  <2>3. CASE owner["_dmtcp_lock"] = t
    BY <1>1, <1>2, <1>5, <2>1, <2>2, <2>3, GotoStep DEF AcquireLock
  <2>4. CASE owner["_dmtcp_lock"] # t
    BY <1>1, <1>2, <1>5, <2>1, <2>2, <2>4, GotoStep DEF AcquireLock
  <2> QED BY <2>3, <2>4
<1>6. CASE ReleaseLock(t, m)
  <2>1. /\ owner' \in [Mutexes -> Threads \cup NotThreads]
        /\ \A l \in Mutexes : owner'[l] = CkptThread <=> owner[l] = CkptThread
    BY <1>1, <1>2, <1>3, <1>6 DEF ReleaseLock, NotThreads
  <2> QED BY <1>1, <1>2, <1>6, <2>1, GotoStep DEF ReleaseLock
<1> QED BY <1>4, <1>5, <1>6

(* The steps of runCoordinatorCmd.                                          *)
LEMMA CommandSteps ==
    ASSUME IndInv, Commands, NEW t \in Threads,
           RunCoordinatorCmd(t) \/ DmtcpLock(t) \/ EnableCkpt(t) \/ DmtcpUnlock(t)
    PROVE  IndInv'
<1> USE DEF Plain, Call, Resting
<1>1. /\ ops \in 0 .. MaxOps /\ MaxOps \in Nat /\ owner \in [Mutexes -> Threads \cup NotThreads]
      /\ uninitializedThreadCount \in Nat
  BY ThreadAssumption DEF IndInv, TypeOK
<1>2. /\ {"user", "command", "unlocking"} \cup Mutexes \subseteq Places
      /\ \A p \in {"user", "command", "unlocking"} \cup Mutexes : Weight[p] = 0
      /\ {"_dmtcp_lock", "theCkptCanStart"} \subseteq Mutexes
  BY WeightFacts DEF Places, Mutexes
<1>3. t # CkptThread /\ Nobody # CkptThread
  BY OwnerAssumption DEF NotThreads, Nobody, CkptThread
<1>4. CASE RunCoordinatorCmd(t)
  BY <1>1, <1>2, <1>4, GotoStep DEF RunCoordinatorCmd
<1>5. CASE DmtcpLock(t)
  <2>1. /\ owner' \in [Mutexes -> Threads \cup NotThreads]
        /\ \A l \in Mutexes : owner'[l] = CkptThread <=> owner[l] = CkptThread
    BY <1>1, <1>2, <1>3, <1>5 DEF DmtcpLock
  <2>2. "execution" \notin held
    BY <1>2, <1>3, <1>5 DEF DmtcpLock, IndInv, Locks, Behind
  <2>3. CASE owner["theCkptCanStart"] = t
    BY <1>1, <1>2, <1>5, <2>1, <2>2, <2>3, GotoStep DEF DmtcpLock
  <2>4. CASE owner["theCkptCanStart"] # t
    BY <1>1, <1>2, <1>5, <2>1, <2>2, <2>4, GotoStep DEF DmtcpLock
  <2> QED BY <2>3, <2>4
<1>6. CASE EnableCkpt(t)
  <2>1. owner["theCkptCanStart"] = t /\ "unlocking" \in Places /\ "command" \notin Mutexes
    BY <1>2, <1>6 DEF EnableCkpt, Goto, Commands, Mutexes
  <2>2. /\ owner' \in [Mutexes -> Threads \cup NotThreads]
        /\ \A l \in Mutexes : owner'[l] = CkptThread <=> owner[l] = CkptThread
    BY <1>1, <1>2, <1>3, <1>6, <2>1 DEF EnableCkpt, NotThreads
  <2> QED BY <1>1, <1>2, <1>6, <2>1, <2>2, GotoStep DEF EnableCkpt
<1>7. CASE DmtcpUnlock(t)
  <2>1. owner["_dmtcp_lock"] = t /\ "unlocking" \notin Mutexes
    BY <1>2, <1>7 DEF DmtcpUnlock, Goto, Commands, Mutexes
  <2>2. /\ owner' \in [Mutexes -> Threads \cup NotThreads]
        /\ \A l \in Mutexes : owner'[l] = CkptThread <=> owner[l] = CkptThread
    BY <1>1, <1>2, <1>3, <1>7, <2>1 DEF DmtcpUnlock, NotThreads
  <2> QED BY <1>1, <1>2, <1>7, <2>1, <2>2, GotoStep DEF DmtcpUnlock
<1> QED BY <1>4, <1>5, <1>6, <1>7

(* The steps of pthread_create around the counter.                          *)
LEMMA CountedSteps ==
    ASSUME IndInv, NEW t \in Threads,
           \/ PthreadCreate(t) \/ EnterClone(t)
           \/ CloneFails(t) \/ CreateFails(t) \/ CreateUndone(t)
           \/ CloneStarted(t) \/ ThreadFinishedInitialization(t)
    PROVE  IndInv'
<1> USE DEF Call, Resting, Uninitialized, Initialized, Mutexes
<1>1. /\ ops \in 0 .. MaxOps /\ MaxOps \in Nat /\ owner \in [Mutexes -> Threads \cup NotThreads]
      /\ uninitializedThreadCount \in Nat
  BY ThreadAssumption DEF IndInv, TypeOK
<1>2. /\ {"user", "create", "clone", "unable", "uncreated", "listed", "starting"} \subseteq Places
      /\ Weight["unable"] = 1 /\ Weight["uncreated"] = 1
      /\ Weight["user"] = 0 /\ Weight["create"] = 1 /\ Weight["clone"] = 2
      /\ Weight["listed"] = 2 /\ Weight["starting"] = 1
  BY WeightFacts DEF Places
<1>3. CASE PthreadCreate(t)
  <2>1. "execution" \notin held
    <3>1. ckpt = "scan" => "creation" \in held
      BY DEF IndInv, Locks
    <3> QED BY <1>3 DEF IndInv, Locks, PthreadCreate, CanReadCreation
  <2> QED BY <1>1, <1>2, <1>3, <2>1, GotoStep DEF PthreadCreate, CanReadCreation
<1>4. CASE CreateFails(t)
  <2>1. PICK from \in {"create", "unable"} : Goto(t, from, "uncreated")
    BY <1>4 DEF CreateFails
  <2>2. from \in Places /\ Weight[from] = 1
    BY <1>2, <2>1
  <2> QED BY <1>1, <1>2, <1>4, <2>1, <2>2, GotoStep DEF CreateFails, Plain
<1>5. CASE EnterClone(t)
  BY <1>1, <1>2, <1>5, GotoStep DEF EnterClone, CanReadExecution
<1>6. CASE CloneFails(t)
  BY <1>1, <1>2, <1>6, GotoStep DEF CloneFails
<1>7. CASE CloneStarted(t)
  BY <1>1, <1>2, <1>7, GotoStep DEF CloneStarted
<1>8. CASE ThreadFinishedInitialization(t)
  BY <1>1, <1>2, <1>8, GotoStep DEF ThreadFinishedInitialization
<1>9. CASE CreateUndone(t)
  BY <1>1, <1>2, <1>9, GotoStep DEF CreateUndone
<1> QED BY <1>3, <1>4, <1>5, <1>6, <1>7, <1>8, <1>9

(* RealClone: the counts pass to the child, whose tid may have an old       *)
(* descriptor on the list.                                                  *)
LEMMA RealCloneStep ==
    ASSUME IndInv, NEW t \in Threads, NEW child \in Threads, RealClone(t, child)
    PROVE  IndInv'
<1>1. /\ TypeOK /\ Locks /\ Counted /\ Descriptors
      /\ Handlers /\ Halted /\ Passing /\ Semaphores
  BY DEF IndInv
<1>2. /\ Runs(t) /\ pc[t] = "clone" /\ ~Alive(child) /\ child # t
      /\ pc' = [pc EXCEPT ![t] = "cloned", ![child] = "born"]
      /\ UNCHANGED <<state, activeThreads, uninitializedThreadCount, owner, ops, handler, pending,
                     preResumeThreadCount, semNotifyCkptThread, semWaitForCkptThreadSignal,
                     ckpt, held, left, toScan, needrescan, numUserThreads, ckpts>>
  BY DEF RealClone, Plain, signalVars, ckptVars, Alive
<1>3. /\ pc' \in [Threads -> Places] /\ pc'[t] = "cloned" /\ pc'[child] = "born"
      /\ \A x \in Threads : x \notin {t, child} => pc'[x] = pc[x]
  BY <1>1, <1>2 DEF TypeOK, Places
<1>4. /\ ckpt \notin {"scan", "collect", "precheckpoint", "written", "restore"}
      /\ handler[t] = "out"
  BY <1>2, WhoRuns DEF Resting, Mutexes
<1>5. TypeOK'
  BY <1>1, <1>2, <1>3 DEF TypeOK
<1>6. Counted'
  <2> DEFINE f == [x \in Threads |-> IF x = t THEN 0 ELSE Weights[x]]
             g == [x \in Threads |-> Weight[pc'[x]]]
  <2>1. Weights \in [Threads -> Nat] /\ f \in [Threads -> Nat] /\ g \in [Threads -> Nat]
    BY <1>1, <1>3, WeightFacts
  <2>2. Weights[t] = 2 /\ f[t] = 0 /\ \A x \in Threads \ {t} : Weights[x] = f[x]
    BY <1>2, WeightFacts DEF Weights
  <2>3. pc[child] \in {"unborn", "gone"} /\ "cloned" \in Places
    BY <1>2 DEF Alive, Places
  <2>4. f[child] = 0 /\ g[child] = 2 /\ \A x \in Threads \ {child} : f[x] = g[x]
    BY <1>2, <1>3, <2>3, WeightFacts DEF Weights, Places
  <2>5. Weights' = g
    BY DEF Weights
  <2> HIDE DEF f, g
  <2>6. SumOver(f, Threads) + 2 = SumOver(Weights, Threads) + 0 /\ SumOver(f, Threads) \in Nat
        /\ SumOver(Weights, Threads) \in Nat
    BY <2>1, <2>2, ThreadAssumption, SumChange
  <2>7. SumOver(g, Threads) + 0 = SumOver(f, Threads) + 2 /\ SumOver(g, Threads) \in Nat
    BY <2>1, <2>4, ThreadAssumption, SumChange
  <2>8. SumOver(g, Threads) = SumOver(Weights, Threads)
    BY <2>6, <2>7
  <2> QED BY <1>1, <1>2, <2>5, <2>8 DEF Counted
<1>7. Locks'
  <2>1. ASSUME NEW x \in Threads
        PROVE  /\ "creation" \in held => pc'[x] \notin {"create", "clone", "cloned", "created", "unable"}
               /\ "execution" \in held => pc'[x] \notin {"wrapper", "clone", "cloned", "exiting", "excl"}
    BY <1>1, <1>2, <1>3 DEF Locks
  <2> QED BY <1>1, <1>2, <1>4, <2>1 DEF Locks
<1>8. Descriptors'
  <2> SUFFICES ASSUME NEW x \in Threads PROVE Descriptors!(x)'
    BY DEF Descriptors
  <2>1. pending = {}
    BY <1>1, <1>4 DEF Handlers
  <2>2. CASE x \notin {t, child}
    BY <1>1, <1>2, <1>3, <2>2 DEF Descriptors, Alive
  <2>3. CASE x = t
    BY <1>1, <1>2, <1>3, <1>4, <2>1, <2>3 DEF Descriptors, Alive
  <2>4. CASE x = child
    <3>1. handler[child] = "out"
      BY <1>1, <1>2 DEF Descriptors, Alive, Resting, Mutexes
    <3> QED BY <1>1, <1>2, <1>3, <2>1, <2>4, <3>1 DEF Descriptors, Alive
  <2> QED BY <2>2, <2>3, <2>4
<1>9. Stopped' = Stopped /\ Waiting' = Waiting
  BY <1>2 DEF Stopped, Waiting
<1>10. Handlers' /\ Halted' /\ Passing' /\ Semaphores'
  BY <1>1, <1>2, <1>4, <1>9 DEF Handlers, Halted, Passing, Semaphores
<1> QED BY <1>5, <1>6, <1>7, <1>8, <1>10 DEF IndInv

(* UpdateTid: the new descriptor is listed and no living thread is dropped. *)
LEMMA UpdateTidStep == ASSUME IndInv, NEW t \in Threads, UpdateTid(t) PROVE IndInv'
<1>1. /\ TypeOK /\ Locks /\ Counted /\ Descriptors
      /\ Handlers /\ Halted /\ Passing /\ Semaphores
  BY DEF IndInv
<1>2. /\ Runs(t) /\ pc[t] = "born" /\ pc' = [pc EXCEPT ![t] = "listed"]
      /\ state' = [state EXCEPT ![t] = "ST_RUNNING"]
      /\ activeThreads' =
           {t} \cup {d \in activeThreads : state[d] = "ST_ZOMBIE" => Alive(d)}
      /\ UNCHANGED <<uninitializedThreadCount, owner, ops, handler, pending,
                     preResumeThreadCount, semNotifyCkptThread, semWaitForCkptThreadSignal,
                     ckpt, held, left, toScan, needrescan, numUserThreads, ckpts>>
  BY DEF UpdateTid, Goto, signalVars, ckptVars
<1>3. /\ pc' \in [Threads -> Places] /\ pc'[t] = "listed"
      /\ \A x \in Threads : x # t => pc'[x] = pc[x] /\ state'[x] = state[x]
      /\ state' \in [Threads -> ThreadStates] /\ state'[t] = "ST_RUNNING"
      /\ activeThreads' \in SUBSET Threads
  BY <1>1, <1>2 DEF TypeOK, Places, ThreadStates
<1>4. /\ ckpt \notin {"scan", "collect", "precheckpoint", "written", "restore"}
      /\ handler[t] = "out"
  BY <1>2, WhoRuns DEF Resting, Mutexes
<1>5. Counted'
  <2>1. {"born", "listed"} \subseteq Places /\ Weight["born"] = 2 /\ Weight["listed"] = 2
    BY WeightFacts DEF Places
  <2>2. uninitializedThreadCount' = uninitializedThreadCount - Weight["born"] + Weight["listed"]
    BY <1>1, <1>2, <2>1 DEF TypeOK
  <2> QED BY <1>1, <1>2, <2>1, <2>2, CountStep
<1>6. TypeOK'
  BY <1>1, <1>2, <1>3 DEF TypeOK
<1>7. Locks'
  <2>1. ASSUME NEW x \in Threads
        PROVE  /\ "creation" \in held => pc'[x] \notin {"create", "clone", "cloned", "created", "unable"}
               /\ "execution" \in held => pc'[x] \notin {"wrapper", "clone", "cloned", "exiting", "excl"}
    BY <1>1, <1>2, <1>3 DEF Locks
  <2> QED BY <1>1, <1>2, <1>4, <2>1 DEF Locks
<1>8. Descriptors'
  <2> SUFFICES ASSUME NEW x \in Threads PROVE Descriptors!(x)'
    BY DEF Descriptors
  <2>1. pending = {}
    BY <1>1, <1>4 DEF Handlers
  <2>2. CASE x # t
    <3>1. Alive(x) /\ x \in activeThreads => x \in activeThreads'
      BY <1>2
    <3> QED BY <1>1, <1>2, <1>3, <2>2, <3>1 DEF Descriptors, Alive
  <2>3. CASE x = t
    BY <1>1, <1>2, <1>3, <1>4, <2>1, <2>3 DEF Descriptors, Alive
  <2> QED BY <2>2, <2>3
<1>9. Stopped' = Stopped /\ Waiting' = Waiting
  BY <1>2 DEF Stopped, Waiting
<1>10. Handlers' /\ Halted' /\ Passing' /\ Semaphores'
  BY <1>1, <1>2, <1>4, <1>9 DEF Handlers, Halted, Passing, Semaphores
<1> QED BY <1>5, <1>6, <1>7, <1>8, <1>10 DEF IndInv

(* ThreadExit: not while the checkpoint thread holds the wrapper lock.      *)
LEMMA ThreadExitStep == ASSUME IndInv, NEW t \in Threads, ThreadExit(t) PROVE IndInv'
<1>1. /\ TypeOK /\ Locks /\ Counted /\ Descriptors
      /\ Handlers /\ Halted /\ Passing /\ Semaphores
  BY DEF IndInv
<1>2. /\ Runs(t) /\ pc[t] = "user" /\ pc' = [pc EXCEPT ![t] = "exiting"]
      /\ state' = [state EXCEPT ![t] = "ST_ZOMBIE"] /\ "execution" \notin held
      /\ UNCHANGED <<activeThreads, uninitializedThreadCount, owner, ops, handler, pending,
                     preResumeThreadCount, semNotifyCkptThread, semWaitForCkptThreadSignal,
                     ckpt, held, left, toScan, needrescan, numUserThreads, ckpts>>
  BY DEF ThreadExit, CanReadExecution, Goto, signalVars, ckptVars
<1>3. /\ pc' \in [Threads -> Places] /\ pc'[t] = "exiting"
      /\ \A x \in Threads : x # t => pc'[x] = pc[x] /\ state'[x] = state[x]
      /\ state' \in [Threads -> ThreadStates] /\ state'[t] = "ST_ZOMBIE"
  BY <1>1, <1>2 DEF TypeOK, Places, ThreadStates
<1>4. /\ ckpt \notin {"scan", "collect", "precheckpoint", "written", "restore"}
      /\ handler[t] = "out"
  <2>1. ckpt # "scan"
    BY <1>1, <1>2 DEF Locks
  <2> QED BY <1>2, <2>1, WhoRuns
<1>5. Counted'
  <2>1. {"user", "exiting"} \subseteq Places /\ Weight["user"] = 0 /\ Weight["exiting"] = 0
    BY WeightFacts DEF Places
  <2>2. uninitializedThreadCount' = uninitializedThreadCount - Weight["user"] + Weight["exiting"]
    BY <1>1, <1>2, <2>1 DEF TypeOK
  <2> QED BY <1>1, <1>2, <2>1, <2>2, CountStep
<1>6. TypeOK'
  BY <1>1, <1>2, <1>3 DEF TypeOK
<1>7. Locks'
  <2>1. ASSUME NEW x \in Threads
        PROVE  /\ "creation" \in held => pc'[x] \notin {"create", "clone", "cloned", "created", "unable"}
               /\ "execution" \in held => pc'[x] \notin {"wrapper", "clone", "cloned", "exiting", "excl"}
    BY <1>1, <1>2, <1>3 DEF Locks
  <2> QED BY <1>1, <1>2, <1>4, <2>1 DEF Locks
<1>8. Descriptors'
  <2> SUFFICES ASSUME NEW x \in Threads PROVE Descriptors!(x)'
    BY DEF Descriptors
  <2>1. pending = {}
    BY <1>1, <1>4 DEF Handlers
  <2>2. CASE x # t
    BY <1>1, <1>2, <1>3, <2>2 DEF Descriptors, Alive
  <2>3. CASE x = t
    BY <1>1, <1>2, <1>3, <1>4, <2>1, <2>3 DEF Descriptors, Alive
  <2> QED BY <2>2, <2>3
<1>9. Stopped' = Stopped /\ Waiting' = Waiting
  BY <1>2 DEF Stopped, Waiting
<1>10. Handlers' /\ Halted' /\ Passing' /\ Semaphores'
  BY <1>1, <1>2, <1>4, <1>9 DEF Handlers, Halted, Passing, Semaphores
<1> QED BY <1>5, <1>6, <1>7, <1>8, <1>10 DEF IndInv

(* Cancelled: the descriptor stays behind, to be found dead by the scan.    *)
LEMMA CancelledStep == ASSUME IndInv, NEW t \in Threads, Cancelled(t) PROVE IndInv'
<1>1. /\ TypeOK /\ Locks /\ Counted /\ Descriptors
      /\ Handlers /\ Halted /\ Passing /\ Semaphores
  BY DEF IndInv
<1>2. /\ Runs(t) /\ pc[t] = "user" /\ pc' = [pc EXCEPT ![t] = "gone"]
      /\ pending' = pending \ {t}
      /\ UNCHANGED <<state, activeThreads, uninitializedThreadCount, owner, ops, handler,
                     preResumeThreadCount, semNotifyCkptThread, semWaitForCkptThreadSignal,
                     ckpt, held, left, toScan, needrescan, numUserThreads, ckpts>>
  BY DEF Cancelled, Plain, ckptVars
<1>3. /\ pc' \in [Threads -> Places] /\ pc'[t] = "gone"
      /\ \A x \in Threads : x # t => pc'[x] = pc[x]
  BY <1>1, <1>2 DEF TypeOK, Places
<1>4. /\ ckpt \notin {"collect", "precheckpoint", "written", "restore"}
      /\ handler[t] = "out"
  BY <1>2, WhoRuns
<1>5. Counted'
  <2>1. {"user", "gone"} \subseteq Places /\ Weight["user"] = 0 /\ Weight["gone"] = 0
    BY WeightFacts DEF Places
  <2>2. uninitializedThreadCount' = uninitializedThreadCount - Weight["user"] + Weight["gone"]
    BY <1>1, <1>2, <2>1 DEF TypeOK
  <2> QED BY <1>1, <1>2, <2>1, <2>2, CountStep
<1>6. TypeOK'
  BY <1>1, <1>2, <1>3 DEF TypeOK
<1>7. Locks'
  <2>1. ASSUME NEW x \in Threads
        PROVE  /\ "creation" \in held => pc'[x] \notin {"create", "clone", "cloned", "created", "unable"}
               /\ "execution" \in held => pc'[x] \notin {"wrapper", "clone", "cloned", "exiting", "excl"}
    BY <1>1, <1>2, <1>3 DEF Locks
  <2> QED BY <1>1, <1>2, <1>4, <2>1 DEF Locks
<1>8. Descriptors'
  <2> SUFFICES ASSUME NEW x \in Threads PROVE Descriptors!(x)'
    BY DEF Descriptors
  <2>1. CASE x # t
    BY <1>1, <1>2, <1>3, <2>1 DEF Descriptors, Alive
  <2>2. CASE x = t
    BY <1>1, <1>2, <1>3, <1>4, <2>2 DEF Descriptors, Alive
  <2> QED BY <2>1, <2>2
<1>9. Stopped' = Stopped /\ Waiting' = Waiting
  BY <1>2 DEF Stopped, Waiting
<1>10. Halted'
  BY <1>1, <1>2, <1>3, <1>4 DEF Halted, Alive
<1>11. Handlers' /\ Passing' /\ Semaphores'
  BY <1>1, <1>2, <1>4, <1>9 DEF Handlers, Passing, Semaphores
<1> QED BY <1>5, <1>6, <1>7, <1>8, <1>10, <1>11 DEF IndInv

------------------------------------------------------------------------------
(* Steps of the signal handler.                                             *)

(* They leave the locks and the counter alone.                              *)
LEMMA SamePlaces ==
    ASSUME IndInv, UNCHANGED <<pc, owner, uninitializedThreadCount, ckpt, held>>
    PROVE  Locks' /\ Counted'
<1>1. Locks /\ Counted
  BY DEF IndInv
<1>2. Weights' = Weights
  BY DEF Weights
<1>3. Counted'
  BY <1>1, <1>2 DEF Counted
<1> QED BY <1>1, <1>3 DEF Locks

(* StopThisThread: a thread that was passed before it was stopped has set   *)
(* needrescan.                                                              *)
LEMMA StopThisThreadStep == ASSUME IndInv, NEW t \in Threads, StopThisThread(t) PROVE IndInv'
<1>1. /\ TypeOK /\ Locks /\ Counted /\ Descriptors
      /\ Handlers /\ Halted /\ Passing /\ Semaphores
  BY DEF IndInv
<1>2. /\ Runs(t) /\ t \in pending /\ state[t] = "ST_SIGNALED"
      /\ pending' = pending \ {t}
      /\ state' = [state EXCEPT ![t] = "ST_SUSPINPROG"]
      /\ handler' = [handler EXCEPT ![t] = "saved"]
      /\ preResumeThreadCount' = preResumeThreadCount + 1
      /\ UNCHANGED <<pc, activeThreads, owner, uninitializedThreadCount, ops,
                     semNotifyCkptThread, semWaitForCkptThreadSignal,
                     ckpt, held, left, toScan, needrescan, numUserThreads, ckpts>>
  BY DEF StopThisThread, ckptVars
<1>3. /\ ckpt = "scan" /\ handler[t] = "out" /\ pc[t] \in Resting /\ Alive(t)
      /\ t \in activeThreads
  BY <1>1, <1>2 DEF Handlers, Descriptors, Runs, Alive, Resting, Mutexes
<1>4. TypeOK'
  BY <1>1, <1>2 DEF TypeOK, ThreadStates
<1>5. Locks' /\ Counted'
  BY <1>2, SamePlaces
<1>6. Stopped' = Stopped \cup {t} /\ t \notin Stopped /\ Waiting' = Waiting
  BY <1>1, <1>2, <1>3 DEF Stopped, Waiting, TypeOK
<1>7. Descriptors'
  BY <1>1, <1>2, <1>3 DEF Descriptors, TypeOK, Alive
<1>8. Handlers'
  BY <1>1, <1>2, <1>3 DEF Handlers, TypeOK
<1>9. Halted'
  BY <1>1, <1>2, <1>3 DEF Halted, Alive
<1>10. Passing'
  <2>1. ASSUME ~needrescan PROVE t \in toScan
    BY <1>1, <1>2, <1>3, <2>1 DEF Passing
  <2>2. ~needrescan => Stopped' \ toScan = Stopped \ toScan
    BY <1>6, <2>1
  <2>3. ~needrescan => \A x \in activeThreads \ toScan : handler'[x] = handler[x] /\ state'[x] = state[x]
    BY <1>1, <1>2, <2>1 DEF TypeOK
  <2> QED BY <1>1, <1>2, <2>2, <2>3 DEF Passing
<1>11. Semaphores'
  <2>1. Cardinality(Stopped') = Cardinality(Stopped) + 1
    BY <1>6, HandlerSets, FS_AddElement
  <2> QED BY <1>1, <1>2, <1>3, <1>6, <2>1 DEF Semaphores
<1> QED BY <1>4, <1>5, <1>7, <1>8, <1>9, <1>10, <1>11 DEF IndInv

(* Suspended: one more thread waits and one more notification is there.     *)
LEMMA SuspendedStep == ASSUME IndInv, NEW t \in Threads, Suspended(t) PROVE IndInv'
<1>1. /\ TypeOK /\ Locks /\ Counted /\ Descriptors
      /\ Handlers /\ Halted /\ Passing /\ Semaphores
  BY DEF IndInv
<1>2. /\ handler[t] = "saved"
      /\ handler' = [handler EXCEPT ![t] = "waiting"]
      /\ state' = [state EXCEPT ![t] = "ST_SUSPENDED"]
      /\ semNotifyCkptThread' = semNotifyCkptThread + 1
      /\ UNCHANGED <<pc, activeThreads, owner, uninitializedThreadCount, ops, pending,
                     preResumeThreadCount, semWaitForCkptThreadSignal,
                     ckpt, held, left, toScan, needrescan, numUserThreads, ckpts>>
  BY DEF Suspended, ckptVars
<1>3. /\ ckpt \in {"scan", "collect"} /\ pc[t] \in Resting
      /\ handler'[t] = "waiting" /\ \A x \in Threads : x # t => handler'[x] = handler[x]
      /\ state'[t] = "ST_SUSPENDED" /\ \A x \in Threads : x # t => state'[x] = state[x]
  BY <1>1, <1>2 DEF Handlers, Descriptors, TypeOK
<1>4. TypeOK'
  BY <1>1, <1>2 DEF TypeOK, ThreadStates
<1>5. Locks' /\ Counted'
  BY <1>2, SamePlaces
<1>6. Stopped' = Stopped /\ Waiting' = Waiting \cup {t} /\ t \notin Waiting
  BY <1>2, <1>3 DEF Stopped, Waiting
<1>7. Descriptors'
  BY <1>1, <1>2, <1>3 DEF Descriptors, Alive
<1>8. Handlers'
  BY <1>1, <1>2, <1>3 DEF Handlers
<1>9. \A x \in Threads : (handler[x] # "out" \/ state[x] = "ST_ZOMBIE") =>
                         (handler'[x] # "out" \/ state'[x] = "ST_ZOMBIE")
  BY <1>3
<1>10. Halted'
  BY <1>1, <1>2, <1>3, <1>6, <1>9 DEF Halted, Alive, TypeOK
<1>11. Passing'
  BY <1>1, <1>2, <1>6, <1>9 DEF Passing, TypeOK
<1>12. Semaphores'
  <2>1. Cardinality(Waiting') = Cardinality(Waiting) + 1
    BY <1>6, HandlerSets, FS_AddElement
  <2>2. semNotifyCkptThread \in Nat /\ left \in Nat /\ numUserThreads \in Nat
        /\ Cardinality(Waiting) \in Nat
    BY <1>1, HandlerSets DEF TypeOK
  <2> QED BY <1>1, <1>2, <1>3, <1>6, <2>1, <2>2 DEF Semaphores
<1> QED BY <1>4, <1>5, <1>7, <1>8, <1>10, <1>11, <1>12 DEF IndInv

(* Restored: the same after a restart.                                      *)
LEMMA RestoredStep == ASSUME IndInv, NEW t \in Threads, Restored(t) PROVE IndInv'
<1>1. /\ TypeOK /\ Locks /\ Counted /\ Descriptors
      /\ Handlers /\ Halted /\ Passing /\ Semaphores
  BY DEF IndInv
<1>2. /\ handler[t] = "restored"
      /\ handler' = [handler EXCEPT ![t] = "waiting"]
      /\ semNotifyCkptThread' = semNotifyCkptThread + 1
      /\ UNCHANGED <<pc, state, activeThreads, owner, uninitializedThreadCount, ops, pending,
                     preResumeThreadCount, semWaitForCkptThreadSignal,
                     ckpt, held, left, toScan, needrescan, numUserThreads, ckpts>>
  BY DEF Restored, threadVars, ckptVars
<1>3. /\ ckpt = "restore" /\ pc[t] \in Resting
      /\ handler'[t] = "waiting" /\ \A x \in Threads : x # t => handler'[x] = handler[x]
  BY <1>1, <1>2 DEF Handlers, Descriptors, TypeOK
<1>4. TypeOK'
  BY <1>1, <1>2 DEF TypeOK
<1>5. Locks' /\ Counted'
  BY <1>2, SamePlaces
<1>6. Stopped' = Stopped /\ Waiting' = Waiting \cup {t} /\ t \notin Waiting
  BY <1>2, <1>3 DEF Stopped, Waiting
<1>7. Descriptors'
  BY <1>1, <1>2, <1>3 DEF Descriptors, Alive
<1>8. Handlers'
  BY <1>1, <1>2, <1>3 DEF Handlers
<1>9. \A x \in Threads : handler[x] # "out" => handler'[x] # "out"
  BY <1>3
<1>10. Halted'
  BY <1>1, <1>2, <1>3, <1>6, <1>9 DEF Halted, Alive, TypeOK
<1>11. Passing'
  BY <1>2, <1>3 DEF Passing
<1>12. Semaphores'
  <2>1. Cardinality(Waiting') = Cardinality(Waiting) + 1
    BY <1>6, HandlerSets, FS_AddElement
  <2>2. semNotifyCkptThread \in Nat /\ left \in Nat /\ numUserThreads \in Nat
        /\ Cardinality(Waiting) \in Nat
    BY <1>1, HandlerSets DEF TypeOK
  <2> QED BY <1>1, <1>2, <1>3, <1>6, <2>1, <2>2 DEF Semaphores
<1> QED BY <1>4, <1>5, <1>7, <1>8, <1>10, <1>11, <1>12 DEF IndInv

(* Woken: a wake-up is used by a thread that waits.                         *)
LEMMA WokenStep == ASSUME IndInv, NEW t \in Threads, Woken(t) PROVE IndInv'
<1>1. /\ TypeOK /\ Locks /\ Counted /\ Descriptors
      /\ Handlers /\ Halted /\ Passing /\ Semaphores
  BY DEF IndInv
<1>2. /\ handler[t] = "waiting" /\ semWaitForCkptThreadSignal > 0
      /\ semWaitForCkptThreadSignal' = semWaitForCkptThreadSignal - 1
      /\ handler' = [handler EXCEPT ![t] = "woken"]
      /\ state' = [state EXCEPT ![t] = "ST_RUNNING"]
      /\ UNCHANGED <<pc, activeThreads, owner, uninitializedThreadCount, ops, pending,
                     preResumeThreadCount, semNotifyCkptThread,
                     ckpt, held, left, toScan, needrescan, numUserThreads, ckpts>>
  BY DEF Woken, ckptVars
<1>3. /\ ckpt \in {"resume", "sleep"} /\ pc[t] \in Resting
      /\ handler'[t] = "woken" /\ \A x \in Threads : x # t => handler'[x] = handler[x]
      /\ state'[t] = "ST_RUNNING" /\ \A x \in Threads : x # t => state'[x] = state[x]
  BY <1>1, <1>2 DEF Semaphores, Descriptors, TypeOK
<1>4. TypeOK'
  BY <1>1, <1>2 DEF TypeOK, ThreadStates
<1>5. Locks' /\ Counted'
  BY <1>2, SamePlaces
<1>6. Stopped' = Stopped /\ Waiting' = Waiting \ {t} /\ t \in Waiting
  BY <1>2, <1>3 DEF Stopped, Waiting
<1>7. Descriptors'
  <2>1. pending = {}
    BY <1>1, <1>3 DEF Handlers
  <2> QED BY <1>1, <1>2, <1>3, <2>1 DEF Descriptors, Alive
<1>8. Handlers'
  BY <1>1, <1>2, <1>3 DEF Handlers
<1>9. Halted' /\ Passing'
  BY <1>2, <1>3 DEF Halted, Passing
<1>10. Semaphores'
  <2>1. Cardinality(Waiting') = Cardinality(Waiting) - 1
    BY <1>6, HandlerSets, FS_RemoveElement
  <2>2. semWaitForCkptThreadSignal \in Nat /\ left \in Nat /\ Cardinality(Waiting) \in Nat
    BY <1>1, HandlerSets DEF TypeOK
  <2> QED BY <1>1, <1>2, <1>3, <1>6, <2>1, <2>2 DEF Semaphores
<1> QED BY <1>4, <1>5, <1>7, <1>8, <1>9, <1>10 DEF IndInv

(* PreResumeUserThread: the counter matches the threads in the handler.     *)
LEMMA PreResumeUserThreadStep ==
    ASSUME IndInv, NEW t \in Threads, PreResumeUserThread(t) PROVE IndInv'
<1>1. /\ TypeOK /\ Locks /\ Counted /\ Descriptors
      /\ Handlers /\ Halted /\ Passing /\ Semaphores
  BY DEF IndInv
<1>2. /\ handler[t] = "woken"
      /\ preResumeThreadCount' = preResumeThreadCount - 1
      /\ handler' = [handler EXCEPT ![t] = "out"]
      /\ UNCHANGED <<pc, state, activeThreads, owner, uninitializedThreadCount, ops, pending,
                     semWaitForCkptThreadSignal, semNotifyCkptThread,
                     ckpt, held, left, toScan, needrescan, numUserThreads, ckpts>>
  BY DEF PreResumeUserThread, threadVars, ckptVars
<1>3. /\ ckpt \in {"resume", "sleep"} /\ pc[t] \in Resting
      /\ handler'[t] = "out" /\ \A x \in Threads : x # t => handler'[x] = handler[x]
  BY <1>1, <1>2 DEF Handlers, Descriptors, TypeOK
<1>4. Stopped' = Stopped \ {t} /\ t \in Stopped /\ Waiting' = Waiting
  BY <1>2, <1>3 DEF Stopped, Waiting
<1>5. /\ Cardinality(Stopped') = Cardinality(Stopped) - 1
      /\ Cardinality(Stopped') \in Nat
  BY <1>4, HandlerSets, ThreadSets, FS_RemoveElement
<1>6. TypeOK'
  BY <1>1, <1>2, <1>5 DEF TypeOK, Semaphores
<1>7. Locks' /\ Counted'
  BY <1>2, SamePlaces
<1>8. Descriptors'
  <2>1. pending = {}
    BY <1>1, <1>3 DEF Handlers
  <2> QED BY <1>1, <1>2, <1>3, <2>1 DEF Descriptors, Alive
<1>9. Handlers'
  BY <1>1, <1>2, <1>3 DEF Handlers
<1>10. Halted' /\ Passing'
  BY <1>2, <1>3 DEF Halted, Passing
<1>11. Semaphores'
  BY <1>1, <1>2, <1>3, <1>4, <1>5 DEF Semaphores
<1> QED BY <1>6, <1>7, <1>8, <1>9, <1>10, <1>11 DEF IndInv

------------------------------------------------------------------------------
(* Steps of the checkpoint thread.                                          *)

(* They leave the threads where they are.                                   *)
LEMMA SameThreads ==
    ASSUME IndInv, UNCHANGED <<pc, state, activeThreads, uninitializedThreadCount, handler, pending>>
    PROVE  Counted' /\ Descriptors' /\ Stopped' = Stopped /\ Waiting' = Waiting
<1>1. Weights' = Weights
  BY DEF Weights
<1>2. Counted'
  BY <1>1 DEF IndInv, Counted
<1>3. Descriptors'
  BY DEF IndInv, Descriptors, Alive
<1> QED BY <1>2, <1>3 DEF Stopped, Waiting

(* A thread in the handler is listed.                                       *)
LEMMA StoppedIsListed == IndInv => Stopped \subseteq activeThreads
BY DEF IndInv, Descriptors, Stopped, Resting, Mutexes, Alive

(* Nobody is in the handler when a checkpoint begins, and only waiting      *)
(* threads are while the image is written.                                  *)
LEMMA StoppedByPhase ==
    ASSUME IndInv
    PROVE  /\ ckpt \in {"idle", "creation", "execution", "uninitialized"} \cup Mutexes => Stopped = {}
           /\ ckpt \in {"precheckpoint", "written", "crashed"} => Stopped = Waiting
           /\ ckpt \in {"collect", "restore"} /\ left = 0 => Stopped = Waiting /\ semNotifyCkptThread = 0
<1>1. TypeOK /\ Handlers /\ Halted /\ Semaphores
  BY DEF IndInv
<1>2. ckpt \in {"idle", "creation", "execution", "uninitialized"} \cup Mutexes => Stopped = {}
  BY <1>1 DEF Stopped, Handlers, TypeOK, Mutexes
<1>3. ckpt \in {"precheckpoint", "written", "crashed"} => Stopped = Waiting
  BY <1>1 DEF Stopped, Waiting, Handlers, TypeOK
<1>4. ASSUME ckpt \in {"collect", "restore"}, left = 0
      PROVE  Stopped = Waiting /\ semNotifyCkptThread = 0
  <2>1. 0 + Cardinality(Waiting) = semNotifyCkptThread + Cardinality(Stopped)
    BY <1>1, <1>4 DEF Semaphores, Halted
  <2>2. semNotifyCkptThread \in Nat
    BY <1>1 DEF TypeOK
  <2>3. semNotifyCkptThread = 0 /\ Cardinality(Stopped) = Cardinality(Waiting)
    BY <2>1, <2>2, HandlerSets
  <2> QED BY <2>3, HandlerSets
<1> QED BY <1>2, <1>3, <1>4

(* Sleep: when the last thread has left the handler no wake-up is left.     *)
LEMMA SleepStep == IndInv /\ Sleep => IndInv'
<1> SUFFICES ASSUME IndInv, Sleep PROVE IndInv'
  OBVIOUS
<1> USE DEF Sleep, CkptStep, threadVars, signalVars
<1>1. TypeOK /\ Locks /\ Handlers /\ Semaphores
  BY DEF IndInv
<1>2. Counted' /\ Descriptors' /\ Stopped' = Stopped /\ Waiting' = Waiting
  BY SameThreads
<1>3. Stopped = {} /\ Waiting = {}
  <2>1. Cardinality(Stopped) = 0
    BY <1>1 DEF Semaphores
  <2> QED BY <2>1, HandlerSets, FS_EmptySet
<1>4. TypeOK'
  BY <1>1 DEF TypeOK
<1>5. Locks'
  BY <1>1 DEF Locks, Behind
<1>6. Handlers'
  BY <1>1, <1>3 DEF Handlers, Stopped
<1>7. Halted' /\ Passing'
  BY DEF Halted, Passing
<1>8. semWaitForCkptThreadSignal = 0
  BY <1>1, <1>3, FS_EmptySet DEF Semaphores, TypeOK
<1>9. Semaphores'
  BY <1>1, <1>2, <1>8 DEF Semaphores
<1> QED BY <1>2, <1>4, <1>5, <1>6, <1>7, <1>9 DEF IndInv

(* SuspendMessage.                                                          *)
LEMMA SuspendMessageStep == IndInv /\ SuspendMessage => IndInv'
<1> SUFFICES ASSUME IndInv, SuspendMessage PROVE IndInv'
  OBVIOUS
<1> USE DEF SuspendMessage, CkptStep, threadVars, signalVars
<1>1. TypeOK /\ Locks /\ Handlers /\ Semaphores
  BY DEF IndInv
<1>2. Counted' /\ Descriptors' /\ Stopped' = Stopped /\ Waiting' = Waiting
  BY SameThreads
<1>3. TypeOK'
  BY <1>1, ThreadAssumption DEF TypeOK, Mutexes
<1>4. Locks'
  BY <1>1 DEF Locks, Behind
<1>5. Handlers' /\ Halted' /\ Passing'
  BY <1>1 DEF Handlers, Halted, Passing
<1>6. Semaphores'
  BY <1>1, <1>2 DEF Semaphores
<1> QED BY <1>2, <1>3, <1>4, <1>5, <1>6 DEF IndInv

(* CkptMutex: a mutex is taken when nobody has it.                          *)
LEMMA CkptMutexStep == ASSUME IndInv, NEW m \in Mutexes, CkptMutex(m) PROVE IndInv'
<1> USE DEF CkptMutex, CkptStep, signalVars
<1>1. TypeOK /\ Locks /\ Handlers /\ Semaphores
  BY DEF IndInv
<1>2. Counted' /\ Descriptors' /\ Stopped' = Stopped /\ Waiting' = Waiting
  BY SameThreads
<1>3. \/ m = "_dmtcp_lock" /\ ckpt = "_dmtcp_lock" /\ ckpt' = "theCkptCanStart"
      \/ m = "theCkptCanStart" /\ ckpt = "theCkptCanStart" /\ ckpt' = "libdlLock"
      \/ m = "libdlLock" /\ ckpt = "libdlLock" /\ ckpt' = "creation"
  BY DEF Mutexes, NextLock
<1>4. TypeOK'
  BY <1>1, <1>3 DEF TypeOK, Mutexes, NotThreads
<1>5. Locks'
  <2>1. \A l \in Mutexes : owner'[l] = IF l = m THEN CkptThread ELSE owner[l]
    BY <1>1 DEF TypeOK
  <2>2. \A l \in Mutexes : owner'[l] = CkptThread <=> ckpt' \in Behind(l)
    BY <1>1, <1>3, <2>1 DEF Locks, Behind, Mutexes
  <2>3. held = {} /\ held' = {}
    BY <1>1, <1>3 DEF Locks
  <2> QED BY <1>3, <2>2, <2>3 DEF Locks
<1>6. Handlers' /\ Halted' /\ Passing'
  BY <1>1, <1>3 DEF Handlers, Halted, Passing
<1>7. Semaphores'
  BY <1>1, <1>2, <1>3 DEF Semaphores
<1> QED BY <1>2, <1>4, <1>5, <1>6, <1>7 DEF IndInv

(* CkptWriteLock: nobody is in a section when its lock is taken.            *)
LEMMA CkptWriteLockStep ==
    ASSUME IndInv, NEW lock \in {"creation", "execution"}, CkptWriteLock(lock) PROVE IndInv'
<1> USE DEF CkptWriteLock, CkptStep, threadVars, signalVars
<1>1. TypeOK /\ Locks /\ Handlers /\ Semaphores
  BY DEF IndInv
<1>2. Counted' /\ Descriptors' /\ Stopped' = Stopped /\ Waiting' = Waiting
  BY SameThreads
<1>3. \/ lock = "creation" /\ ckpt = "creation" /\ ckpt' = "execution"
      \/ lock = "execution" /\ ckpt = "execution" /\ ckpt' = "uninitialized"
  BY DEF NextLock
<1>4. TypeOK'
  BY <1>1, <1>3 DEF TypeOK
<1>5. Locks'
  <2>1. CASE lock = "creation"
    <3>1. CreationReaders = {} /\ ckpt = "creation" /\ ckpt' = "execution"
      BY <1>3, <2>1
    <3> QED BY <1>1, <2>1, <3>1 DEF Locks, Behind, CreationReaders
  <2>2. CASE lock = "execution"
    <3>1. CanWriteExecution /\ ckpt = "execution" /\ ckpt' = "uninitialized"
      BY <1>3, <2>2
    <3> QED BY <1>1, <2>2, <3>1 DEF Locks, Behind, CanWriteExecution, ExecutionReaders
  <2> QED BY <2>1, <2>2
<1>6. Handlers' /\ Halted' /\ Passing'
  BY <1>1, <1>3 DEF Handlers, Halted, Passing
<1>7. Semaphores'
  BY <1>1, <1>2, <1>3 DEF Semaphores
<1> QED BY <1>2, <1>4, <1>5, <1>6, <1>7 DEF IndInv

(* AllInitialized: with the locks held and the counter at zero, no thread   *)
(* is half created.                                                         *)
LEMMA AllInitializedStep == IndInv /\ Commands /\ AllInitialized => IndInv'
<1> SUFFICES ASSUME IndInv, Commands, AllInitialized PROVE IndInv'
  OBVIOUS
<1> USE DEF AllInitialized, CkptStep, Pass, threadVars, signalVars
<1>1. TypeOK /\ Locks /\ Counted /\ Handlers /\ Semaphores
  BY DEF IndInv
<1>2. Counted' /\ Descriptors' /\ Stopped' = Stopped /\ Waiting' = Waiting
  BY SameThreads
<1>3. Stopped = {} /\ Waiting = {}
  BY StoppedByPhase, HandlerSets
<1>4. TypeOK'
  <2>1. needrescan' \in BOOLEAN
    BY Zenon
  <2> QED BY <1>1, <2>1 DEF TypeOK
<1>5. Locks'
  BY <1>1 DEF Locks, Behind
<1>6. Handlers'
  BY <1>1, <1>3 DEF Handlers, Stopped
<1>7. ASSUME NEW t \in Threads, Alive(t) PROVE pc[t] \in Resting \cup {"zombie"}
  <2>1. SumOver(Weights, Threads) = 0
    BY <1>1 DEF Counted
  <2>2. Weights[t] = 0
    BY <1>1, <2>1, WeightFacts, SumZero, ThreadAssumption
  <2>3. pc[t] \notin {"create", "unable", "uncreated", "starting", "clone", "born", "listed"}
    BY <2>2, WeightFacts DEF Weights
  <2>4. pc[t] \notin {"cloned", "created", "wrapper", "exiting", "excl"}
    BY <1>1 DEF Locks
  <2>5. pc[t] \in Places /\ pc[t] \notin {"unborn", "gone"}
    BY <1>1, <1>7 DEF TypeOK, Alive
  <2>6. pc[t] \notin {"command", "unlocking"}
    <3>1. owner["_dmtcp_lock"] = CkptThread
      BY <1>1 DEF Locks, Behind, Mutexes
    <3> QED BY <3>1, OwnerAssumption DEF Commands, NotThreads
  <2> QED BY <2>3, <2>4, <2>5, <2>6 DEF Places, Resting
<1>8. Halted'
  BY <1>7 DEF Halted, Alive
<1>9. Passing'
  BY <1>2, <1>3, FS_EmptySet DEF Passing
<1>10. Semaphores'
  BY <1>1, <1>2, <1>3, FS_EmptySet DEF Semaphores
<1> QED BY <1>2, <1>4, <1>5, <1>6, <1>8, <1>9, <1>10 DEF IndInv

(* A step of the pass that leaves the threads and their descriptors alone:  *)
(* a signalled thread makes another pass necessary, a zombie is passed over,*)
(* a stopped thread is counted.                                             *)
LEMMA ScanSame ==
    ASSUME IndInv, NEW t \in Threads, ScanSignaled(t) \/ ScanZombie(t) \/ ScanStopped(t)
    PROVE  IndInv'
<1>1. TypeOK /\ Locks /\ Descriptors /\ Handlers /\ Halted /\ Passing /\ Semaphores
  BY DEF IndInv
<1>2. /\ ckpt = "scan" /\ t \in toScan /\ toScan' = toScan \ {t}
      /\ UNCHANGED <<pc, state, activeThreads, owner, uninitializedThreadCount, ops, handler,
                     pending, preResumeThreadCount, semNotifyCkptThread,
                     semWaitForCkptThreadSignal, ckpt, held, left, ckpts>>
  BY DEF ScanSignaled, ScanZombie, ScanStopped, Visit, threadVars, signalVars
<1>3. Counted' /\ Descriptors' /\ Stopped' = Stopped /\ Waiting' = Waiting
  BY <1>2, SameThreads
<1>4. Locks'
  BY <1>2, SamePlaces
<1>5. Handlers' /\ Halted' /\ Semaphores'
  BY <1>1, <1>2, <1>3 DEF Handlers, Halted, Semaphores, Alive
<1>6. TypeOK' /\ Passing'
  <2>1. CASE ScanSignaled(t)
    <3>1. needrescan' /\ numUserThreads' = numUserThreads /\ needrescan' \in BOOLEAN
      BY <2>1, Zenon DEF ScanSignaled
    <3> QED BY <1>1, <1>2, <3>1 DEF TypeOK, Passing
  <2>2. CASE ScanZombie(t)
    <3>1. UNCHANGED <<needrescan, numUserThreads>> /\ state[t] = "ST_ZOMBIE"
      BY <2>2 DEF ScanZombie
    <3>2. handler[t] = "out"
      BY <1>1, <3>1 DEF Descriptors, TypeOK
    <3>3. Stopped' \ toScan' = Stopped \ toScan
      BY <1>2, <1>3, <3>2 DEF Stopped
    <3>4. \A x \in activeThreads' \ toScan' : x = t \/ x \in activeThreads \ toScan
      BY <1>2
    <3> QED BY <1>1, <1>2, <3>1, <3>3, <3>4 DEF TypeOK, Passing
  <2>3. CASE ScanStopped(t)
    <3>1. /\ UNCHANGED needrescan /\ numUserThreads' = numUserThreads + 1
          /\ state[t] \in {"ST_SUSPINPROG", "ST_SUSPENDED"}
      BY <2>3 DEF ScanStopped
    <3>2. handler[t] # "out"
      BY <1>1, <3>1 DEF Descriptors
    <3>3. /\ Stopped' \ toScan' = (Stopped \ toScan) \cup {t} /\ t \notin Stopped \ toScan
          /\ Stopped \ toScan \in SUBSET Threads
      BY <1>2, <1>3, <3>2 DEF Stopped
    <3>4. Cardinality(Stopped' \ toScan') = Cardinality(Stopped \ toScan) + 1
      BY <3>3, ThreadSets, FS_AddElement
    <3>5. \A x \in activeThreads' \ toScan' : x = t \/ x \in activeThreads \ toScan
      BY <1>2
    <3>6. TypeOK'
      BY <1>1, <1>2, <3>1 DEF TypeOK
    <3> QED BY <1>1, <1>2, <3>1, <3>2, <3>4, <3>5, <3>6 DEF Passing
  <2> QED BY <2>1, <2>2, <2>3
<1> QED BY <1>3, <1>4, <1>5, <1>6 DEF IndInv

(* ScanRunning: the signal is sent and another pass is necessary.           *)
LEMMA ScanRunningStep == ASSUME IndInv, NEW t \in Threads, ScanRunning(t) PROVE IndInv'
<1>1. /\ TypeOK /\ Locks /\ Counted /\ Descriptors
      /\ Handlers /\ Halted /\ Passing /\ Semaphores
  BY DEF IndInv
<1>2. /\ ckpt = "scan" /\ t \in toScan /\ toScan' = toScan \ {t}
      /\ state[t] = "ST_RUNNING" /\ Alive(t)
      /\ state' = [state EXCEPT ![t] = "ST_SIGNALED"]
      /\ pending' = pending \cup {t}
      /\ UNCHANGED <<pc, activeThreads, owner, uninitializedThreadCount, ops, handler,
                     preResumeThreadCount, semNotifyCkptThread, semWaitForCkptThreadSignal,
                     ckpt, held, left, numUserThreads, ckpts>>
  BY DEF ScanRunning, Visit
<1>3. needrescan' /\ needrescan' \in BOOLEAN
  BY Zenon DEF ScanRunning
<1>4. /\ pc[t] \in Resting /\ handler[t] = "out"
      /\ state'[t] = "ST_SIGNALED" /\ \A x \in Threads : x # t => state'[x] = state[x]
  BY <1>1, <1>2 DEF Halted, Descriptors, Handlers, TypeOK
<1>5. TypeOK'
  BY <1>1, <1>2, <1>3 DEF TypeOK, ThreadStates
<1>6. Locks' /\ Counted'
  BY <1>2, SamePlaces
<1>7. Stopped' = Stopped /\ Waiting' = Waiting
  BY <1>2 DEF Stopped, Waiting
<1>8. Descriptors'
  <2> SUFFICES ASSUME NEW x \in Threads PROVE Descriptors!(x)'
    BY DEF Descriptors
  <2>1. CASE x # t
    BY <1>1, <1>2, <1>4, <2>1 DEF Descriptors, Alive
  <2>2. CASE x = t
    BY <1>1, <1>2, <1>4, <2>2 DEF Descriptors, Alive, Resting, Mutexes
  <2> QED BY <2>1, <2>2
<1>9. Handlers' /\ Halted' /\ Semaphores'
  BY <1>1, <1>2, <1>7 DEF Handlers, Halted, Semaphores, Alive
<1>10. Passing'
  BY <1>1, <1>2, <1>3 DEF Passing
<1> QED BY <1>5, <1>6, <1>8, <1>9, <1>10 DEF IndInv

(* ScanDead: only descriptors of threads that are gone are dropped.         *)
LEMMA ScanDeadStep == ASSUME IndInv, NEW t \in Threads, ScanDead(t) PROVE IndInv'
<1>1. /\ TypeOK /\ Locks /\ Counted /\ Descriptors
      /\ Handlers /\ Halted /\ Passing /\ Semaphores
  BY DEF IndInv
<1>2. /\ ckpt = "scan" /\ t \in toScan /\ toScan' = toScan \ {t} /\ ~Alive(t)
      /\ activeThreads' = activeThreads \ {t}
      /\ UNCHANGED <<pc, state, owner, uninitializedThreadCount, ops, handler, pending,
                     preResumeThreadCount, semNotifyCkptThread, semWaitForCkptThreadSignal,
                     ckpt, held, left, needrescan, numUserThreads, ckpts>>
  BY DEF ScanDead, Visit, signalVars
<1>3. TypeOK'
  BY <1>1, <1>2 DEF TypeOK
<1>4. Locks' /\ Counted'
  BY <1>2, SamePlaces
<1>5. Stopped' = Stopped /\ Waiting' = Waiting /\ t \notin Stopped
  BY <1>1, <1>2 DEF Stopped, Waiting, Descriptors, Alive, Resting, Mutexes
<1>6. Descriptors'
  BY <1>1, <1>2 DEF Descriptors, Alive
<1>7. Handlers' /\ Halted' /\ Semaphores'
  BY <1>1, <1>2, <1>5 DEF Handlers, Halted, Semaphores, Alive
<1>8. Stopped' \ toScan' = Stopped \ toScan
  BY <1>2, <1>5
<1>9. toScan' \subseteq activeThreads' /\ activeThreads' \ toScan' = activeThreads \ toScan
  BY <1>1, <1>2 DEF Passing
<1>10. Passing'
  BY <1>1, <1>2, <1>8, <1>9 DEF Passing
<1> QED BY <1>3, <1>4, <1>6, <1>7, <1>10 DEF IndInv

(* Rescan: a new pass has seen nothing yet.                                 *)
LEMMA RescanStep == IndInv /\ Rescan => IndInv'
<1> SUFFICES ASSUME IndInv, Rescan PROVE IndInv'
  OBVIOUS
<1> USE DEF Rescan, Pass, threadVars, signalVars
<1>1. TypeOK /\ Locks /\ Handlers /\ Halted /\ Semaphores
  BY DEF IndInv
<1>2. Counted' /\ Descriptors' /\ Stopped' = Stopped /\ Waiting' = Waiting
  BY SameThreads
<1>3. Locks'
  BY SamePlaces
<1>4. TypeOK'
  <2>1. needrescan' \in BOOLEAN
    BY Zenon
  <2> QED BY <1>1, <2>1 DEF TypeOK
<1>5. Handlers' /\ Halted' /\ Semaphores'
  BY <1>1, <1>2 DEF Handlers, Halted, Semaphores, Alive
<1>6. Stopped' \ toScan' = {}
  BY <1>2, StoppedIsListed
<1>7. Passing'
  BY <1>6, FS_EmptySet DEF Passing
<1> QED BY <1>2, <1>3, <1>4, <1>5, <1>7 DEF IndInv

(* ScanDone: every listed thread is stopped or past threadExit, and all     *)
(* that are stopped are counted.                                            *)
LEMMA ScanDoneStep == IndInv /\ ScanDone => IndInv'
<1> SUFFICES ASSUME IndInv, ScanDone PROVE IndInv'
  OBVIOUS
<1> USE DEF ScanDone, CkptStep, threadVars, signalVars
<1>1. TypeOK /\ Locks /\ Descriptors /\ Handlers /\ Halted /\ Passing /\ Semaphores
  BY DEF IndInv
<1>2. Counted' /\ Descriptors' /\ Stopped' = Stopped /\ Waiting' = Waiting
  BY SameThreads
<1>3. /\ \A t \in activeThreads : handler[t] # "out" \/ state[t] = "ST_ZOMBIE"
      /\ numUserThreads = Cardinality(Stopped)
  <2>1. Stopped \ toScan = Stopped
    OBVIOUS
  <2> QED BY <1>1, <2>1 DEF Passing
<1>4. TypeOK'
  BY <1>1 DEF TypeOK
<1>5. Locks'
  BY <1>1 DEF Locks, Behind
<1>6. pending = {}
  BY <1>1, <1>3 DEF Descriptors, TypeOK, Resting, Mutexes, Alive
<1>7. Handlers'
  BY <1>1, <1>6 DEF Handlers
<1>8. \A t \in Threads : Alive(t) /\ pc[t] # "zombie" => handler[t] # "out"
  BY <1>1, <1>3 DEF Halted, Descriptors, Resting, Mutexes
<1>9. Halted'
  BY <1>1, <1>2, <1>3, <1>8 DEF Halted, Alive
<1>10. Passing'
  BY DEF Passing
<1>11. left' + Cardinality(Waiting) = semNotifyCkptThread + numUserThreads
  BY <1>1, HandlerSets DEF Semaphores, TypeOK
<1>12. Semaphores'
  BY <1>1, <1>2, <1>11 DEF Semaphores
<1> QED BY <1>2, <1>4, <1>5, <1>7, <1>9, <1>10, <1>12 DEF IndInv

(* Collect: one notification for one thread that waits.                     *)
LEMMA CollectStep == IndInv /\ Collect => IndInv'
<1> SUFFICES ASSUME IndInv, Collect PROVE IndInv'
  OBVIOUS
<1> USE DEF Collect, threadVars
<1>1. TypeOK /\ Locks /\ Handlers /\ Halted /\ Semaphores
  BY DEF IndInv
<1>2. Counted' /\ Descriptors' /\ Stopped' = Stopped /\ Waiting' = Waiting
  BY SameThreads
<1>3. Locks'
  BY SamePlaces
<1>4. TypeOK'
  BY <1>1 DEF TypeOK
<1>5. Handlers' /\ Halted' /\ Passing'
  BY <1>1, <1>2 DEF Handlers, Halted, Passing, Alive
<1>6. left' + Cardinality(Waiting) = semNotifyCkptThread' + numUserThreads
  BY <1>1, HandlerSets DEF Semaphores, TypeOK
<1>7. Semaphores'
  BY <1>1, <1>2, <1>6 DEF Semaphores
<1> QED BY <1>2, <1>3, <1>4, <1>5, <1>7 DEF IndInv

(* ReleaseLocks: every stopped thread waits, and no mutex stays locked.     *)
LEMMA ReleaseLocksStep == IndInv /\ ReleaseLocks => IndInv'
<1> SUFFICES ASSUME IndInv, ReleaseLocks PROVE IndInv'
  OBVIOUS
<1> USE DEF ReleaseLocks, CkptStep, signalVars
<1>1. TypeOK /\ Locks /\ Handlers /\ Halted /\ Semaphores
  BY DEF IndInv
<1>2. Counted' /\ Descriptors' /\ Stopped' = Stopped /\ Waiting' = Waiting
  BY SameThreads
<1>3. Stopped = Waiting /\ semNotifyCkptThread = 0
  BY StoppedByPhase
<1>4. TypeOK'
  BY <1>1 DEF TypeOK, NotThreads
<1>5. Locks'
  <2>1. \A m \in Mutexes : owner'[m] = Nobody
    BY <1>1 DEF Locks, Behind
  <2> QED BY <2>1 DEF Locks, Behind, Nobody, CkptThread
<1>6. Handlers'
  BY <1>1, <1>3 DEF Handlers, Stopped, Waiting
<1>7. Halted' /\ Passing'
  BY <1>1, <1>2 DEF Halted, Passing, Alive
<1>8. Semaphores'
  BY <1>1, <1>2, <1>3 DEF Semaphores
<1> QED BY <1>2, <1>4, <1>5, <1>6, <1>7, <1>8 DEF IndInv

(* WriteCkptImage, and the death of a process restarted with a listed       *)
(* zombie.                                                                  *)
LEMMA WriteSteps == IndInv /\ (WriteCkptImage \/ PostRestartZombie) => IndInv'
<1> SUFFICES ASSUME IndInv, WriteCkptImage \/ PostRestartZombie PROVE IndInv'
  OBVIOUS
<1> USE DEF WriteCkptImage, PostRestartZombie, CkptStep, threadVars, signalVars
<1>1. TypeOK /\ Locks /\ Handlers /\ Halted /\ Semaphores
  BY DEF IndInv
<1>2. Counted' /\ Descriptors' /\ Stopped' = Stopped /\ Waiting' = Waiting
  BY SameThreads
<1>3. TypeOK'
  BY <1>1 DEF TypeOK
<1>4. Locks'
  BY <1>1 DEF Locks, Behind
<1>5. Handlers' /\ Halted' /\ Passing'
  BY <1>1, <1>2 DEF Handlers, Halted, Passing, Alive
<1>6. Semaphores'
  BY <1>1, <1>2 DEF Semaphores
<1> QED BY <1>2, <1>3, <1>4, <1>5, <1>6 DEF IndInv

(* The two ways into resumeThreads: as many wake-ups as threads that wait.  *)
LEMMA ResumeSteps == IndInv /\ (PostCheckpoint \/ AllRestored) => IndInv'
<1> SUFFICES ASSUME IndInv, PostCheckpoint \/ AllRestored PROVE IndInv'
  OBVIOUS
<1> USE DEF PostCheckpoint, AllRestored, CkptStep, threadVars, signalVars
<1>1. TypeOK /\ Locks /\ Handlers /\ Halted /\ Semaphores
  BY DEF IndInv
<1>2. Counted' /\ Descriptors' /\ Stopped' = Stopped /\ Waiting' = Waiting
  BY SameThreads
<1>3. Stopped = Waiting /\ semNotifyCkptThread = 0
  BY <1>1, StoppedByPhase DEF Semaphores
<1>4. TypeOK'
  BY <1>1 DEF TypeOK
<1>5. Locks'
  BY <1>1 DEF Locks, Behind
<1>6. Handlers'
  BY <1>1, <1>3 DEF Handlers, Stopped, Waiting
<1>7. Halted' /\ Passing'
  BY DEF Halted, Passing
<1>8. left' = Cardinality(Waiting) /\ semWaitForCkptThreadSignal = 0
  BY <1>1, <1>3 DEF Halted, Semaphores
<1>9. Semaphores'
  BY <1>1, <1>2, <1>3, <1>8, HandlerSets DEF Semaphores
<1> QED BY <1>2, <1>4, <1>5, <1>6, <1>7, <1>9 DEF IndInv

(* PostRestart: the threads of the image are the ones that waited.          *)
LEMMA PostRestartStep == IndInv /\ PostRestart => IndInv'
<1> SUFFICES ASSUME IndInv, PostRestart PROVE IndInv'
  OBVIOUS
<1>1. /\ TypeOK /\ Locks /\ Counted /\ Descriptors
      /\ Handlers /\ Halted /\ Passing /\ Semaphores
  BY DEF IndInv
<1>2. /\ ckpt = "written" /\ ckpt' = "restore"
      /\ \A t \in activeThreads : state[t] # "ST_ZOMBIE"
      /\ pc' = [t \in Threads |-> IF t \in activeThreads THEN pc[t] ELSE "gone"]
      /\ handler' = [t \in Threads |-> IF t \in activeThreads THEN "restored" ELSE "out"]
      /\ pending' = {} /\ left' = numUserThreads
      /\ UNCHANGED <<state, activeThreads, owner, uninitializedThreadCount, ops,
                     preResumeThreadCount, semNotifyCkptThread,
                     semWaitForCkptThreadSignal, held, toScan, needrescan,
                     numUserThreads, ckpts>>
  BY DEF PostRestart, CkptStep
<1>3. /\ Stopped = activeThreads /\ Stopped' = activeThreads /\ Waiting' = {}
      /\ \A t \in activeThreads : handler[t] = "waiting"
  <2>1. activeThreads \subseteq Stopped
    BY <1>1, <1>2 DEF Halted, Stopped, TypeOK
  <2>2. Stopped = activeThreads
    BY <2>1, StoppedIsListed
  <2>3. Stopped' = activeThreads /\ Waiting' = {}
    BY <1>1, <1>2 DEF Stopped, Waiting, TypeOK
  <2>4. Stopped = Waiting
    BY <1>2, StoppedByPhase
  <2> QED BY <2>2, <2>3, <2>4 DEF Waiting
<1>4. TypeOK'
  BY <1>1, <1>2 DEF TypeOK, Places
<1>5. Locks'
  BY <1>1, <1>2 DEF Locks, Behind
<1>6. Counted'
  <2> DEFINE g == [x \in Threads |-> Weight[pc'[x]]]
  <2>1. \A x \in Threads : pc[x] \in Resting \cup {"zombie", "unborn", "gone"}
    BY <1>1, <1>2 DEF Halted, Alive
  <2>2. \A p \in Resting \cup {"zombie", "unborn", "gone"} : Weight[p] = 0
    BY WeightFacts DEF Resting, Places, Mutexes
  <2>3. \A x \in Threads : Weights[x] = 0 /\ g[x] = 0
    BY <1>2, <2>1, <2>2 DEF Weights
  <2>4. Weights \in [Threads -> Nat] /\ g \in [Threads -> Nat] /\ Weights' = g
    BY <1>1, <2>3, WeightFacts DEF Weights
  <2> HIDE DEF g
  <2>5. SumOver(Weights, Threads) = 0 /\ SumOver(g, Threads) = 0
    BY <2>3, <2>4, SumZero, ThreadAssumption
  <2> QED BY <1>1, <1>2, <2>4, <2>5 DEF Counted
<1>7. Descriptors'
  <2> SUFFICES ASSUME NEW x \in Threads PROVE Descriptors!(x)'
    BY DEF Descriptors
  <2>1. CASE x \in activeThreads
    <3>1. /\ pc'[x] = pc[x] /\ handler'[x] = "restored" /\ state[x] = "ST_SUSPENDED"
          /\ pc[x] \in Resting
      BY <1>1, <1>2, <1>3, <2>1 DEF Descriptors
    <3> QED BY <1>2, <2>1, <3>1 DEF Alive, Resting, Mutexes
  <2>2. CASE x \notin activeThreads
    <3>1. handler[x] = "out"
      BY <1>3, <2>2 DEF Stopped
    <3> QED BY <1>1, <1>2, <2>2, <3>1 DEF Descriptors, Alive
  <2> QED BY <2>1, <2>2
<1>8. Handlers' /\ Passing'
  BY <1>2 DEF Handlers, Passing
<1>9. Halted'
  <2>1. \A x \in activeThreads : pc[x] \in Resting
    BY <1>1, <1>3 DEF Descriptors, TypeOK
  <2> QED BY <1>1, <1>2, <1>3, <2>1 DEF Halted, Alive, TypeOK
<1>10. Semaphores'
  <2>1. Cardinality(Waiting') = 0
    BY <1>3, FS_EmptySet
  <2>2. semNotifyCkptThread = 0 /\ numUserThreads \in Nat
    BY <1>1, <1>2 DEF Semaphores, TypeOK
  <2> QED BY <1>1, <1>2, <1>3, <2>1, <2>2 DEF Semaphores
<1> QED BY <1>4, <1>5, <1>6, <1>7, <1>8, <1>9, <1>10 DEF IndInv

(* ResumeThread and Resumed: each sem_post has its thread.                  *)
LEMMA PostSteps == IndInv /\ (ResumeThread \/ Resumed) => IndInv'
<1> SUFFICES ASSUME IndInv, ResumeThread \/ Resumed PROVE IndInv'
  OBVIOUS
<1> USE DEF ResumeThread, Resumed, CkptStep, threadVars, signalVars
<1>1. TypeOK /\ Locks /\ Handlers /\ Semaphores
  BY DEF IndInv
<1>2. Counted' /\ Descriptors' /\ Stopped' = Stopped /\ Waiting' = Waiting
  BY SameThreads
<1>3. TypeOK'
  <2>1. needrescan' = needrescan /\ needrescan \in BOOLEAN
    BY <1>1, Zenon DEF TypeOK
  <2>2. left' \in Nat /\ semWaitForCkptThreadSignal' \in Nat
    BY <1>1 DEF TypeOK
  <2> QED BY <1>1, <2>1, <2>2 DEF TypeOK
<1>4. Locks'
  BY <1>1 DEF Locks, Behind
<1>5. Handlers' /\ Halted' /\ Passing'
  BY <1>1 DEF Handlers, Halted, Passing
<1>6. semWaitForCkptThreadSignal' + left' = Cardinality(Waiting)
  BY <1>1, HandlerSets DEF Semaphores, TypeOK
<1>7. Semaphores'
  BY <1>1, <1>2, <1>6 DEF Semaphores
<1> QED BY <1>2, <1>3, <1>4, <1>5, <1>7 DEF IndInv

------------------------------------------------------------------------------
(* A step that changes nothing, Terminated among them.                      *)
LEMMA StutterStep == IndInv /\ UNCHANGED vars => IndInv'
<1> SUFFICES ASSUME IndInv, UNCHANGED vars PROVE IndInv'
  OBVIOUS
<1> USE DEF vars, threadVars, signalVars, ckptVars
<1>1. Counted' /\ Descriptors' /\ Stopped' = Stopped /\ Waiting' = Waiting
  BY SameThreads
<1>2. Locks'
  BY SamePlaces
<1>3. TypeOK'
  BY DEF IndInv, TypeOK
<1>4. Handlers' /\ Halted' /\ Passing' /\ Semaphores'
  BY <1>1 DEF IndInv, Handlers, Halted, Passing, Semaphores, Alive
<1> QED BY <1>1, <1>2, <1>3, <1>4 DEF IndInv

(* What keeps Commands: whoever is in runCoordinatorCmd afterwards was there*)
(* before, at the same place and with the same locks.                       *)
LEMMA SameCommands ==
    ASSUME Commands,
           \A x \in Threads :
               /\ pc'[x] \in {"command", "unlocking"} =>
                     /\ pc'[x] = pc[x] /\ owner'["_dmtcp_lock"] = owner["_dmtcp_lock"]
                     /\ pc[x] = "command" => owner'["theCkptCanStart"] = owner["theCkptCanStart"]
               /\ owner'["_dmtcp_lock"] = x => pc'[x] = pc[x] /\ owner["_dmtcp_lock"] = x
    PROVE  Commands'
BY DEF Commands

(* A user thread goes anywhere but into runCoordinatorCmd.                  *)
LEMMA SameCommandsGoto ==
    ASSUME TypeOK, Commands, NEW t \in Threads, NEW from, NEW to,
           to \notin {"command", "unlocking"},
           from \notin {"theCkptCanStart", "command", "unlocking"},
           Goto(t, from, to), owner' = owner
    PROVE  Commands'
<1>1. owner["_dmtcp_lock"] # t
  BY DEF Goto, Commands
<1> QED BY <1>1, SameCommands DEF TypeOK, Goto

(* The locks of runCoordinatorCmd stay with its caller.                     *)
LEMMA NextCommands == ASSUME IndInv, Commands, [Next]_vars PROVE Commands'
<1>1. TypeOK /\ Locks
  BY DEF IndInv
<1> USE <1>1
<1>2. {"_dmtcp_lock", "theCkptCanStart"} \subseteq Mutexes /\ Nobody \notin Threads
      /\ CkptThread \notin Threads /\ UserMutexes = {"theCkptCanStart", "libdlLock"}
  BY OwnerAssumption DEF Mutexes, UserMutexes, NotThreads
<1>3. ASSUME NEW t \in Threads, UserThread(t) PROVE Commands'
  <2>1. CASE \/ EnterWrapper(t) \/ LeaveWrapper(t) \/ CallExcl(t) \/ AcquireExcl(t)
             \/ ReleaseExcl(t) \/ LeaveClone(t) \/ LeaveCreate(t) \/ LeaveExit(t) \/ Vanish(t)
             \/ RunCoordinatorCmd(t)
    BY <2>1, SameCommandsGoto DEF EnterWrapper, LeaveWrapper, CallExcl, AcquireExcl, ReleaseExcl,
       LeaveClone, LeaveCreate, LeaveExit, Vanish, RunCoordinatorCmd, Call
  <2>2. CASE \/ PthreadCreate(t) \/ EnterClone(t)
             \/ CloneFails(t) \/ CreateFails(t) \/ CreateUndone(t)
             \/ CloneStarted(t) \/ ThreadFinishedInitialization(t) \/ UpdateTid(t) \/ ThreadExit(t)
    BY <2>2, SameCommandsGoto DEF PthreadCreate, EnterClone, CloneFails, CreateFails, CreateUndone,
       CloneStarted, ThreadFinishedInitialization, UpdateTid, ThreadExit, Call
  <2>3. ASSUME NEW child \in Threads, RealClone(t, child) PROVE Commands'
    <3>1. owner["_dmtcp_lock"] \notin {t, child}
      BY <2>3 DEF RealClone, Commands, Alive
    <3> QED BY <2>3, <3>1, SameCommands DEF RealClone, TypeOK
  <2>4. CASE Cancelled(t)
    <3>1. owner["_dmtcp_lock"] # t
      BY <1>2, <2>4 DEF Cancelled
    <3> QED BY <2>4, <3>1, SameCommands DEF Cancelled, TypeOK
  <2>5. ASSUME NEW m \in UserMutexes, CallLock(t, m) PROVE Commands'
    <3>1. m \notin {"command", "unlocking"}
      BY <1>2
    <3> QED BY <2>5, <3>1, SameCommandsGoto DEF CallLock, Call
  <2>6. ASSUME NEW m \in UserMutexes, AcquireLock(t, m) PROVE Commands'
    <3>1. /\ pc[t] = m /\ owner[m] = Nobody /\ m \in {"theCkptCanStart", "libdlLock"}
          /\ pc' = [pc EXCEPT ![t] = IF owner["_dmtcp_lock"] = t THEN "command" ELSE "user"]
          /\ owner' = [owner EXCEPT ![m] = t]
      BY <1>2, <2>6 DEF AcquireLock, Goto
    <3> QED BY <1>2, <3>1 DEF Commands, TypeOK
  <2>7. ASSUME NEW m \in UserMutexes, ReleaseLock(t, m) PROVE Commands'
    BY <1>2, <2>7 DEF ReleaseLock, Goto, Commands, TypeOK
  <2>8. CASE DmtcpLock(t)
    BY <1>2, <2>8 DEF DmtcpLock, Goto, Commands, TypeOK
  <2>9. CASE EnableCkpt(t)
    BY <1>2, <2>9 DEF EnableCkpt, Goto, Commands, TypeOK
  <2>10. CASE DmtcpUnlock(t)
    BY <1>2, <2>10 DEF DmtcpUnlock, Goto, Commands, TypeOK
  <2> QED BY <1>3, <2>1, <2>2, <2>3, <2>4, <2>5, <2>6, <2>7, <2>8, <2>9, <2>10 DEF UserThread
<1>4. ASSUME NEW t \in Threads, Handler(t) \/ Scan(t) PROVE Commands'
  BY <1>4, SameCommands DEF Handler, StopThisThread, Suspended, Restored, Woken,
     PreResumeUserThread, Scan, ScanRunning, ScanDead, ScanSignaled, ScanZombie, ScanStopped, threadVars
<1>5. ASSUME NEW m \in Mutexes, CkptMutex(m) PROVE Commands'
  BY <1>2, <1>5 DEF CkptMutex, Commands, TypeOK
<1>6. CASE ReleaseLocks
  BY <1>2, <1>6 DEF ReleaseLocks, Commands, TypeOK
<1>7. CASE PostRestart
  <2>1. owner["_dmtcp_lock"] = Nobody
    BY <1>2, <1>7 DEF PostRestart, CkptStep, Locks
  <2> QED BY <1>2, <1>7, <2>1, SameCommands DEF PostRestart
<1>8. ASSUME NEW lock \in {"creation", "execution"}, CkptWriteLock(lock) PROVE Commands'
  BY <1>8, SameCommands DEF CkptWriteLock, threadVars
<1>9. CASE \/ Sleep \/ SuspendMessage \/ AllInitialized \/ Rescan \/ ScanDone \/ Collect
           \/ WriteCkptImage \/ PostCheckpoint \/ PostRestartZombie \/ AllRestored
           \/ ResumeThread \/ Resumed \/ Terminated \/ UNCHANGED vars
  BY <1>9, SameCommands DEF Sleep, SuspendMessage, AllInitialized, Rescan, ScanDone, Collect,
     WriteCkptImage, PostCheckpoint, PostRestartZombie, AllRestored, ResumeThread, Resumed,
     Terminated, vars, threadVars
<1> QED BY <1>3, <1>4, <1>5, <1>6, <1>7, <1>8, <1>9 DEF Next, Checkpointhread

(* The invariant is inductive, together with Commands.                      *)
LEMMA NextIndInv == IndInv /\ Commands /\ [Next]_vars => IndInv'
<1> SUFFICES ASSUME IndInv, Commands, [Next]_vars PROVE IndInv'
  OBVIOUS
<1>1. ASSUME NEW t \in Threads, UserThread(t) PROVE IndInv'
  BY <1>1, PlainSteps, MutexSteps, CommandSteps, CountedSteps, RealCloneStep, UpdateTidStep,
     ThreadExitStep, CancelledStep DEF UserThread
<1>2. ASSUME NEW t \in Threads, Handler(t) PROVE IndInv'
  BY <1>2, StopThisThreadStep, SuspendedStep, RestoredStep, WokenStep, PreResumeUserThreadStep
     DEF Handler
<1>3. ASSUME NEW t \in Threads, Scan(t) PROVE IndInv'
  BY <1>3, ScanSame, ScanRunningStep, ScanDeadStep DEF Scan
<1>4. CASE Checkpointhread
  BY <1>3, <1>4, SleepStep, CkptMutexStep, CkptWriteLockStep, AllInitializedStep, RescanStep,
     ScanDoneStep, CollectStep, ReleaseLocksStep, WriteSteps, ResumeSteps, PostRestartStep,
     PostSteps DEF Checkpointhread
<1>5. CASE SuspendMessage
  BY <1>5, SuspendMessageStep
<1>6. CASE Terminated \/ UNCHANGED vars
  BY <1>6, StutterStep DEF Terminated
<1> QED BY <1>1, <1>2, <1>4, <1>5, <1>6 DEF Next

(* Every reachable state of the process satisfies the invariant.            *)
THEOREM IndInvHolds == Spec => [](IndInv /\ Commands)
<1>1. Init => IndInv /\ Commands
  <2>1. Nobody \notin Threads /\ "_dmtcp_lock" \in Mutexes
    BY OwnerAssumption DEF NotThreads, Mutexes
  <2>2. Init => Commands
    BY <2>1 DEF Init, Commands
  <2> QED BY <2>2, InitIndInv
<1>2. IndInv /\ Commands /\ [Next]_vars => (IndInv /\ Commands)'
  BY NextIndInv, NextCommands
<1> QED BY <1>1, <1>2, PTL DEF Spec

(* While the image is made, every thread that is not past threadExit is     *)
(* stopped in the handler, on the list and outside all wrappers, and no     *)
(* mutex is held, for any number of threads and whatever they were doing    *)
(* when the SUSPEND message came.  Threads past threadExit may still run.   *)
THEOREM QuiescentImage == Spec => []ImageIsQuiescent
<1>1. IndInv => ImageIsQuiescent
  <2> SUFFICES ASSUME IndInv, ckpt \in {"precheckpoint", "written"}
               PROVE  /\ \A t \in Threads : Alive(t) /\ pc[t] # "zombie" =>
                            /\ t \in activeThreads
                            /\ state[t] = "ST_SUSPENDED" /\ handler[t] = "waiting"
                            /\ pc[t] \in {"user", "exclWait"} \cup Mutexes
                      /\ \A m \in Mutexes : owner[m] = Nobody
    BY DEF ImageIsQuiescent
  <2>1. Locks /\ Descriptors /\ Halted /\ Stopped = Waiting
    BY StoppedByPhase DEF IndInv
  <2>2. ASSUME NEW t \in Threads, Alive(t), pc[t] # "zombie"
        PROVE  /\ t \in activeThreads
               /\ state[t] = "ST_SUSPENDED" /\ handler[t] = "waiting"
               /\ pc[t] \in {"user", "exclWait"} \cup Mutexes
    <3>1. handler[t] = "waiting" /\ pc[t] \in Resting
      BY <2>1, <2>2 DEF Halted, Stopped, Waiting
    <3> QED BY <2>1, <2>2, <3>1 DEF Descriptors, Resting, Mutexes
  <2> QED BY <2>1, <2>2 DEF Locks
<1> QED BY <1>1, IndInvHolds, PTL

(* No user thread that is not past threadExit runs between releaseLocks and *)
(* the first sem_post, nor, after a restart, before the last restored thread*)
(* is back.                                                                 *)
THEOREM NobodyRuns == Spec => []NobodyRunsUntilResumed
<1>1. IndInv => NobodyRunsUntilResumed
  BY DEF IndInv, TypeOK, Handlers, Halted, NobodyRunsUntilResumed
<1> QED BY <1>1, IndInvHolds, PTL

(* The semaphores and counters come out even in every checkpoint, and the   *)
(* variables keep their types.                                              *)
THEOREM WakeUpsEven == Spec => []WakeUpsComeOutEven
<1>1. IndInv => WakeUpsComeOutEven
  <2> SUFFICES ASSUME IndInv PROVE TypeOK /\ EveryTokenHasItsThread /\ NothingLeftOver
    BY DEF WakeUpsComeOutEven
  <2>1. TypeOK /\ Handlers /\ Semaphores
    BY DEF IndInv
  <2>2. EveryTokenHasItsThread
    BY <2>1, HandlerSets DEF EveryTokenHasItsThread, Semaphores, Waiting, TypeOK
  <2>3. NothingLeftOver
    BY <2>1, StoppedByPhase DEF NothingLeftOver, Semaphores, Handlers, Stopped, Mutexes
  <2> QED BY <2>1, <2>2, <2>3
<1> QED BY <1>1, IndInvHolds, PTL
==============================================================================
