---------------------------- MODULE ThreadList --------------------------------
(***************************************************************************)
(* How one process under DMTCP is brought to a halt for its image and set  *)
(* going again: the user threads, which run in wrappers, create threads,   *)
(* load libraries and exit as they like, and the checkpoint thread, which  *)
(* takes five locks, signals every thread on its list, writes the image    *)
(* and lets the threads go on, in the same process or in one restored from *)
(* the image.                                                              *)
(*                                                                         *)
(* A thread descriptor is named by its tid.  A tid may be used again once  *)
(* its thread is gone, also while the old descriptor is still listed.      *)
(***************************************************************************)
EXTENDS Integers, FiniteSets

CONSTANTS
    Threads,      \* tids of user threads
    Main,         \* motherofall
    MaxOps,       \* bound: wrapped calls made by all threads together
    MaxCkpts      \* bound: SUSPEND messages from the coordinator

ASSUME ThreadAssumption ==
    /\ IsFiniteSet(Threads)
    /\ Main \in Threads
    /\ MaxOps \in Nat /\ MaxCkpts \in Nat

(* The owner of a mutex that is no user thread.                             *)
Nobody == "nobody"
CkptThread == "checkpointhread"
NotThreads == {Nobody, CkptThread}

ASSUME OwnerAssumption == Threads \cap NotThreads = {}

(* The mutexes that the checkpoint thread and user threads compete for, and *)
(* those that a user thread may hold while it runs its own code.            *)
Mutexes == {"_dmtcp_lock", "theCkptCanStart", "libdlLock"}
UserMutexes == Mutexes \ {"_dmtcp_lock"}

(* Where a user thread is:                                                  *)
(*   unborn, gone            no such thread in the kernel                   *)
(*   user                    its own code, or a loop that retries tryrdlock *)
(*   _dmtcp_lock, theCkptCanStart, libdlLock, exclWait  blocked on that lock *)
(*   command, unlocking      in runCoordinatorCmd: both locks its own; about*)
(*                           to release _dmtcp_lock                         *)
(*   wrapper, excl           in a wrapper, in fork or exec                  *)
(*   create, clone, cloned, created   in pthread_create: before __clone, in *)
(*                           it before and after the system call, after it  *)
(*   unable, uncreated       pthread_create is failing: __clone is left; the*)
(*                           creation lock is released, the count still up  *)
(*   born, listed, starting  a new thread: not yet on the list, listed,     *)
(*                           counted once, about to call its function       *)
(*   exiting, zombie         marked ST_ZOMBIE, in the wrapper and out of it *)
Places == {"unborn", "user", "wrapper", "exclWait", "excl", "command", "unlocking",
           "create", "clone", "cloned", "created", "unable", "uncreated", "born", "listed", "starting", "exiting",
           "zombie", "gone"} \cup Mutexes

ThreadStates == {"ST_RUNNING", "ST_SIGNALED", "ST_SUSPINPROG", "ST_SUSPENDED",
                 "ST_ZOMBIE"}

VARIABLES
    pc,             \* pc[t]: the place of user thread t
    state,          \* state[t]: thread->state
    activeThreads,  \* the descriptors on the list
    handler,        \* handler[t]: how far t is in stopthisthread
    pending,        \* threads with the checkpoint signal pending
    owner,          \* owner[m]: who holds mutex m
    uninitializedThreadCount, preResumeThreadCount, numUserThreads,
    semNotifyCkptThread, semWaitForCkptThreadSignal,
    ckpt,           \* where the checkpoint thread is; a lock it waits for
    held,           \* the read-write locks it holds
    left,           \* loop counter of the checkpoint thread
    toScan,         \* descriptors the current pass has still to visit
    needrescan,
    ops, ckpts      \* how much of the two bounds is used up

threadVars == <<pc, state, activeThreads, owner, uninitializedThreadCount, ops>>
signalVars == <<handler, pending, preResumeThreadCount, semNotifyCkptThread,
                semWaitForCkptThreadSignal>>
ckptVars == <<ckpt, held, left, toScan, needrescan, numUserThreads, ckpts>>
vars == <<threadVars, signalVars, ckptVars>>

TypeOK ==
    /\ pc \in [Threads -> Places]
    /\ state \in [Threads -> ThreadStates]
    /\ activeThreads \in SUBSET Threads
    /\ handler \in [Threads -> {"out", "saved", "waiting", "woken", "restored"}]
    /\ pending \in SUBSET Threads
    /\ owner \in [Mutexes -> Threads \cup NotThreads]
    /\ uninitializedThreadCount \in Nat
    /\ preResumeThreadCount \in Nat
    /\ numUserThreads \in Nat
    /\ semNotifyCkptThread \in Nat
    /\ semWaitForCkptThreadSignal \in Nat
    /\ ckpt \in {"sleep", "idle", "creation", "execution", "uninitialized",
                 "scan", "collect", "precheckpoint", "written",
                 "restore", "resume", "crashed"} \cup Mutexes
    /\ held \in SUBSET {"creation", "execution"}
    /\ left \in Nat
    /\ toScan \in SUBSET Threads
    /\ needrescan \in BOOLEAN
    /\ ops \in 0 .. MaxOps
    /\ ckpts \in 0 .. MaxCkpts

Init ==
    /\ pc = [t \in Threads |-> IF t = Main THEN "user" ELSE "unborn"]
    /\ state = [t \in Threads |-> "ST_RUNNING"]
    /\ activeThreads = {Main}
    /\ handler = [t \in Threads |-> "out"]
    /\ pending = {}
    /\ owner = [m \in Mutexes |-> Nobody]
    /\ uninitializedThreadCount = 0
    /\ preResumeThreadCount = 0
    /\ numUserThreads = 0
    /\ semNotifyCkptThread = 0
    /\ semWaitForCkptThreadSignal = 0
    /\ ckpt = "sleep"
    /\ held = {}
    /\ left = 0
    /\ toScan = {}
    /\ needrescan = FALSE
    /\ ops = 0
    /\ ckpts = 0

------------------------------------------------------------------------------
(* The two read-write locks, both of the kind that prefers writers: a       *)
(* reader's attempt fails as soon as a writer waits.                        *)
ExecutionReaders == {t \in Threads : pc[t] \in {"wrapper", "clone", "cloned", "exiting"}}
CreationReaders == {t \in Threads : pc[t] \in {"create", "clone", "cloned", "created", "unable"}}

CanReadExecution ==
    /\ "execution" \notin held /\ ckpt # "execution"
    /\ \A t \in Threads : pc[t] \notin {"excl", "exclWait"}
CanWriteExecution ==
    /\ "execution" \notin held
    /\ ExecutionReaders = {}
    /\ \A t \in Threads : pc[t] # "excl"
CanReadCreation == "creation" \notin held /\ ckpt # "creation"

(* suspendThreads goes through the list under threadlistLock.               *)
ListUnlocked == ckpt # "scan"

Alive(t) == pc[t] \notin {"unborn", "gone"}
Runs(t) == Alive(t) /\ handler[t] = "out" /\ ckpt # "crashed"

------------------------------------------------------------------------------
(* User threads.  A step takes a thread from one place to the next.         *)
Goto(t, from, to) ==
    /\ pc[t] = from
    /\ Runs(t)
    /\ pc' = [pc EXCEPT ![t] = to]
    /\ UNCHANGED <<signalVars, ckptVars>>

Call(t, to) ==
    /\ Goto(t, "user", to)
    /\ ops < MaxOps
    /\ ops' = ops + 1

Plain == UNCHANGED <<state, activeThreads, uninitializedThreadCount>>

(* WRAPPER_EXECUTION_DISABLE_CKPT and the unlock at the end of the wrapper. *)
(* A wrapper called inside another one, by a thread that holds the lock     *)
(* exclusively or by one that is past threadExit takes no lock: its count is*)
(* not 0 or its _isOkToGrabWrapperExecutionLock is false.                   *)
EnterWrapper(t) ==
    /\ Call(t, "wrapper")
    /\ CanReadExecution
    /\ Plain /\ UNCHANGED owner

LeaveWrapper(t) == Goto(t, "wrapper", "user") /\ Plain /\ UNCHANGED <<owner, ops>>

(* fork and exec: the lock is waited for, not tried.                        *)
CallExcl(t) == Call(t, "exclWait") /\ Plain /\ UNCHANGED owner

AcquireExcl(t) ==
    /\ Goto(t, "exclWait", "excl")
    /\ CanWriteExecution
    /\ Plain /\ UNCHANGED <<owner, ops>>

ReleaseExcl(t) == Goto(t, "excl", "user") /\ Plain /\ UNCHANGED <<owner, ops>>

(* dmtcp_disable_ckpt, and dlopen and dlclose.  The code between lock and   *)
(* unlock is the user's: constructors of the library call wrappers, fork and*)
(* dmtcp_disable_ckpt.  A lock that the thread has already is only counted. *)
CallLock(t, m) ==
    /\ owner[m] # t
    /\ Call(t, m)
    /\ Plain /\ UNCHANGED owner

AcquireLock(t, m) ==
    /\ owner[m] = Nobody
    /\ owner' = [owner EXCEPT ![m] = t]
    /\ Goto(t, m, IF owner["_dmtcp_lock"] = t THEN "command" ELSE "user")
    /\ Plain /\ UNCHANGED ops

ReleaseLock(t, m) ==
    /\ owner[m] = t
    /\ owner' = [owner EXCEPT ![m] = Nobody]
    /\ Goto(t, "user", "user")
    /\ Plain /\ UNCHANGED ops

(* runCoordinatorCmd: dmtcp_checkpoint and dmtcp_get_coordinator_status take*)
(* _dmtcp_lock and then, in dmtcp_disable_ckpt, theCkptCanStart, which the  *)
(* caller may have already.                                                 *)
RunCoordinatorCmd(t) == Call(t, "_dmtcp_lock") /\ Plain /\ UNCHANGED owner

DmtcpLock(t) ==
    /\ owner["_dmtcp_lock"] = Nobody
    /\ owner' = [owner EXCEPT !["_dmtcp_lock"] = t]
    /\ Goto(t, "_dmtcp_lock",
            IF owner["theCkptCanStart"] = t THEN "unlocking" ELSE "theCkptCanStart")
    /\ Plain /\ UNCHANGED ops

(* The coordinator has answered: dmtcp_enable_ckpt, then _dmtcp_unlock.     *)
EnableCkpt(t) ==
    /\ owner' = [owner EXCEPT !["theCkptCanStart"] = Nobody]
    /\ Goto(t, "command", "unlocking")
    /\ Plain /\ UNCHANGED ops

DmtcpUnlock(t) ==
    /\ owner' = [owner EXCEPT !["_dmtcp_lock"] = Nobody]
    /\ Goto(t, "unlocking", "user")
    /\ Plain /\ UNCHANGED ops

------------------------------------------------------------------------------
(* pthread_create: the thread-creation lock, then, in __clone, the wrapper  *)
(* lock; the counter of uninitialized threads is raised in both.            *)
Uninitialized(delta) ==
    uninitializedThreadCount' = uninitializedThreadCount + delta
Initialized(delta) ==
    uninitializedThreadCount' = uninitializedThreadCount - delta

PthreadCreate(t) ==
    /\ Call(t, "create")
    /\ CanReadCreation
    /\ Uninitialized(1)
    /\ UNCHANGED <<state, activeThreads, owner>>

EnterClone(t) ==
    /\ Goto(t, "create", "clone")
    /\ CanReadExecution /\ ListUnlocked
    /\ Uninitialized(1)
    /\ UNCHANGED <<state, activeThreads, owner, ops>>

(* The system call fails; __clone takes its count back and unlocks.         *)
CloneFails(t) ==
    /\ Goto(t, "clone", "unable")
    /\ Initialized(1)
    /\ UNCHANGED <<state, activeThreads, owner, ops>>

(* The real pthread_create fails, in __clone or without calling it: the     *)
(* creation lock is released, then the count taken back.                    *)
CreateFails(t) ==
    /\ \E from \in {"create", "unable"} : Goto(t, from, "uncreated")
    /\ Plain /\ UNCHANGED <<owner, ops>>

CreateUndone(t) ==
    /\ Goto(t, "uncreated", "user")
    /\ Initialized(1)
    /\ UNCHANGED <<state, activeThreads, owner, ops>>

RealClone(t, child) ==
    /\ pc[t] = "clone" /\ Runs(t)
    /\ child # Main /\ ~Alive(child)
    /\ pc' = [pc EXCEPT ![t] = "cloned", ![child] = "born"]
    /\ Plain /\ UNCHANGED <<owner, ops, signalVars, ckptVars>>

LeaveClone(t) == Goto(t, "cloned", "created") /\ Plain /\ UNCHANGED <<owner, ops>>
LeaveCreate(t) == Goto(t, "created", "user") /\ Plain /\ UNCHANGED <<owner, ops>>

(* clone_start: updateTid puts the descriptor on the list, in place of an   *)
(* old one of the same tid, and drops zombies whose thread is gone.         *)
UpdateTid(t) ==
    /\ Goto(t, "born", "listed")
    /\ ListUnlocked
    /\ state' = [state EXCEPT ![t] = "ST_RUNNING"]
    /\ activeThreads' =
         {t} \cup {d \in activeThreads : state[d] = "ST_ZOMBIE" => Alive(d)}
    /\ UNCHANGED <<owner, uninitializedThreadCount, ops>>

CloneStarted(t) ==
    /\ Goto(t, "listed", "starting")
    /\ Initialized(1)
    /\ UNCHANGED <<state, activeThreads, owner, ops>>

(* pthread_start, up to the call of the user's function.                    *)
ThreadFinishedInitialization(t) ==
    /\ Goto(t, "starting", "user")
    /\ Initialized(1)
    /\ UNCHANGED <<state, activeThreads, owner, ops>>

(* The end of pthread_start and pthread_exit: the descriptor is marked under*)
(* the wrapper lock, the thread itself goes some time after it is released. *)
(* The main thread is not the one to call pthread_exit.                     *)
ThreadExit(t) ==
    /\ Goto(t, "user", "exiting")
    /\ t # Main /\ \A m \in Mutexes : owner[m] # t
    /\ CanReadExecution
    /\ state' = [state EXCEPT ![t] = "ST_ZOMBIE"]
    /\ UNCHANGED <<activeThreads, owner, uninitializedThreadCount, ops>>

LeaveExit(t) == Goto(t, "exiting", "zombie") /\ Plain /\ UNCHANGED <<owner, ops>>
Vanish(t) == Goto(t, "zombie", "gone") /\ Plain /\ UNCHANGED <<owner, ops>>

(* pthread_cancel is not wrapped: the thread goes and its descriptor stays  *)
(* ST_RUNNING or ST_SIGNALED.  Assumed: it does not hit a thread in         *)
(* stopthisthread, where sem_wait would let it.                             *)
Cancelled(t) ==
    /\ t # Main /\ \A m \in Mutexes : owner[m] # t
    /\ Runs(t) /\ pc[t] = "user"
    /\ pc' = [pc EXCEPT ![t] = "gone"]
    /\ pending' = pending \ {t}
    /\ Plain
    /\ UNCHANGED <<owner, ops, handler, preResumeThreadCount, semNotifyCkptThread,
                   semWaitForCkptThreadSignal, ckptVars>>

------------------------------------------------------------------------------
(* stopthisthread, the handler of the checkpoint signal.  It can interrupt  *)
(* a thread anywhere; pc stays where it was.                                *)
StopThisThread(t) ==
    /\ t \in pending /\ Runs(t)
    /\ state[t] = "ST_SIGNALED"
    /\ pending' = pending \ {t}
    /\ state' = [state EXCEPT ![t] = "ST_SUSPINPROG"]
    /\ handler' = [handler EXCEPT ![t] = "saved"]
    /\ preResumeThreadCount' = preResumeThreadCount + 1
    /\ UNCHANGED <<pc, activeThreads, owner, uninitializedThreadCount, ops,
                   semNotifyCkptThread, semWaitForCkptThreadSignal, ckptVars>>

Suspended(t) ==
    /\ handler[t] = "saved"
    /\ handler' = [handler EXCEPT ![t] = "waiting"]
    /\ state' = [state EXCEPT ![t] = "ST_SUSPENDED"]
    /\ semNotifyCkptThread' = semNotifyCkptThread + 1
    /\ UNCHANGED <<pc, activeThreads, owner, uninitializedThreadCount, ops, pending,
                   preResumeThreadCount, semWaitForCkptThreadSignal, ckptVars>>

(* waitForAllRestored in a user thread: a restored thread goes on behind    *)
(* getcontext and reports that it is there.                                 *)
Restored(t) ==
    /\ handler[t] = "restored" /\ ckpt # "crashed"
    /\ handler' = [handler EXCEPT ![t] = "waiting"]
    /\ semNotifyCkptThread' = semNotifyCkptThread + 1
    /\ UNCHANGED <<threadVars, pending, preResumeThreadCount,
                   semWaitForCkptThreadSignal, ckptVars>>

Woken(t) ==
    /\ handler[t] = "waiting" /\ ckpt # "crashed"
    /\ semWaitForCkptThreadSignal > 0
    /\ semWaitForCkptThreadSignal' = semWaitForCkptThreadSignal - 1
    /\ handler' = [handler EXCEPT ![t] = "woken"]
    /\ state' = [state EXCEPT ![t] = "ST_RUNNING"]
    /\ UNCHANGED <<pc, activeThreads, owner, uninitializedThreadCount, ops, pending,
                   preResumeThreadCount, semNotifyCkptThread, ckptVars>>

(* callbackPreResumeUserThread, and back to the interrupted code.           *)
PreResumeUserThread(t) ==
    /\ handler[t] = "woken"
    /\ preResumeThreadCount' = preResumeThreadCount - 1
    /\ handler' = [handler EXCEPT ![t] = "out"]
    /\ UNCHANGED <<threadVars, pending, semNotifyCkptThread,
                   semWaitForCkptThreadSignal, ckptVars>>

------------------------------------------------------------------------------
(* The checkpoint thread.                                                   *)
CkptStep(from, to) == ckpt = from /\ ckpt' = to

(* Fault: the next checkpoint is not held back until the threads of the last*)
(* one have left the handler.                                               *)
SleepNoPreResumeWait ==
    /\ CkptStep("sleep", "idle")
    /\ UNCHANGED <<threadVars, signalVars, held, left, toScan, needrescan,
                   numUserThreads, ckpts>>

(* callbackSleepBetweenCheckpoint: waitForUserThreadsToFinishPreResumeCB.   *)
Sleep ==
    /\ CkptStep("sleep", "idle")
    /\ preResumeThreadCount = 0
    /\ UNCHANGED <<threadVars, signalVars, held, left, toScan, needrescan,
                   numUserThreads, ckpts>>

(* waitForStage1Suspend: the SUSPEND message.                               *)
SuspendMessage ==
    /\ CkptStep("idle", "_dmtcp_lock")
    /\ ckpts < MaxCkpts
    /\ ckpts' = ckpts + 1
    /\ UNCHANGED <<threadVars, signalVars, held, left, toScan, needrescan,
                   numUserThreads>>


(* Fault: the library lock is not taken.                                    *)
NextLockNoLibdl(lock) ==
    CASE lock = "_dmtcp_lock"     -> "theCkptCanStart"
      [] lock = "theCkptCanStart" -> "creation"
      [] lock = "creation"        -> "execution"
      [] lock = "execution"       -> "uninitialized"

(* acquireLocks: the order of the locks, and the wait behind them.          *)
NextLock(lock) ==
    CASE lock = "_dmtcp_lock"     -> "theCkptCanStart"
      [] lock = "theCkptCanStart" -> "libdlLock"
      [] lock = "libdlLock"       -> "creation"
      [] lock = "creation"        -> "execution"
      [] lock = "execution"       -> "uninitialized"

CkptMutex(m) ==
    /\ CkptStep(m, NextLock(m))
    /\ owner[m] = Nobody
    /\ owner' = [owner EXCEPT ![m] = CkptThread]
    /\ UNCHANGED <<pc, state, activeThreads, uninitializedThreadCount, ops, signalVars,
                   held, left, toScan, needrescan, numUserThreads, ckpts>>

CkptWriteLock(lock) ==
    /\ CkptStep(lock, NextLock(lock))
    /\ \/ lock = "creation" /\ CreationReaders = {}
       \/ lock = "execution" /\ CanWriteExecution
    /\ held' = held \cup {lock}
    /\ UNCHANGED <<threadVars, signalVars, left, toScan, needrescan, numUserThreads,
                   ckpts>>

(* One pass over the list starts.                                           *)
Pass ==
    /\ toScan' = activeThreads
    /\ needrescan' = FALSE
    /\ numUserThreads' = 0

(* waitForThreadsToFinishInitialization.                                    *)
AllInitialized ==
    /\ CkptStep("uninitialized", "scan")
    /\ uninitializedThreadCount = 0
    /\ Pass
    /\ UNCHANGED <<threadVars, signalVars, held, left, ckpts>>

(* suspendThreads, one descriptor, by its state.                            *)
Visit(t) ==
    /\ ckpt = "scan" /\ t \in toScan
    /\ toScan' = toScan \ {t}

ScanRunning(t) ==
    /\ Visit(t)
    /\ state[t] = "ST_RUNNING" /\ Alive(t)
    /\ state' = [state EXCEPT ![t] = "ST_SIGNALED"]
    /\ pending' = pending \cup {t}
    /\ needrescan' = TRUE
    /\ UNCHANGED <<pc, activeThreads, owner, uninitializedThreadCount, ops, handler,
                   preResumeThreadCount, semNotifyCkptThread,
                   semWaitForCkptThreadSignal, ckpt, held, left, numUserThreads, ckpts>>

(* Fault: only zombies are checked for having gone.                         *)
ScanDeadZombiesOnly(t) ==
    /\ Visit(t)
    /\ state[t] \in {"ST_RUNNING", "ST_SIGNALED", "ST_ZOMBIE"} /\ ~Alive(t)
    /\ activeThreads' = IF state[t] = "ST_ZOMBIE" THEN activeThreads \ {t}
                                                  ELSE activeThreads
    /\ needrescan' = (needrescan \/ state[t] # "ST_ZOMBIE")
    /\ UNCHANGED <<pc, state, owner, uninitializedThreadCount, ops, signalVars, ckpt,
                   held, left, numUserThreads, ckpts>>

(* tgkill fails with ESRCH: threadIsDead.                                   *)
ScanDead(t) ==
    /\ Visit(t)
    /\ state[t] \in {"ST_RUNNING", "ST_SIGNALED", "ST_ZOMBIE"} /\ ~Alive(t)
    /\ activeThreads' = activeThreads \ {t}
    /\ UNCHANGED <<pc, state, owner, uninitializedThreadCount, ops, signalVars, ckpt,
                   held, left, needrescan, numUserThreads, ckpts>>

ScanSignaled(t) ==
    /\ Visit(t)
    /\ state[t] = "ST_SIGNALED" /\ Alive(t)
    /\ needrescan' = TRUE
    /\ UNCHANGED <<threadVars, signalVars, ckpt, held, left, numUserThreads, ckpts>>

(* A zombie that still runs is left alone and not counted.                  *)
ScanZombie(t) ==
    /\ Visit(t)
    /\ state[t] = "ST_ZOMBIE" /\ Alive(t)
    /\ UNCHANGED <<threadVars, signalVars, ckpt, held, left, needrescan,
                   numUserThreads, ckpts>>

ScanStopped(t) ==
    /\ Visit(t)
    /\ state[t] \in {"ST_SUSPINPROG", "ST_SUSPENDED"}
    /\ numUserThreads' = numUserThreads + 1
    /\ UNCHANGED <<threadVars, signalVars, ckpt, held, left, needrescan, ckpts>>

Rescan ==
    /\ ckpt = "scan" /\ toScan = {} /\ needrescan
    /\ Pass
    /\ UNCHANGED <<threadVars, signalVars, ckpt, held, left, ckpts>>

ScanDone ==
    /\ CkptStep("scan", "collect")
    /\ toScan = {} /\ ~needrescan
    /\ left' = numUserThreads
    /\ UNCHANGED <<threadVars, signalVars, held, toScan, needrescan, numUserThreads, ckpts>>

(* One sem_wait on semNotifyCkptThread, in suspendThreads or, after a       *)
(* restart, in waitForAllRestored.                                          *)
Collect ==
    /\ ckpt \in {"collect", "restore"} /\ left > 0
    /\ semNotifyCkptThread > 0
    /\ semNotifyCkptThread' = semNotifyCkptThread - 1
    /\ left' = left - 1
    /\ UNCHANGED <<threadVars, handler, pending, preResumeThreadCount,
                   semWaitForCkptThreadSignal, ckpt, held, toScan, needrescan,
                   numUserThreads, ckpts>>

(* waitForStage2Checkpoint: WorkerState is SUSPENDED; releaseLocks.         *)
ReleaseLocks ==
    /\ CkptStep("collect", "precheckpoint")
    /\ left = 0
    /\ held' = {}
    /\ owner' = [m \in Mutexes |-> IF owner[m] = CkptThread THEN Nobody ELSE owner[m]]
    /\ UNCHANGED <<pc, state, activeThreads, uninitializedThreadCount, ops, signalVars,
                   left, toScan, needrescan, numUserThreads, ckpts>>

(* The barriers of the coordinator up to CHECKPOINT, then writeCkptImage.   *)
WriteCkptImage ==
    /\ CkptStep("precheckpoint", "written")
    /\ UNCHANGED <<threadVars, signalVars, held, left, toScan, needrescan,
                   numUserThreads, ckpts>>

(* callbackPostCheckpoint(0): the process that wrote the image goes on.     *)
PostCheckpoint ==
    /\ CkptStep("written", "resume")
    /\ left' = numUserThreads
    /\ UNCHANGED <<threadVars, signalVars, held, toScan, needrescan, numUserThreads, ckpts>>

(* postRestart: a new process starts from the image; whatever the old one   *)
(* did after writing it is forgotten, so the state is the one of that       *)
(* moment.  Every listed thread is cloned and jumps behind its getcontext.  *)
PostRestart ==
    /\ CkptStep("written", "restore")
    /\ \A t \in activeThreads : state[t] # "ST_ZOMBIE"
    /\ pc' = [t \in Threads |-> IF t \in activeThreads THEN pc[t] ELSE "gone"]
    /\ handler' = [t \in Threads |-> IF t \in activeThreads THEN "restored" ELSE "out"]
    /\ pending' = {}
    /\ left' = numUserThreads
    /\ UNCHANGED <<state, activeThreads, owner, uninitializedThreadCount, ops,
                   preResumeThreadCount, semNotifyCkptThread,
                   semWaitForCkptThreadSignal, held, toScan, needrescan,
                   numUserThreads, ckpts>>

(* A listed zombie has no context to jump to: its saved_sp and savctx are   *)
(* the zeros of getNewThread, or those of an earlier checkpoint, in which   *)
(* case its state is not the asserted ST_SUSPENDED.  The process dies.      *)
PostRestartZombie ==
    /\ CkptStep("written", "crashed")
    /\ \E t \in activeThreads : state[t] = "ST_ZOMBIE"
    /\ UNCHANGED <<threadVars, signalVars, held, left, toScan, needrescan,
                   numUserThreads, ckpts>>

(* Fault: the checkpoint thread does not wait for the restored threads.     *)
AllRestoredNoWait ==
    /\ CkptStep("restore", "resume")
    /\ left' = numUserThreads
    /\ UNCHANGED <<threadVars, signalVars, held, toScan, needrescan, numUserThreads, ckpts>>

(* callbackPostCheckpoint(1), once all threads are back.                    *)
AllRestored ==
    /\ CkptStep("restore", "resume")
    /\ left = 0
    /\ left' = numUserThreads
    /\ UNCHANGED <<threadVars, signalVars, held, toScan, needrescan, numUserThreads, ckpts>>

(* resumeThreads and the end of waitForAllRestored: one sem_post.           *)
ResumeThread ==
    /\ ckpt = "resume" /\ left > 0
    /\ semWaitForCkptThreadSignal' = semWaitForCkptThreadSignal + 1
    /\ left' = left - 1
    /\ UNCHANGED <<threadVars, handler, pending, preResumeThreadCount,
                   semNotifyCkptThread, ckpt, held, toScan, needrescan,
                   numUserThreads, ckpts>>

Resumed ==
    /\ CkptStep("resume", "sleep")
    /\ left = 0
    /\ UNCHANGED <<threadVars, signalVars, held, left, toScan, needrescan,
                   numUserThreads, ckpts>>

------------------------------------------------------------------------------
UserThread(t) ==
    \/ EnterWrapper(t) \/ LeaveWrapper(t)
    \/ CallExcl(t) \/ AcquireExcl(t) \/ ReleaseExcl(t)
    \/ \E m \in UserMutexes : CallLock(t, m) \/ AcquireLock(t, m) \/ ReleaseLock(t, m)
    \/ RunCoordinatorCmd(t) \/ DmtcpLock(t) \/ EnableCkpt(t) \/ DmtcpUnlock(t)
    \/ PthreadCreate(t) \/ EnterClone(t)
    \/ CloneFails(t) \/ CreateFails(t) \/ CreateUndone(t)
    \/ \E child \in Threads : RealClone(t, child)
    \/ LeaveClone(t) \/ LeaveCreate(t)
    \/ UpdateTid(t) \/ CloneStarted(t) \/ ThreadFinishedInitialization(t)
    \/ ThreadExit(t) \/ LeaveExit(t) \/ Vanish(t) \/ Cancelled(t)

Handler(t) ==
    \/ StopThisThread(t) \/ Suspended(t) \/ Restored(t) \/ Woken(t)
    \/ PreResumeUserThread(t)

Scan(t) ==
    \/ ScanRunning(t) \/ ScanDead(t) \/ ScanSignaled(t) \/ ScanZombie(t)
    \/ ScanStopped(t)

Checkpointhread ==
    \/ Sleep
    \/ \E m \in Mutexes : CkptMutex(m)
    \/ \E lock \in {"creation", "execution"} : CkptWriteLock(lock)
    \/ AllInitialized
    \/ \E t \in Threads : Scan(t)
    \/ Rescan
    \/ ScanDone
    \/ Collect
    \/ ReleaseLocks
    \/ WriteCkptImage
    \/ PostCheckpoint
    \/ PostRestart
    \/ PostRestartZombie
    \/ AllRestored
    \/ ResumeThread
    \/ Resumed

(* Some wait for one another, each for a mutex that one of them holds.      *)
Agents == Threads \cup {CkptThread}
Wanted(a) == IF a = CkptThread THEN ckpt ELSE pc[a]
Circle ==
    \E D \in SUBSET {a \in Agents : Wanted(a) \in Mutexes} \ {{}} :
        \A a \in D : owner[Wanted(a)] \in D

(* The bounds are used up, or the process has died or hangs.                *)
Finished ==
    \/ ckpt = "crashed" \/ Circle
    \/ /\ ckpt = "idle" /\ ckpts = MaxCkpts
       /\ \A t \in Threads : pc[t] \in {"unborn", "user", "gone"}
       /\ \A m \in Mutexes : owner[m] = Nobody

Terminated == Finished /\ UNCHANGED vars

Next ==
    \/ \E t \in Threads : UserThread(t) \/ Handler(t)
    \/ SuspendMessage
    \/ Checkpointhread
    \/ Terminated

Spec == Init /\ [][Next]_vars

------------------------------------------------------------------------------
(* threadlist.cpp calls the moment after suspendThreads safe.  While the    *)
(* image is made, every thread that is not past threadExit is stopped in    *)
(* the handler, on the list and outside all wrappers, none is half created  *)
(* and none holds a mutex that the restored process would find taken.  The  *)
(* comment there says more: "All other threads halted in 'stopthisthread'   *)
(* routine (they are all in state ST_SUSPENDED)."  That is not so of a      *)
(* thread past threadExit: suspendThreads leaves a live zombie alone, which *)
(* may run on while the image is made.                                      *)
ImageIsQuiescent ==
    ckpt \in {"precheckpoint", "written"} =>
        /\ \A t \in Threads : Alive(t) /\ pc[t] # "zombie" =>
              /\ t \in activeThreads
              /\ state[t] = "ST_SUSPENDED" /\ handler[t] = "waiting"
              /\ pc[t] \in {"user", "exclWait"} \cup Mutexes
        /\ \A m \in Mutexes : owner[m] = Nobody

(* From the moment the locks are released to the first sem_post no user     *)
(* thread runs: it would find WorkerState not RUNNING and skip or, in an    *)
(* unlock, end the process.  After a restart this holds until the last      *)
(* thread is back.  Threads past threadExit are exempt: they run, but take  *)
(* no lock any more.                                                        *)
NobodyRunsUntilResumed ==
    /\ ckpt \in {"precheckpoint", "written", "restore"} =>
         \A t \in Threads : Alive(t) /\ pc[t] # "zombie" =>
             handler[t] \in {"waiting", "restored"}
    /\ ckpt = "resume" => \A t \in Threads : handler[t] # "restored"

(* Every stopped thread gets one wake-up and none is left for a later       *)
(* checkpoint, where it would let a thread go on before the image is there. *)
EveryTokenHasItsThread ==
    ckpt \in {"resume", "sleep"} =>
        Cardinality({t \in Threads : handler[t] = "waiting"})
            = semWaitForCkptThreadSignal + left

(* When the next checkpoint begins, the last one is over: both semaphores   *)
(* are at zero and no thread is in the handler.                             *)
NothingLeftOver ==
    ckpt \in {"idle", "creation", "execution", "uninitialized"} \cup Mutexes =>
        /\ semNotifyCkptThread = 0 /\ semWaitForCkptThreadSignal = 0
        /\ pending = {}
        /\ \A t \in Threads : handler[t] = "out"

(* The semaphores and counters of threadlist.cpp and threadsync.cpp come    *)
(* out even in every checkpoint and are never negative (TypeOK).            *)
WakeUpsComeOutEven == TypeOK /\ EveryTokenHasItsThread /\ NothingLeftOver

------------------------------------------------------------------------------
(* Fairness: the checkpoint thread and the signal handlers take their next  *)
(* step; a thread leaves a wrapper it is in (pthread_join waits 100 ms at a *)
(* time, so it does as well), unlocks what it has locked and gets through   *)
(* pthread_create, while it need not make another call.  A lock that is     *)
(* free for good is granted; that it is granted to the checkpoint thread    *)
(* before the calls of MaxOps are used up is not assumed.                   *)
Goes(t) ==
    \/ LeaveWrapper(t) \/ AcquireExcl(t) \/ ReleaseExcl(t)
    \/ \E m \in UserMutexes : AcquireLock(t, m) \/ ReleaseLock(t, m)
    \/ DmtcpLock(t) \/ EnableCkpt(t) \/ DmtcpUnlock(t)
    \/ EnterClone(t) \/ CloneFails(t) \/ \E child \in Threads : RealClone(t, child)
    \/ (pc[t] = "unable" /\ CreateFails(t)) \/ CreateUndone(t)
    \/ LeaveClone(t) \/ LeaveCreate(t)
    \/ UpdateTid(t) \/ CloneStarted(t) \/ ThreadFinishedInitialization(t)
    \/ LeaveExit(t) \/ Vanish(t)

Fairness ==
    /\ WF_vars(Checkpointhread)
    /\ \A t \in Threads : WF_vars(Goes(t)) /\ WF_vars(Handler(t))

FairSpec == Spec /\ Fairness

(* The order of acquireLocks, and a user thread that waits against it: under*)
(* dmtcp_disable_ckpt it calls dmtcp_checkpoint or                          *)
(* dmtcp_get_coordinator_status, or from a constructor of a library that    *)
(* dlopen loads it calls one of the three.                                  *)
Rank == [_dmtcp_lock |-> 1, theCkptCanStart |-> 2, libdlLock |-> 3]
AgainstTheOrder(t) ==
    \E m \in Mutexes : pc[t] \in Mutexes /\ owner[m] = t /\ Rank[pc[t]] < Rank[m]


(* A thread that was stopped goes on, in this process or in the restored    *)
(* one, unless the restart dies of a listed zombie.                         *)
StoppedGoesOn ==
    \A t \in Threads : handler[t] = "waiting" ~> handler[t] = "out" \/ ckpt = "crashed"

==============================================================================
