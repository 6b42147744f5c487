---------------------------- MODULE Coordinator ------------------------------
(***************************************************************************)
(* dmtcp_coordinator with the processes it checkpoints and the             *)
(* dmtcp_command clients that talk to it (the fork of DMTCP in dmtcp/).    *)
(*                                                                         *)
(* The coordinator is one event loop: a connection, a message, a closed    *)
(* socket and the interval timer are each handled to the end.  It remembers*)
(* the last state every process reported and drives a global barrier: when *)
(* the minimum of those states advances it broadcasts the next order.  A   *)
(* process reports its new state, then blocks until exactly the next order *)
(* arrives, and asserts that nothing else does.                            *)
(*                                                                         *)
(* A computation is identified by the process that began it and the run in *)
(* which it did (UniquePid: host, pid, time); the generation counts its    *)
(* checkpoints and takes no part in comparisons.                           *)
(***************************************************************************)
EXTENDS Integers, Sequences, FiniteSets, FiniteSetsExt

CONSTANTS
    Workers,          \* process identities
    Cmds,             \* runs of dmtcp_command
    Requests,         \* Requests[c]: what run c may ask for
    DefaultInterval,  \* theDefaultCheckpointInterval > 0 (-i, or the
                      \* environment of the coordinator)
    ExitOnLast,       \* --exit-on-last, which startNewCoordinator passes
    LateLaunch,       \* whether dmtcp_launch may join between SUSPEND and the
                      \* leader election (the scripts give each launch its own
                      \* coordinator, so only forked processes join then)
    CrashStates,      \* the states in which a process may die abruptly
    MaxGeneration,    \* no interval checkpoint beyond this generation
    MaxRuns           \* number of computations, one after the other

ASSUME CoordinatorAssumption ==
    /\ IsFiniteSet(Workers)
    /\ Requests \in [Cmds -> SUBSET {"bc", "xc", "c", "k", "i", "q"}]
    /\ DefaultInterval \in BOOLEAN
    /\ ExitOnLast \in BOOLEAN /\ LateLaunch \in BOOLEAN
    /\ MaxGeneration \in Nat /\ MaxRuns \in Nat

(* WorkerState::eWorkerState, in the order of the enumeration.              *)
UNKNOWN == 0
RUNNING == 1
SUSPENDED == 2
FD_LEADER_ELECTION == 3
DRAINED == 4
RESTARTING == 5
CHECKPOINTED == 6
NAME_SERVICE_DATA_REGISTERED == 7
DONE_QUERYING == 8
REFILLED == 9
WorkerStates == UNKNOWN .. REFILLED

None == -1      \* no such client, no such command, no number of peers

Orders == {"SUSPEND", "FD_LEADER_ELECTION", "DRAIN", "CHECKPOINT",
           "REGISTER_NAME_SERVICE_DATA", "SEND_QUERIES", "REFILL", "RESUME",
           "KILL_PEER"}

(* dmtcp_command: idle, or its prefix is answered and its 'c' not yet sent  *)
(* (b, x), or it is the socket blockUntilDoneRemote (waiting: its           *)
(* checkpoint was started, refused: it was not, saved: a restart script has *)
(* been written since), or it has its answer: ok, error, unblocked (success *)
(* at once where it asked to block), hollow and early (success from the     *)
(* blocking reply although no checkpoint was completed, after a refusal or  *)
(* after a start), lost (the coordinator exited).                           *)
Pending == {"waiting", "refused", "saved"}
CmdStates == {"idle", "b", "x"} \cup Pending
             \cup {"ok", "error", "unblocked", "hollow", "early", "lost"}

VARIABLES
    \* dmtcp_coordinator
    up,                     \* the coordinator process exists
    recorded,               \* state of each client as last reported, or None
    suspendSent,            \* workersRunningAndSuspendMsgSent
    killInProgress,
    isRestarting,
    numPeers,               \* of the computation being restarted, or None
    compId, generation,     \* the computation, or NoComp, and its generation
    interval,               \* theCheckpointInterval > 0
    blockUntilDone,
    blockUntilDoneRemote,   \* a command, or None
    exitAfterCkpt,
    restartFilenames,       \* images reported in this checkpoint
    \* sockets
    toWorker, toCoord,      \* what is sent and not yet received
    \* processes
    proc,                   \* "absent", "alive" or "dead"
    state,                  \* WorkerState::currentState()
    info,                   \* ProcessInfo: compGroup's generation, numPeers
    \* disk
    image,                  \* each process's last image
    script,                 \* the last restart script
    \* users
    cmd,                    \* progress of each dmtcp_command
    toRestart,              \* images the restart script has still to start
    runs                    \* computations begun

compVars == <<suspendSent, isRestarting, numPeers, compId, generation>>
blockVars == <<blockUntilDone, blockUntilDoneRemote>>
procVars == <<proc, state, info>>
diskVars == <<image, script>>
userVars == <<toRestart, runs>>
vars == <<up, recorded, compVars, killInProgress, interval, blockVars,
          exitAfterCkpt, restartFilenames, toWorker, toCoord, procVars,
          diskVars, cmd, userVars>>

Clients == {w \in Workers : recorded[w] # None}
Alive == {w \in Workers : proc[w] = "alive"}

CompIds == (Workers \cup {None}) \X Nat
NoComp == <<None, 0>>
Infos == [compId : CompIds, generation : Nat, numPeers : Int]
NoInfo == [compId |-> NoComp, generation |-> 0, numPeers |-> None]
Messages == [type : Orders, info : Infos]
Reports == [type : {"OK", "CKPT_FILENAME"}, state : WorkerStates]

TypeOK ==
    /\ up \in BOOLEAN
    /\ recorded \in [Workers -> WorkerStates \cup {None}]
    /\ suspendSent \in BOOLEAN /\ killInProgress \in BOOLEAN
    /\ isRestarting \in BOOLEAN /\ interval \in BOOLEAN
    /\ numPeers \in Int /\ compId \in CompIds /\ generation \in Nat
    /\ blockUntilDone \in BOOLEAN /\ exitAfterCkpt \in BOOLEAN
    /\ blockUntilDoneRemote \in Cmds \cup {None}
    /\ restartFilenames \in SUBSET Workers
    /\ toWorker \in [Workers -> Seq(Messages)]
    /\ toCoord \in [Workers -> Seq(Reports)]
    /\ proc \in [Workers -> {"absent", "alive", "dead"}]
    /\ state \in [Workers -> WorkerStates]
    /\ info \in [Workers -> Infos]
    /\ image \in [Workers -> Infos]
    /\ script \in [compId : CompIds, generation : Nat, files : SUBSET Workers]
    /\ cmd \in [Cmds -> CmdStates]
    /\ toRestart \in SUBSET Workers
    /\ runs \in Nat

Init ==
    /\ up = TRUE
    /\ recorded = [w \in Workers |-> None]
    /\ suspendSent = FALSE /\ killInProgress = FALSE /\ isRestarting = FALSE
    /\ numPeers = None /\ compId = NoComp /\ generation = 0
    /\ interval = DefaultInterval
    /\ blockUntilDone = FALSE /\ blockUntilDoneRemote = None
    /\ exitAfterCkpt = FALSE /\ restartFilenames = {}
    /\ toWorker = [w \in Workers |-> <<>>] /\ toCoord = [w \in Workers |-> <<>>]
    /\ proc = [w \in Workers |-> "absent"]
    /\ state = [w \in Workers |-> UNKNOWN]
    /\ info = [w \in Workers |-> NoInfo]
    /\ image = [w \in Workers |-> NoInfo]
    /\ script = [compId |-> NoComp, generation |-> 0, files |-> {}]
    /\ cmd = [c \in Cmds |-> "idle"]
    /\ toRestart = {} /\ runs = 1

------------------------------------------------------------------------------
(* getStatus and minimumState, over what the clients r last reported.  While *)
(* restarting, processes that have not connected yet hold the barrier.      *)
States(r) == {r[w] : w \in {v \in Workers : r[v] # None}}
Count(r) == Cardinality({v \in Workers : r[v] # None})

(* Fault: one process short is counted as missing when all are there.       *)
MinimumStateOffByOne(r) ==
    IF Count(r) = 0 THEN UNKNOWN
    ELSE IF Min(States(r)) = CHECKPOINTED /\ isRestarting /\ Count(r) <= numPeers
         THEN RESTARTING
         ELSE Min(States(r))

MinimumState(r) ==
    IF Count(r) = 0 THEN UNKNOWN
    ELSE IF Min(States(r)) = CHECKPOINTED /\ isRestarting /\ Count(r) < numPeers
         THEN RESTARTING
         ELSE Min(States(r))

Order(t) == [type |-> t, info |-> NoInfo]

(* broadcastMessage, to the clients there are after this step.  What is sent *)
(* to a process that is gone is lost.                                       *)
Broadcast(m) ==
    toWorker' = [w \in Workers |->
                    IF recorded'[w] # None /\ proc[w] = "alive"
                    THEN Append(toWorker[w], m) ELSE toWorker[w]]

(* broadcastMessage(DMT_KILL_PEER).                                         *)
BroadcastKill ==
    /\ Broadcast(Order("KILL_PEER"))
    /\ killInProgress' = (killInProgress \/ \E w \in Workers : recorded'[w] # None)

(* The barriers whose only effect is the next order: old minimum, new       *)
(* minimum, order.  The name service is not modelled.                       *)
PlainBarriers ==
    {<<SUSPENDED, FD_LEADER_ELECTION, "DRAIN">>,
     <<FD_LEADER_ELECTION, DRAINED, "CHECKPOINT">>,
     <<RESTARTING, CHECKPOINTED, "REGISTER_NAME_SERVICE_DATA">>,
     <<CHECKPOINTED, NAME_SERVICE_DATA_REGISTERED, "SEND_QUERIES">>,
     <<NAME_SERVICE_DATA_REGISTERED, DONE_QUERYING, "REFILL">>}

(* What the blocking reply makes of the command that receives it.           *)
Replied(s) == CASE s = "saved" -> "ok" [] s = "waiting" -> "early"
                [] s = "refused" -> "hollow" [] OTHER -> s

(* Fault: the flag is not reset with the leader election.                   *)
AllSuspendedKeepsFlag(old, new) ==
    /\ old = RUNNING /\ new = SUSPENDED
    /\ Broadcast([type |-> "FD_LEADER_ELECTION",
                  info |-> [compId |-> compId, generation |-> generation,
                            numPeers |-> Count(recorded')]])
    /\ UNCHANGED <<compVars, killInProgress, blockVars, exitAfterCkpt, script,
                   restartFilenames, cmd>>

(* Fault: the number of peers of the last restart is sent, not today's.     *)
AllSuspendedStalePeers(old, new) ==
    /\ old = RUNNING /\ new = SUSPENDED
    /\ Broadcast([type |-> "FD_LEADER_ELECTION",
                  info |-> [compId |-> compId, generation |-> generation,
                            numPeers |-> numPeers]])
    /\ suspendSent' = FALSE
    /\ UNCHANGED <<isRestarting, numPeers, compId, generation, killInProgress,
                   blockVars, exitAfterCkpt, script, restartFilenames, cmd>>

(* Fault: -bc is answered as soon as all processes have stopped.            *)
AllSuspendedReplies(old, new) ==
    /\ old = RUNNING /\ new = SUSPENDED
    /\ Broadcast([type |-> "FD_LEADER_ELECTION",
                  info |-> [compId |-> compId, generation |-> generation,
                            numPeers |-> Count(recorded')]])
    /\ suspendSent' = FALSE
    /\ blockUntilDone' = FALSE /\ blockUntilDoneRemote' = None
    /\ cmd' = [c \in Cmds |-> IF blockUntilDone /\ c = blockUntilDoneRemote
                              THEN Replied(cmd[c]) ELSE cmd[c]]
    /\ UNCHANGED <<isRestarting, numPeers, compId, generation, killInProgress,
                   exitAfterCkpt, script, restartFilenames>>

(* "locking all nodes"                                                      *)
AllSuspended(old, new) ==
    /\ old = RUNNING /\ new = SUSPENDED
    /\ Broadcast([type |-> "FD_LEADER_ELECTION",
                  info |-> [compId |-> compId, generation |-> generation,
                            numPeers |-> Count(recorded')]])
    /\ suspendSent' = FALSE
    /\ UNCHANGED <<isRestarting, numPeers, compId, generation, killInProgress,
                   blockVars, exitAfterCkpt, script, restartFilenames, cmd>>

PlainBarrier(old, new) ==
    /\ \E b \in PlainBarriers :
         b[1] = old /\ b[2] = new /\ Broadcast(Order(b[3]))
    /\ UNCHANGED <<compVars, killInProgress, blockVars, exitAfterCkpt, script,
                   restartFilenames, cmd>>

(* writeRestartScript: the names go into the file and, when it is closed    *)
(* (dmtcp_coordinator.cpp:1548), out of the list.                           *)
RestartScript ==
    /\ script' = [compId |-> compId, generation |-> generation, files |-> restartFilenames]
    /\ restartFilenames' = {}

(* Every image of this checkpoint is on disk: writeRestartScript, then the  *)
(* name service phase, or the end of all processes after an 'x' command.    *)
AllCheckpointed(old, new) ==
    /\ old = DRAINED /\ new = CHECKPOINTED
    /\ RestartScript
    /\ IF exitAfterCkpt
       THEN BroadcastKill
       ELSE Broadcast(Order("REGISTER_NAME_SERVICE_DATA")) /\ UNCHANGED killInProgress
    /\ exitAfterCkpt' = FALSE
    /\ cmd' = [c \in Cmds |-> IF cmd[c] \in Pending THEN "saved" ELSE cmd[c]]
    /\ UNCHANGED <<compVars, blockVars>>

(* Fault: the waiting command is forgotten.                                 *)
AllRefilledNoReply(old, new) ==
    /\ old = DONE_QUERYING /\ new = REFILLED
    /\ Broadcast(Order("RESUME"))
    /\ isRestarting' = FALSE
    /\ blockUntilDone' = FALSE
    /\ UNCHANGED <<suspendSent, numPeers, compId, generation, killInProgress,
                   blockUntilDoneRemote, cmd, exitAfterCkpt, script, restartFilenames>>

(* "restarting all nodes", and the reply to dmtcp_command -bc.              *)
AllRefilled(old, new) ==
    /\ old = DONE_QUERYING /\ new = REFILLED
    /\ Broadcast(Order("RESUME"))
    /\ isRestarting' = FALSE
    /\ blockUntilDone' = FALSE
    /\ blockUntilDoneRemote' = IF blockUntilDone THEN None ELSE blockUntilDoneRemote
    /\ cmd' = [c \in Cmds |-> IF blockUntilDone /\ c = blockUntilDoneRemote
                              THEN Replied(cmd[c]) ELSE cmd[c]]
    /\ UNCHANGED <<suspendSent, numPeers, compId, generation, killInProgress,
                   exitAfterCkpt, script, restartFilenames>>

NoBarrier(old, new) ==
    /\ <<old, new>> \notin {<<b[1], b[2]>> : b \in PlainBarriers}
                           \cup {<<RUNNING, SUSPENDED>>, <<DRAINED, CHECKPOINTED>>,
                                 <<DONE_QUERYING, REFILLED>>}
    /\ UNCHANGED <<toWorker, compVars, killInProgress, blockVars, exitAfterCkpt,
                   script, restartFilenames, cmd>>

(* updateMinimumState(oldState), after recorded has changed.                *)
UpdateMinimumState(old) ==
    LET new == MinimumState(recorded') IN
    \/ AllSuspended(old, new)
    \/ PlainBarrier(old, new)
    \/ AllCheckpointed(old, new)
    \/ AllRefilled(old, new)
    \/ NoBarrier(old, new)

(* onData.  A message sent before the socket closed may still be read: its  *)
(* event can be in the batch that epoll_wait returned before.               *)
OnData(w) ==
    /\ up /\ recorded[w] # None /\ toCoord[w] # <<>>
    /\ toCoord' = [toCoord EXCEPT ![w] = Tail(@)]
    /\ LET m == Head(toCoord[w]) IN
         \/ /\ m.type = "OK"
            /\ recorded' = [recorded EXCEPT ![w] = m.state]
            /\ UpdateMinimumState(recorded[w])
         \/ /\ m.type = "CKPT_FILENAME"
            /\ restartFilenames' = restartFilenames \cup {w}
            /\ UNCHANGED <<recorded, toWorker, compVars, killInProgress,
                           blockVars, exitAfterCkpt, script, cmd>>
    /\ UNCHANGED <<up, interval, procVars, image, userVars>>

(* The coordinator exits: the commands that still wait see end of file.     *)
Lost == [c \in Cmds |-> IF cmd[c] \in Pending THEN "lost" ELSE cmd[c]]

(* Fault: the barrier is not looked at again when a client leaves.          *)
OnDisconnectNoUpdate(w) ==
    /\ up /\ recorded[w] # None /\ proc[w] = "dead"
    /\ toCoord' = [toCoord EXCEPT ![w] = <<>>]
    /\ recorded' = [recorded EXCEPT ![w] = None]
    /\ up' = ~(Clients = {w} /\ ExitOnLast)
    /\ cmd' = IF up' THEN cmd ELSE Lost
    /\ UNCHANGED <<killInProgress, interval, toWorker, compVars, blockVars,
                   exitAfterCkpt, script, restartFilenames, procVars, image, userVars>>

(* onDisconnect of a client, the last one or not.  What the client had sent *)
(* and nobody read is dropped with its socket.                              *)
OnDisconnect(w) ==
    /\ up /\ recorded[w] # None /\ proc[w] = "dead"
    /\ toCoord' = [toCoord EXCEPT ![w] = <<>>]
    /\ recorded' = [recorded EXCEPT ![w] = None]
    /\ \/ /\ Clients = {w}
          /\ IF ExitOnLast
             THEN up' = FALSE /\ cmd' = Lost /\ UNCHANGED <<killInProgress, interval>>
             ELSE /\ killInProgress' = FALSE /\ interval' = DefaultInterval
                  /\ UNCHANGED <<up, cmd>>
          /\ UNCHANGED <<toWorker, compVars, blockVars, exitAfterCkpt, script, restartFilenames>>
       \/ /\ Clients # {w}
          /\ UpdateMinimumState(recorded[w])
          /\ UNCHANGED <<up, interval>>
    /\ UNCHANGED <<procVars, image, userVars>>

------------------------------------------------------------------------------
(* startCheckpoint: it looks at the reported states and at its own flag,    *)
(* never at killInProgress.                                                 *)
(* Fault: a second request is accepted while the first SUSPEND is out.      *)
MayStartTwice ==
    MinimumState(recorded) = RUNNING /\ Cardinality(States(recorded)) = 1

MayStart ==
    /\ MinimumState(recorded) = RUNNING /\ Cardinality(States(recorded)) = 1
    /\ ~suspendSent

StartCheckpoint ==
    /\ UNCHANGED recorded
    /\ Broadcast(Order("SUSPEND"))
    /\ restartFilenames' = {}
    /\ generation' = generation + 1
    /\ suspendSent' = TRUE
    /\ UNCHANGED <<isRestarting, numPeers, compId>>

(* onTimeoutInterval.  A refused start leaves the timer expired, so the     *)
(* event loop tries again at once.                                          *)
OnTimeoutInterval ==
    /\ up /\ interval /\ generation < MaxGeneration
    /\ MayStart /\ StartCheckpoint
    /\ UNCHANGED <<up, killInProgress, interval, blockVars, exitAfterCkpt,
                   toCoord, procVars, diskVars, cmd, userVars>>

(* The part of onConnect that every accepted process passes: the first one  *)
(* of a computation initializes it, except for blockUntilDoneRemote,        *)
(* exitAfterCkpt and isRestarting, which keep what they hold.               *)
InitializeComputation(id, gen, peers) ==
    IF Clients = {}
    THEN /\ suspendSent' = FALSE /\ killInProgress' = FALSE
         /\ interval' = DefaultInterval /\ blockUntilDone' = FALSE
         /\ compId' = id /\ generation' = gen /\ numPeers' = peers
    ELSE UNCHANGED <<suspendSent, killInProgress, interval, blockUntilDone,
                     compId, generation, numPeers>>

(* Fault: a new process is accepted at any time.                            *)
RejectsNewNever == FALSE

RejectsNew == ~suspendSent /\ Clients # {}
              /\ MinimumState(recorded) \notin {RUNNING, UNKNOWN}

(* Fault: a process may join while a kill is in progress.                   *)
AcceptNewWorkerInKill(w, s) ==
    /\ up /\ proc[w] = "absent" /\ w \notin toRestart /\ ~RejectsNew
    /\ InitializeComputation(<<w, runs>>, 1, None)
    /\ recorded' = [recorded EXCEPT ![w] = s]
    /\ toWorker' = [toWorker EXCEPT ![w] =
                       IF suspendSent' THEN <<Order("SUSPEND")>> ELSE <<>>]
    /\ proc' = [proc EXCEPT ![w] = "alive"]
    /\ state' = [state EXCEPT ![w] = s]
    /\ UNCHANGED <<up, isRestarting, blockUntilDoneRemote, exitAfterCkpt, info,
                   restartFilenames, toCoord, diskVars, cmd, userVars>>

(* validateNewWorkerProcess accepts w, which says it is in state s.  When   *)
(* SUSPEND has been broadcast the newcomer gets its own copy.               *)
AcceptNewWorker(w, s) ==
    /\ up /\ proc[w] = "absent" /\ w \notin toRestart
    /\ ~killInProgress /\ ~RejectsNew
    /\ InitializeComputation(<<w, runs>>, 1, None)
    /\ recorded' = [recorded EXCEPT ![w] = s]
    /\ toWorker' = [toWorker EXCEPT ![w] =
                       IF suspendSent' THEN <<Order("SUSPEND")>> ELSE <<>>]
    /\ proc' = [proc EXCEPT ![w] = "alive"]
    /\ state' = [state EXCEPT ![w] = s]
    /\ UNCHANGED <<up, isRestarting, blockUntilDoneRemote, exitAfterCkpt, info,
                   restartFilenames, toCoord, diskVars, cmd, userVars>>

(* dmtcp_launch connects before it becomes the program.  A refused one      *)
(* leaves nothing behind.                                                   *)
Launch(w) ==
    /\ LateLaunch \/ ~suspendSent \/ Clients = {}
    /\ AcceptNewWorker(w, UNKNOWN)

(* The fork wrapper of p connects for the child w before it forks.          *)
Fork(p, w) ==
    /\ proc[p] = "alive" /\ state[p] = RUNNING
    /\ AcceptNewWorker(w, RUNNING)

(* A process that ends, by itself or by a signal.                           *)
Dies(w) ==
    /\ proc' = [proc EXCEPT ![w] = "dead"]
    /\ state' = [state EXCEPT ![w] = UNKNOWN]
    /\ info' = [info EXCEPT ![w] = NoInfo]
    /\ toWorker' = [toWorker EXCEPT ![w] = <<>>]

(* The child's connection is refused, or answered with KILL: the parent,    *)
(* which is in the handshake, aborts.                                       *)
ForkRefused(p) ==
    /\ up /\ proc[p] = "alive" /\ state[p] = RUNNING
    /\ \E w \in Workers : proc[w] = "absent" /\ w \notin toRestart
    /\ killInProgress \/ RejectsNew
    /\ Dies(p)
    /\ UNCHANGED <<up, recorded, compVars, killInProgress, interval, blockVars,
                   exitAfterCkpt, restartFilenames, toCoord, diskVars, cmd, userVars>>

(* validateRestartingWorkerProcess: the first one brings the computation's  *)
(* number of processes and its generation.                                  *)
RejectsRestart(w) ==
    /\ Clients # {}
    /\ \/ MinimumState(recorded) \notin {RESTARTING, CHECKPOINTED}
       \/ image[w].compId # compId

Restart(w) ==
    /\ up /\ w \in toRestart /\ ~killInProgress /\ ~RejectsRestart(w)
    /\ InitializeComputation(image[w].compId, image[w].generation, image[w].numPeers)
    /\ recorded' = [recorded EXCEPT ![w] = RESTARTING]
    /\ isRestarting' = TRUE
    /\ toRestart' = toRestart \ {w}
    /\ proc' = [proc EXCEPT ![w] = "alive"]
    /\ state' = [state EXCEPT ![w] = RESTARTING]
    /\ info' = [info EXCEPT ![w] = image[w]]
    /\ UNCHANGED <<up, blockUntilDoneRemote, exitAfterCkpt, restartFilenames,
                   toWorker, toCoord, diskVars, cmd, runs>>

RestartRefused(w) ==
    /\ up /\ w \in toRestart /\ (killInProgress \/ RejectsRestart(w))
    /\ toRestart' = toRestart \ {w}
    /\ proc' = [proc EXCEPT ![w] = "dead"]
    /\ UNCHANGED <<up, recorded, compVars, killInProgress, interval, blockVars,
                   exitAfterCkpt, restartFilenames, toWorker, toCoord, state, info,
                   diskVars, cmd, runs>>

------------------------------------------------------------------------------
(* dmtcp_command sends the prefix of bc or xc over a connection of its own. *)
SendPrefix(c) ==
    /\ up /\ cmd[c] = "idle"
    /\ \/ /\ "bc" \in Requests[c]
          /\ blockUntilDone' = TRUE /\ UNCHANGED exitAfterCkpt
          /\ cmd' = [cmd EXCEPT ![c] = "b"]
       \/ /\ "xc" \in Requests[c]
          /\ exitAfterCkpt' = TRUE /\ UNCHANGED blockUntilDone
          /\ cmd' = [cmd EXCEPT ![c] = "x"]
    /\ UNCHANGED <<up, recorded, compVars, killInProgress, interval,
                   blockUntilDoneRemote, restartFilenames, toWorker, toCoord,
                   procVars, diskVars, userVars>>

(* The command 'c', alone or after a prefix.  If some 'b' is in force and   *)
(* nobody waits yet, the sender waits, even when no checkpoint is started.  *)
SendCheckpoint(c) ==
    /\ up
    /\ cmd[c] \in {"b", "x"} \/ (cmd[c] = "idle" /\ "c" \in Requests[c])
    /\ IF MayStart THEN StartCheckpoint
       ELSE UNCHANGED <<recorded, toWorker, restartFilenames, compVars>>
    /\ \/ /\ blockUntilDone /\ blockUntilDoneRemote = None
          /\ blockUntilDoneRemote' = c
          /\ cmd' = [cmd EXCEPT ![c] = IF MayStart THEN "waiting" ELSE "refused"]
       \/ /\ ~(blockUntilDone /\ blockUntilDoneRemote = None)
          /\ cmd' = [cmd EXCEPT ![c] =
                        IF ~MayStart THEN "error"
                        ELSE IF cmd[c] = "b" THEN "unblocked" ELSE "ok"]
          /\ UNCHANGED blockUntilDoneRemote
    /\ UNCHANGED <<up, killInProgress, interval, blockUntilDone, exitAfterCkpt,
                   toCoord, procVars, diskVars, userVars>>

(* 'i' with an interval: it turns the timer on, or off.                     *)
SendInterval(c) ==
    /\ up /\ cmd[c] = "idle" /\ "i" \in Requests[c]
    /\ interval' = ~interval
    /\ cmd' = [cmd EXCEPT ![c] = "ok"]
    /\ UNCHANGED <<up, recorded, compVars, killInProgress, blockVars,
                   exitAfterCkpt, restartFilenames, toWorker, toCoord, procVars,
                   diskVars, userVars>>

SendKill(c) ==
    /\ up /\ cmd[c] = "idle" /\ "k" \in Requests[c]
    /\ UNCHANGED recorded
    /\ BroadcastKill
    /\ cmd' = [cmd EXCEPT ![c] = "ok"]
    /\ UNCHANGED <<up, compVars, interval, blockVars, exitAfterCkpt,
                   restartFilenames, toCoord, procVars, diskVars, userVars>>

(* 'q': KILL to all clients, then the coordinator exits.                    *)
SendQuit(c) ==
    /\ up /\ cmd[c] = "idle" /\ "q" \in Requests[c]
    /\ up' = FALSE
    /\ toWorker' = [w \in Workers |-> IF w \in Clients \cap Alive
                       THEN Append(toWorker[w], Order("KILL_PEER")) ELSE toWorker[w]]
    /\ recorded' = [w \in Workers |-> None]
    /\ cmd' = [Lost EXCEPT ![c] = "ok"]
    /\ UNCHANGED <<compVars, killInProgress, interval, blockVars, exitAfterCkpt,
                   restartFilenames, toCoord, procVars, diskVars, userVars>>

(* No coordinator to connect to.                                            *)
CommandFails(c) ==
    /\ ~up /\ cmd[c] \in {"b", "x"}
    /\ cmd' = [cmd EXCEPT ![c] = "error"]
    /\ UNCHANGED <<up, recorded, compVars, killInProgress, interval, blockVars,
                   exitAfterCkpt, restartFilenames, toWorker, toCoord, procVars,
                   diskVars, userVars>>

------------------------------------------------------------------------------
(* What the checkpoint thread of a process waits for, by its state, and the *)
(* state it has and reports when that order has been carried out.           *)
Expected(s) ==
    CASE s = RUNNING -> "SUSPEND"
      [] s = SUSPENDED -> "FD_LEADER_ELECTION"
      [] s = FD_LEADER_ELECTION -> "DRAIN"
      [] s = DRAINED -> "CHECKPOINT"
      [] s = CHECKPOINTED -> "REGISTER_NAME_SERVICE_DATA"
      [] s = NAME_SERVICE_DATA_REGISTERED -> "SEND_QUERIES"
      [] s = DONE_QUERYING -> "REFILL"
      [] s = REFILLED -> "RESUME"

NextState(s) == CASE s = DRAINED -> CHECKPOINTED
                  [] s = REFILLED -> RUNNING
                  [] OTHER -> s + 1

Listening == {w \in Alive : state[w] \notin {UNKNOWN, RESTARTING}}

Send(w, ms) == toCoord' = [toCoord EXCEPT ![w] = @ \o ms]
Report(s) == [type |-> "OK", state |-> s]

coordVars == <<up, recorded, compVars, killInProgress, interval, blockVars,
               exitAfterCkpt, restartFilenames, script, cmd, userVars>>

(* The program starts and its DmtcpWorker constructor reports RUNNING.      *)
WorkerStarts(w) ==
    /\ w \in Alive /\ state[w] = UNKNOWN
    /\ state' = [state EXCEPT ![w] = RUNNING]
    /\ Send(w, <<Report(RUNNING)>>)
    /\ UNCHANGED <<coordVars, proc, info, toWorker, image>>

(* The memory of a restarted process is back: callbackPostCheckpoint.       *)
Restored(w) ==
    /\ w \in Alive /\ state[w] = RESTARTING
    /\ state' = [state EXCEPT ![w] = CHECKPOINTED]
    /\ Send(w, <<Report(CHECKPOINTED)>>)
    /\ UNCHANGED <<coordVars, proc, info, toWorker, image>>

(* Fault: the report overtakes the name of the image.                       *)
ObeyReportsFirst(w) ==
    /\ w \in Listening /\ toWorker[w] # <<>>
    /\ LET m == Head(toWorker[w]) IN
         /\ m.type = Expected(state[w])
         /\ state' = [state EXCEPT ![w] = NextState(@)]
         /\ info' = IF m.type = "FD_LEADER_ELECTION"
                    THEN [info EXCEPT ![w] = m.info] ELSE info
         /\ image' = IF m.type = "CHECKPOINT"
                     THEN [image EXCEPT ![w] = info[w]] ELSE image
         /\ Send(w, <<Report(NextState(state[w]))>> \o
                    (IF m.type = "CHECKPOINT"
                     THEN <<[type |-> "CKPT_FILENAME", state |-> DRAINED]>> ELSE <<>>))
    /\ toWorker' = [toWorker EXCEPT ![w] = Tail(@)]
    /\ UNCHANGED <<coordVars, proc>>

(* waitForCoordinatorMsg returns: the process does what the order says and  *)
(* reports.  What it learns with the leader election goes into its image.   *)
Obey(w) ==
    /\ w \in Listening /\ toWorker[w] # <<>>
    /\ LET m == Head(toWorker[w]) IN
         /\ m.type = Expected(state[w])
         /\ state' = [state EXCEPT ![w] = NextState(@)]
         /\ info' = IF m.type = "FD_LEADER_ELECTION"
                    THEN [info EXCEPT ![w] = m.info] ELSE info
         /\ image' = IF m.type = "CHECKPOINT"
                     THEN [image EXCEPT ![w] = info[w]] ELSE image
         /\ Send(w, (IF m.type = "CHECKPOINT"
                     THEN <<[type |-> "CKPT_FILENAME", state |-> DRAINED]>> ELSE <<>>)
                    \o <<Report(NextState(state[w]))>>)
    /\ toWorker' = [toWorker EXCEPT ![w] = Tail(@)]
    /\ UNCHANGED <<coordVars, proc>>

(* It receives KILL and calls _exit(0).                                     *)
ObeyKill(w) ==
    /\ w \in Listening /\ toWorker[w] # <<>> /\ Head(toWorker[w]).type = "KILL_PEER"
    /\ Dies(w)
    /\ UNCHANGED <<coordVars, toCoord, image>>

(* The program returns from main; its threads run only in state RUNNING.    *)
Finish(w) ==
    /\ w \in Alive /\ state[w] = RUNNING
    /\ Dies(w)
    /\ UNCHANGED <<coordVars, toCoord, image>>

(* It dies of a signal, or its exec or its restart fails.                   *)
Crash(w) ==
    /\ w \in Alive /\ state[w] \in CrashStates
    /\ Dies(w)
    /\ UNCHANGED <<coordVars, toCoord, image>>

(* The images the restart script names are those of its checkpoint.  A      *)
(* checkpoint that was begun later and broke off replaces some of them, each *)
(* under its old name; the restart of such a mixture is left out.           *)
Intact ==
    \A w \in script.files : /\ image[w].compId = script.compId
                            /\ image[w].generation = script.generation

(* All processes are gone and the coordinator has noticed: another program  *)
(* is launched, or the restart script is run.  If the coordinator is gone   *)
(* too, startNewCoordinator starts one.                                     *)
NextRun ==
    /\ runs < MaxRuns /\ Alive = {} /\ Clients = {}
    /\ runs' = runs + 1
    /\ toRestart' \in {{}, IF Intact THEN script.files ELSE {}}
    /\ proc' = [w \in Workers |-> "absent"]
    /\ toCoord' = [w \in Workers |-> <<>>]
    /\ up' = TRUE
    /\ IF up
       THEN UNCHANGED <<compVars, killInProgress, interval, blockVars,
                        exitAfterCkpt, restartFilenames>>
       ELSE /\ suspendSent' = FALSE /\ killInProgress' = FALSE
            /\ isRestarting' = FALSE /\ numPeers' = None
            /\ compId' = NoComp /\ generation' = 0
            /\ interval' = DefaultInterval /\ blockUntilDone' = FALSE
            /\ blockUntilDoneRemote' = None /\ exitAfterCkpt' = FALSE
            /\ restartFilenames' = {}
    /\ UNCHANGED <<recorded, state, info, toWorker, diskVars, cmd>>

------------------------------------------------------------------------------
CoordinatorStep == \/ \E w \in Workers : OnData(w) \/ OnDisconnect(w)
                   \/ OnTimeoutInterval

CommandStep ==
    \E c \in Cmds : \/ SendPrefix(c) \/ SendCheckpoint(c) \/ SendInterval(c)
                    \/ SendKill(c) \/ SendQuit(c) \/ CommandFails(c)

WorkerStep ==
    \E w \in Workers :
        \/ Launch(w) \/ (\E p \in Workers : Fork(p, w)) \/ ForkRefused(w)
        \/ Restart(w) \/ RestartRefused(w) \/ WorkerStarts(w) \/ Restored(w)
        \/ Obey(w) \/ ObeyKill(w) \/ Finish(w) \/ Crash(w)

Next == CoordinatorStep \/ CommandStep \/ WorkerStep \/ NextRun

Spec == Init /\ [][Next]_vars

(* The event loop serves every ready socket; a checkpoint thread that has an *)
(* order carries it out; the restart script starts all its processes; a     *)
(* dmtcp_command that has sent its prefix sends the rest.  Nobody has to    *)
(* launch, fork, exit or ask for anything.                                  *)
Fairness ==
    /\ \A w \in Workers :
          /\ WF_vars(OnData(w)) /\ WF_vars(OnDisconnect(w))
          /\ WF_vars(WorkerStarts(w)) /\ WF_vars(Restored(w))
          /\ WF_vars(Obey(w)) /\ WF_vars(ObeyKill(w))
          /\ WF_vars(Restart(w) \/ RestartRefused(w))
    /\ \A c \in Cmds : WF_vars(cmd[c] \in {"b", "x"} /\ (SendCheckpoint(c) \/ CommandFails(c)))

FairSpec == Spec /\ Fairness

------------------------------------------------------------------------------
(* waitForCoordinatorMsg's assertion msg.type == type: the next order in a  *)
(* process's socket is the one its state waits for, or KILL, whatever other *)
(* requests, new processes and deaths the coordinator has seen meanwhile.   *)
OnlyExpectedOrders ==
    \A w \in Listening :
        toWorker[w] # <<>> =>
            Head(toWorker[w]).type \in {Expected(state[w]), "KILL_PEER"}

(* validateNewWorkerProcess's assertion: while the flag says that SUSPEND is *)
(* out and not answered by all, the barrier has not been reached.  If it is *)
(* false the next process that connects aborts the coordinator, and the     *)
(* checkpoint never ends.                                                   *)
SuspendFlagMeansPending ==
    /\ TypeOK
    /\ up /\ suspendSent /\ Clients # {} => MinimumState(recorded) # SUSPENDED

(* doc/fork-exec.txt's argument about kill: once a kill is in progress no   *)
(* process can stay connected without KILL in its socket, so a child that   *)
(* is being forked cannot survive the computation.                          *)
KillReachesAll ==
    up /\ killInProgress =>
        \A w \in Clients \cap Alive :
            \E i \in 1 .. Len(toWorker[w]) : toWorker[w][i].type = "KILL_PEER"

(* The barriers do their work: from the leader election until all buffers   *)
(* are refilled no process of the computation runs user code, so the images *)
(* of one checkpoint are a consistent cut.                                  *)
NobodyRunsDuringCheckpoint ==
    \A v, w \in Alive :
        state[v] \in (FD_LEADER_ELECTION .. DONE_QUERYING) =>
            state[w] \notin {UNKNOWN, RUNNING}

(* writeRestartScript: the script names, for every process connected, an    *)
(* image of this very checkpoint, names no older image, and is written      *)
(* before any process has been allowed to go on.                            *)
ScriptIsComplete ==
    [][script' # script =>
        /\ Clients \subseteq script'.files \cup {w \in Workers : proc[w] = "dead"}
        /\ \A w \in script'.files : image[w].generation = generation
        /\ \A w \in Clients \cap Alive : state[w] = CHECKPOINTED]_vars

(* A restart waits for as many processes as the images say there were.  If  *)
(* nobody crashes, that is the number of images the script names.           *)
ScriptIsRestartable ==
    [][script' # script =>
        \A w \in script'.files :
            image[w].numPeers = Cardinality(script'.files)]_vars

(* A dmtcp_command -bc whose checkpoint was started is not told that it is  *)
(* done before the restart script has been written.  It takes a coordinator *)
(* that exits with its last client, as the scripts' does, or that restarts  *)
(* nothing: initializeComputation does not reset blockUntilDoneRemote, so   *)
(* the end of a restart may answer a command of an earlier computation.     *)
NoEarlyAnswer == \A c \in Cmds : cmd[c] # "early"

(* A process that stopped for a checkpoint runs again, or is dead: no death *)
(* of another process, no newcomer and no command leaves it waiting.        *)
CheckpointEnds ==
    \A w \in Workers :
        (proc[w] = "alive" /\ state[w] = SUSPENDED)
            ~> (proc[w] = "dead" \/ state[w] = RUNNING)

(* A dmtcp_command -bc whose checkpoint was started gets its answer, or sees *)
(* the coordinator exit.                                                    *)
AcceptedIsAnswered ==
    \A c \in Cmds : cmd[c] = "waiting" ~> cmd[c] \notin Pending

(* -k ends the computation: every process disconnects.                      *)
KillCompletes == killInProgress ~> ~killInProgress \/ ~up

(* Every process the restart script starts ends up running, or dead.        *)
RestartCompletes ==
    \A w \in Workers :
        (proc[w] = "alive" /\ state[w] = RESTARTING)
            ~> (proc[w] = "dead" \/ state[w] = RUNNING)

(* "blocking until done": dmtcp_command -bc, once blocked, reports success   *)
(* only when a checkpoint has been completed since it asked for one.        *)
BlockingIsDone == \A c \in Cmds : cmd[c] # "hollow"

==============================================================================
