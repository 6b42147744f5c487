------------------------------- MODULE Sockets -------------------------------
(***************************************************************************)
(* How DMTCP takes stream sockets through a checkpoint and a restart       *)
(* (plugin/ipc): the sharers of a socket elect a leader, the leaders drain *)
(* what is in the kernel, exchange handshakes, and put it back at the end  *)
(* by having the peer send it again; after a restart they first connect    *)
(* to each other anew and hand the descriptors to the other sharers.       *)
(*                                                                         *)
(* Processes share an end after a fork; they start with socketpair and     *)
(* fork behind them, and close what they do not need.  The coordinator is  *)
(* seen as the barriers it keeps between the stages.                       *)
(***************************************************************************)
EXTENDS Connections, FiniteSets, SequencesExt

CONSTANTS
    Procs,      \* processes
    Accepting,  \* the ends whose connection has type TCP_ACCEPT
    Layouts,    \* which processes may hold which end after fork and close
    Signalled,  \* <<p, e>>: p asks for signals about e
    Parent,     \* the parent of each process, or None
    Fd,         \* the descriptor of each end in each process
    None,       \* no process, no end
    SndBuf,     \* SO_SNDBUF of each end, in items
    RcvBuf,     \* SO_RCVBUF
    DeadBuf,    \* what a new AF_UNIX socketpair takes before a write blocks
    MaxCkpts,   \* bound: checkpoints begun
    MaxRestarts \* bound: restarts

ASSUME SocketsAssumption ==
    /\ None \notin Procs \cup Ends
    /\ Accepting \subseteq Ends
    /\ Layouts \subseteq [Ends -> (SUBSET Procs) \ {{}}]
    /\ Signalled \subseteq Procs \X Ends
    /\ \A e \in Ends : e \in Accepting <=> Peer[e] \notin Accepting
    /\ Parent \in [Procs -> Procs \cup {None}] /\ Fd \in [Procs -> [Ends -> Nat]]
    /\ \A p \in Procs, e, f \in Ends : Fd[p][e] = Fd[p][f] => e = f
    /\ SndBuf \in [Ends -> Nat \ {0}] /\ RcvBuf \in [Ends -> Nat] /\ DeadBuf \in Nat
    /\ MaxCkpts \in Nat /\ MaxRestarts \in Nat

VARIABLES
    \* the application
    holders,      \* the processes that have a descriptor of each end
    sent, rcvd,   \* items written and read at each end
    \* the kernel
    kernel,       \* what can be read at each end, in both kernel buffers
    owner,        \* F_SETOWN of each end, one for all sharers
    doubled,      \* ends whose SO_SNDBUF is doubled
    wired,        \* <<p, e>>: p's descriptor of e is the socket of that end
    \* the connection lists
    type,         \* Connection::_type of each end
    locked,       \* <<p, e>>: _hasLock of e in p
    savedOwner,   \* _fcntlOwner of each end in each process
    remotePeerId, \* _remotePeerId, by process and end
    \* KernelBufferDrainer, at the leader of each end
    drained,      \* _drainedData
    disconnected, \* _disconnectedSockets
    cookieDue,    \* ends whose cookie is not written yet
    \* the checkpoint thread of each process
    pc,
    todo,         \* the ends its loop has still to do
    cur,          \* the end it is writing to or echoing
    left, tmp,    \* bytes still to be read of a REFILL, and those read
    \* restart
    image,        \* the images of the last complete checkpoint
    isRestart,
    nameService,  \* the coordinator's lookup service: ids of waiting ends
    incoming,     \* connections that wait for accept, by id
    missing,      \* SharedData's missingConMap
    fdMsgs,       \* descriptors sent and not yet received
    \* bounds, and a record for the property about owners
    ckpts, restarts,
    wanted        \* owners the application has set since the sharers stopped

appVars == <<holders, sent, rcvd, wanted>>
kernelVars == <<kernel, owner, doubled, wired>>
conVars == <<type, locked, savedOwner, remotePeerId>>
drainVars == <<drained, disconnected, cookieDue>>
loopVars == <<todo, cur, left, tmp>>
restartVars == <<nameService, incoming, missing, fdMsgs>>
runVars == <<image, isRestart, ckpts, restarts>>
vars == <<appVars, kernelVars, conVars, drainVars, pc, loopVars, restartVars, runVars>>

Data(e, n) == [kind |-> "data", to |-> e, n |-> n]
Cookie == [kind |-> "cookie"]
Handshake(e) == [kind |-> "HANDSHAKE", from |-> e]
Refill(n) == [kind |-> "REFILL", extraBytes |-> n]

Open == {e \in Ends : holders[e] # {}}
Held(p) == {e \in Ends : p \in holders[e]}
Led(p) == {e \in Held(p) : <<p, e>> \in locked}

(* The holders whose descriptor is the socket of the end.                   *)
Attached(e) == {p \in holders[e] : <<p, e>> \in wired}

(* A write at end e finds room in the send buffer there or in the receive   *)
(* buffer of the peer; the ends in wide have twice the send buffer.         *)
RoomIf(e, wide) ==
    Len(kernel[Peer[e]]) < RcvBuf[Peer[e]] + SndBuf[e] * (IF e \in wide THEN 2 ELSE 1)

Room(e) == RoomIf(e, doubled)

Write(e, item) == kernel' = [kernel EXCEPT ![Peer[e]] = Append(@, item)]

(* p has done its part of the stage it is in: its loop is over and every    *)
(* cookie it owes is written.                                               *)
Finished(p) == todo[p] = {} /\ Led(p) \cap cookieDue = {}

(* A barrier of the coordinator: everyone has done stage s or has left it.  *)
Barrier(s, next) == \A q \in Procs : (pc[q] = s /\ Finished(q)) \/ pc[q] \in next

Goto(p, s) == pc' = [pc EXCEPT ![p] = s]

(* p begins stage s, a loop over the ends in S.                             *)
Loop(p, s, S) == Goto(p, s) /\ todo' = [todo EXCEPT ![p] = S]

Done(p, e) == todo' = [todo EXCEPT ![p] = @ \ {e}]

(* After the last end p begins another loop over S in stage s.              *)
DoneThen(p, e, s, S) ==
    IF todo[p] = {e} THEN Loop(p, s, S) ELSE Done(p, e) /\ UNCHANGED pc

Init ==
    /\ holders \in Layouts
    /\ sent = [e \in Ends |-> 0] /\ rcvd = [e \in Ends |-> <<>>]
    /\ kernel = [e \in Ends |-> <<>>]
    /\ owner = [e \in Ends |-> None] /\ wanted = [e \in Ends |-> {None}]
    /\ doubled = {} /\ wired = {pe \in Procs \X Ends : pe[1] \in holders[pe[2]]}
    /\ type = [e \in Ends |-> IF e \in Accepting THEN "ACCEPT" ELSE "CONNECT"]
    /\ locked = {}
    /\ savedOwner = [p \in Procs |-> [e \in Ends |-> None]]
    /\ remotePeerId = [p \in Procs |-> [e \in Ends |-> IF e \in Accepting /\ p \in holders[e]
                                                     THEN Peer[e] ELSE None]]
    /\ drained = [e \in Ends |-> <<>>] /\ disconnected = [e \in Ends |-> <<>>]
    /\ cookieDue = {}
    /\ pc = [p \in Procs |-> "run"] /\ todo = [p \in Procs |-> {}]
    /\ cur = [p \in Procs |-> None] /\ left = [p \in Procs |-> 0]
    /\ tmp = [p \in Procs |-> <<>>]
    /\ image = NoImage /\ isRestart = FALSE
    /\ nameService = {} /\ incoming = {} /\ missing = {} /\ fdMsgs = {}
    /\ ckpts = 0 /\ restarts = 0

------------------------------------------------------------------------------
(* The application: user threads run until their process has stopped them.  *)
Running(p) == pc[p] \in {"run", "told"}

Send(p, e) ==
    /\ Running(p) /\ p \in Attached(e) /\ Peer[e] \in Open
    /\ sent[e] < MaxSent /\ Room(e)
    /\ sent' = [sent EXCEPT ![e] = @ + 1]
    /\ Write(e, Data(Peer[e], sent[e] + 1))
    /\ UNCHANGED <<holders, rcvd, wanted, owner, doubled, wired, conVars, drainVars,
                   pc, loopVars, restartVars, runVars>>

Recv(p, e) ==
    /\ Running(p) /\ p \in Attached(e) /\ kernel[e] # <<>>
    /\ rcvd' = [rcvd EXCEPT ![e] = Append(@, Head(kernel[e]))]
    /\ kernel' = [kernel EXCEPT ![e] = Tail(@)]
    /\ UNCHANGED <<holders, sent, wanted, owner, doubled, wired, conVars, drainVars,
                   pc, loopVars, restartVars, runVars>>

(* fcntl(fd, F_SETOWN, getpid()).                                           *)
SetOwn(p, e) ==
    /\ Running(p) /\ p \in Attached(e) /\ owner[e] # p /\ <<p, e>> \in Signalled
    /\ owner' = [owner EXCEPT ![e] = p]
    /\ wanted' = [wanted EXCEPT ![e] = IF \A q \in holders[e] : Running(q)
                                       THEN {p} ELSE @ \cup {p}]
    /\ UNCHANGED <<holders, sent, rcvd, kernel, doubled, wired, conVars, drainVars,
                   pc, loopVars, restartVars, runVars>>

(* close and processClose, also by exit.  What waits at an end is gone with *)
(* the last descriptor of its socket.                                       *)
Close(p, e) ==
    /\ Running(p) /\ p \in holders[e]
    /\ holders' = [holders EXCEPT ![e] = @ \ {p}]
    /\ wired' = wired \ {<<p, e>>}
    /\ locked' = locked \ {<<p, e>>}
    /\ savedOwner' = [savedOwner EXCEPT ![p][e] = None]
    /\ remotePeerId' = [remotePeerId EXCEPT ![p][e] = None]
    /\ kernel' = [kernel EXCEPT ![e] = IF Attached(e) \subseteq {p} THEN <<>> ELSE @]
    /\ UNCHANGED <<sent, rcvd, wanted, owner, doubled, type, drainVars,
                   pc, loopVars, restartVars, runVars>>

------------------------------------------------------------------------------
(* The coordinator sends SUSPEND when every process runs.                   *)
Request ==
    /\ ckpts < MaxCkpts /\ \A p \in Procs : pc[p] = "run"
    /\ ckpts' = ckpts + 1
    /\ pc' = [p \in Procs |-> "told"]
    /\ wanted' = [e \in Ends |-> {owner[e]}]
    /\ isRestart' = FALSE
    /\ UNCHANGED <<holders, sent, rcvd, kernelVars, conVars, drainVars, loopVars,
                   restartVars, image, restarts>>

(* preLockSaveOptions, before the process reports SUSPENDED.  A descriptor   *)
(* that OnDisconnect has left on the old socket is dealt with on its own     *)
(* from here on: nothing and nobody is at the other end of that socket, and  *)
(* p no longer counts as a holder of this end.                               *)
ThreadsSuspend(p) ==
    /\ pc[p] = "told"
    /\ Goto(p, "suspended")
    /\ holders' = [e \in Ends |-> IF <<p, e>> \in wired THEN holders[e] ELSE holders[e] \ {p}]
    /\ locked' = locked \ ({p} \X {e \in Ends : <<p, e>> \notin wired})
    /\ savedOwner' = [savedOwner EXCEPT ![p] =
                         [e \in Ends |-> IF <<p, e>> \in wired THEN owner[e] ELSE None]]
    /\ remotePeerId' = [remotePeerId EXCEPT ![p] =
                           [e \in Ends |-> IF <<p, e>> \in wired THEN @[e] ELSE None]]
    /\ UNCHANGED <<sent, rcvd, wanted, kernelVars, type, drainVars,
                   loopVars, restartVars, runVars>>

LeaderElection(p) ==
    /\ pc[p] = "suspended" /\ Barrier("suspended", {"electing"})
    /\ Loop(p, "electing", Held(p))
    /\ UNCHANGED <<appVars, kernelVars, conVars, drainVars, cur, left, tmp,
                   restartVars, runVars>>

(* Fault: the options are saved in the election.                            *)
DoLockingSaves(p, e) ==
    /\ pc[p] = "electing" /\ e \in todo[p]
    /\ locked' = locked \ {<<p, e>>}
    /\ savedOwner' = [savedOwner EXCEPT ![p][e] = owner[e]]
    /\ owner' = [owner EXCEPT ![e] = p]
    /\ Done(p, e)
    /\ UNCHANGED <<appVars, kernel, doubled, wired, type, remotePeerId,
                   drainVars, pc, cur, left, tmp, restartVars, runVars>>

DoLocking(p, e) ==
    /\ pc[p] = "electing" /\ e \in todo[p]
    /\ locked' = locked \ {<<p, e>>}
    /\ owner' = [owner EXCEPT ![e] = p]
    /\ Done(p, e)
    /\ UNCHANGED <<appVars, kernel, doubled, wired, type, savedOwner, remotePeerId,
                   drainVars, pc, cur, left, tmp, restartVars, runVars>>

(* Fault: checkLock follows doLocking without a barrier.                    *)
BeginDrainAtOnce(p) ==
    /\ pc[p] = "electing" /\ todo[p] = {}
    /\ LET lead == {e \in Held(p) : owner[e] = p}
       IN  /\ locked' = (locked \ ({p} \X Held(p))) \cup ({p} \X lead)
           /\ Loop(p, "draining", lead)
           /\ cookieDue' = cookieDue \cup lead
    /\ UNCHANGED <<appVars, kernelVars, type, savedOwner, remotePeerId, drained,
                   disconnected, cur, left, tmp, restartVars, runVars>>

(* The drain stage begins: checkLock finds out who was the last to set the  *)
(* owner, and beginDrainOf queues a cookie for every end that p leads.      *)
BeginDrain(p) ==
    /\ pc[p] = "electing" /\ Barrier("electing", {"draining"})
    /\ LET lead == {e \in Held(p) : owner[e] = p}
       IN  /\ locked' = (locked \ ({p} \X Held(p))) \cup ({p} \X lead)
           /\ Loop(p, "draining", lead)
           /\ cookieDue' = cookieDue \cup lead
    /\ UNCHANGED <<appVars, kernelVars, type, savedOwner, remotePeerId, drained,
                   disconnected, cur, left, tmp, restartVars, runVars>>

(* The cookie is written when select finds room for it; the write fails, and *)
(* is dropped, if the peer is gone.                                         *)
DrainWrite(p, e) ==
    /\ pc[p] = "draining" /\ e \in Led(p) \cap cookieDue
    /\ \/ Peer[e] \in Open /\ Room(e) /\ Write(e, Cookie)
       \/ Peer[e] \notin Open /\ UNCHANGED kernel
    /\ cookieDue' = cookieDue \ {e}
    /\ UNCHANGED <<appVars, owner, doubled, wired, conVars, drained, disconnected,
                   pc, loopVars, restartVars, runVars>>

(* Fault: "the simple way", the cookie is written before anything is read.  *)
DrainReadAfterCookie(p, e) ==
    /\ pc[p] = "draining" /\ e \in todo[p] \ cookieDue /\ kernel[e] # <<>>
    /\ drained' = [drained EXCEPT ![e] = Append(@, Head(kernel[e]))]
    /\ kernel' = [kernel EXCEPT ![e] = Tail(@)]
    /\ UNCHANGED <<appVars, owner, doubled, wired, conVars, disconnected, cookieDue,
                   pc, loopVars, restartVars, runVars>>

(* onData.                                                                  *)
DrainRead(p, e) ==
    /\ pc[p] = "draining" /\ e \in todo[p] /\ kernel[e] # <<>>
    /\ drained' = [drained EXCEPT ![e] = Append(@, Head(kernel[e]))]
    /\ kernel' = [kernel EXCEPT ![e] = Tail(@)]
    /\ UNCHANGED <<appVars, owner, doubled, wired, conVars, disconnected, cookieDue,
                   pc, loopVars, restartVars, runVars>>

(* Fault: a socket on which nothing has arrived for an interval is done.    *)
DrainCompleteIdle(p, e) ==
    /\ pc[p] = "draining" /\ e \in todo[p] /\ kernel[e] = <<>>
    /\ drained' = [drained EXCEPT ![e] = SelectSeq(@, LAMBDA x : x # Cookie)]
    /\ Done(p, e)
    /\ UNCHANGED <<appVars, kernelVars, conVars, disconnected, cookieDue,
                   pc, cur, left, tmp, restartVars, runVars>>

(* onTimeoutInterval: the buffer ends with the cookie.                      *)
DrainComplete(p, e) ==
    /\ pc[p] = "draining" /\ e \in todo[p]
    /\ drained[e] # <<>> /\ Last(drained[e]) = Cookie
    /\ drained' = [drained EXCEPT ![e] = Front(@)]
    /\ Done(p, e)
    /\ UNCHANGED <<appVars, kernelVars, conVars, disconnected, cookieDue,
                   pc, cur, left, tmp, restartVars, runVars>>

(* Fault: the drained data are erased before they are kept.                 *)
OnDisconnectErasesFirst(p, e) ==
    /\ pc[p] = "draining" /\ e \in todo[p]
    /\ kernel[e] = <<>> /\ Peer[e] \notin Open
    /\ Len(drained[e]) <= DeadBuf
    /\ drained' = [drained EXCEPT ![e] = <<>>]
    /\ owner' = [owner EXCEPT ![e] = None]
    /\ type' = [type EXCEPT ![e] = "ERROR"]
    /\ cookieDue' = cookieDue \ {e}
    /\ wired' = wired \ ((holders[e] \ {p}) \X {e})
    /\ Done(p, e)
    /\ UNCHANGED <<appVars, kernel, doubled, locked, savedOwner, remotePeerId,
                   disconnected, pc, cur, left, tmp, restartVars, runVars>>

(* readOnce finds the end of the stream: onDisconnect keeps what was read,  *)
(* and onError puts a dead socket, filled with it by a blocking write, in    *)
(* the place of the old one, in p alone: the other sharers stay on the old  *)
(* socket, which is empty now.                                              *)
OnDisconnect(p, e) ==
    /\ pc[p] = "draining" /\ e \in todo[p]
    /\ kernel[e] = <<>> /\ Peer[e] \notin Open
    /\ Len(drained[e]) <= DeadBuf
    /\ disconnected' = [disconnected EXCEPT ![e] = drained[e]]
    /\ drained' = [drained EXCEPT ![e] = <<>>]
    /\ kernel' = [kernel EXCEPT ![e] = drained[e]]
    /\ owner' = [owner EXCEPT ![e] = None]
    /\ type' = [type EXCEPT ![e] = "ERROR"]
    /\ cookieDue' = cookieDue \ {e}
    /\ wired' = wired \ ((holders[e] \ {p}) \X {e})
    /\ Done(p, e)
    /\ UNCHANGED <<appVars, doubled, locked, savedOwner, remotePeerId,
                   pc, cur, left, tmp, restartVars, runVars>>

------------------------------------------------------------------------------
(* preCkpt: handshakes are sent on all sockets that p leads, then received. *)
Live(p) == {e \in Led(p) : type[e] # "ERROR"}

PreCkpt(p) ==
    /\ pc[p] = "draining" /\ Barrier("draining", {"greeting", "greeted", "checkpointed"})
    /\ Loop(p, IF Live(p) = {} THEN "greeted" ELSE "greeting", Live(p))
    /\ UNCHANGED <<appVars, kernelVars, conVars, drainVars, cur, left, tmp,
                   restartVars, runVars>>

SendHandshake(p, e) ==
    /\ pc[p] = "greeting" /\ e \in todo[p] /\ Room(e)
    /\ Write(e, Handshake(e))
    /\ DoneThen(p, e, "greeted", Live(p))
    /\ UNCHANGED <<appVars, owner, doubled, wired, conVars, drainVars, cur, left, tmp, restartVars, runVars>>

(* recvHandshake; what it asserts about the message is Expected below.      *)
RecvHandshake(p, e) ==
    /\ pc[p] = "greeted" /\ e \in todo[p]
    /\ kernel[e] # <<>> /\ Head(kernel[e]).kind = "HANDSHAKE"
    /\ remotePeerId[p][e] \in {None, Head(kernel[e]).from}
    /\ remotePeerId' = [remotePeerId EXCEPT ![p][e] = Head(kernel[e]).from]
    /\ kernel' = [kernel EXCEPT ![e] = Tail(@)]
    /\ Done(p, e)
    /\ UNCHANGED <<appVars, owner, doubled, wired, type, locked, savedOwner, drainVars,
                   pc, cur, left, tmp, restartVars, runVars>>

(* The memory of all processes, which the images hold.                      *)
Memory ==
    [holders |-> holders, sent |-> sent, rcvd |-> rcvd, wanted |-> wanted,
     type |-> type, locked |-> locked, savedOwner |-> savedOwner,
     remotePeerId |-> remotePeerId, drained |-> drained, disconnected |-> disconnected]

(* p writes its image.  Nothing of its memory changes before the last one   *)
(* is written, and the coordinator writes the restart script.               *)
WriteImage(p) ==
    /\ pc[p] = "greeted" /\ todo[p] = {}
    /\ Goto(p, "checkpointed")
    /\ image' = IF \A q \in Procs \ {p} : pc[q] = "checkpointed" THEN Memory ELSE image
    /\ UNCHANGED <<appVars, kernelVars, conVars, drainVars, loopVars, restartVars,
                   isRestart, ckpts, restarts>>

------------------------------------------------------------------------------
(* All processes are killed, at any time, and the restart script is run:    *)
(* memory is that of the images, the kernel's buffers are empty.            *)
Restart ==
    /\ image # NoImage /\ restarts < MaxRestarts
    /\ restarts' = restarts + 1 /\ isRestart' = TRUE
    /\ holders' = image.holders /\ sent' = image.sent /\ rcvd' = image.rcvd
    /\ wanted' = image.wanted
    /\ type' = image.type /\ locked' = image.locked
    /\ savedOwner' = image.savedOwner /\ remotePeerId' = image.remotePeerId
    /\ drained' = image.drained /\ disconnected' = image.disconnected
    /\ cookieDue' = {}
    /\ kernel' = [e \in Ends |-> <<>>] /\ owner' = [e \in Ends |-> None]
    /\ doubled' = {} /\ wired' = {}
    /\ pc' = [p \in Procs |-> "restarting"] /\ todo' = [p \in Procs |-> {}]
    /\ cur' = [p \in Procs |-> None] /\ left' = [p \in Procs |-> 0]
    /\ tmp' = [p \in Procs |-> <<>>]
    /\ nameService' = {} /\ incoming' = {} /\ missing' = {} /\ fdMsgs' = {}
    /\ UNCHANGED <<image, ckpts>>

(* postRestart: a dead socket is made again, the accepting end will wait in *)
(* the rewirer, the connecting end gets a new socket; registerMissingCons   *)
(* enters the ends that another sharer leads.                               *)
PostRestart(p) ==
    /\ pc[p] = "restarting"
    /\ LET dead == {e \in Led(p) : type[e] = "ERROR"}
       IN  /\ \A e \in dead : Len(disconnected[e]) <= DeadBuf
           /\ kernel' = [e \in Ends |-> IF e \in dead THEN disconnected[e] ELSE kernel[e]]
           /\ wired' = wired \cup ({p} \X dead)
    /\ missing' = missing \cup ({p} \X (Held(p) \ Led(p)))
    /\ Goto(p, "restored")
    /\ UNCHANGED <<appVars, owner, doubled, conVars, drainVars, loopVars,
                   nameService, incoming, fdMsgs, runVars>>

RegisterNSData(p) ==
    /\ pc[p] = "restored" /\ Barrier("restored", {"registered"})
    /\ nameService' = nameService \cup {e \in Led(p) : type[e] = "ACCEPT"}
    /\ Goto(p, "registered")
    /\ UNCHANGED <<appVars, kernelVars, conVars, drainVars, loopVars,
                   incoming, missing, fdMsgs, runVars>>

(* sendQueries and doReconnect.                                             *)
SendQueries(p) ==
    /\ pc[p] = "registered" /\ Barrier("registered", {"connecting"})
    /\ Loop(p, "connecting", Live(p))
    /\ UNCHANGED <<appVars, kernelVars, conVars, drainVars, cur, left, tmp,
                   restartVars, runVars>>

(* The peer's address is the one registered for _remotePeerId; the listener *)
(* takes the connection, and the id that is written to it, at once.         *)
Connect(p, e) ==
    /\ pc[p] = "connecting" /\ e \in todo[p] /\ type[e] = "CONNECT"
    /\ remotePeerId[p][e] \in nameService
    /\ incoming' = incoming \cup {remotePeerId[p][e]}
    /\ wired' = wired \cup {<<p, e>>}
    /\ Done(p, e)
    /\ UNCHANGED <<appVars, kernel, owner, doubled, conVars, drainVars, pc, cur, left, tmp,
                   nameService, missing, fdMsgs, runVars>>

(* checkForPendingIncoming.                                                 *)
Accept(p, e) ==
    /\ pc[p] = "connecting" /\ e \in todo[p] /\ type[e] = "ACCEPT"
    /\ e \in incoming
    /\ incoming' = incoming \ {e}
    /\ wired' = wired \cup {<<p, e>>}
    /\ Done(p, e)
    /\ UNCHANGED <<appVars, kernel, owner, doubled, conVars, drainVars, pc, cur, left, tmp,
                   nameService, missing, fdMsgs, runVars>>

------------------------------------------------------------------------------
Refilling == {"writing", "echoing", "sharing", "refilled"}

(* refillAllSockets, for every end in _drainedData.  After a checkpoint the *)
(* name service stages do nothing for sockets.                              *)
BeginRefill(p) ==
    /\ \/ ~isRestart /\ pc[p] = "checkpointed" /\ Barrier("checkpointed", Refilling)
       \/ isRestart /\ pc[p] = "connecting" /\ Barrier("connecting", Refilling)
    /\ Loop(p, IF Live(p) = {} THEN "echoing" ELSE "writing", Live(p))
    /\ UNCHANGED <<appVars, kernelVars, conVars, drainVars, cur, left, tmp,
                   restartVars, runVars>>

(* p is through with the end e of its first loop, and the second begins     *)
(* after the last.                                                          *)
Written(p, e, rest) ==
    IF rest = <<>>
    THEN cur' = [cur EXCEPT ![p] = None] /\ DoneThen(p, e, "echoing", Live(p))
    ELSE cur' = [cur EXCEPT ![p] = e] /\ UNCHANGED <<pc, todo>>

(* _drainedData is a map: both loops go by descriptors.                     *)
IsNext(p, e) == e \in todo[p] /\ \A f \in todo[p] : Fd[p][e] <= Fd[p][f]

(* Fault: the send buffer is not doubled.                                   *)
RefillHeaderUndoubled(p, e) ==
    /\ pc[p] = "writing" /\ cur[p] = None /\ IsNext(p, e)
    /\ Room(e)
    /\ Write(e, Refill(Len(drained[e])))
    /\ Written(p, e, drained[e])
    /\ UNCHANGED <<appVars, owner, doubled, wired, conVars, drainVars, left, tmp,
                   restartVars, runVars>>

(* The send buffer is doubled and the header written.                       *)
RefillHeader(p, e) ==
    /\ pc[p] = "writing" /\ cur[p] = None /\ IsNext(p, e)
    /\ doubled' = doubled \cup {e}
    /\ RoomIf(e, doubled')
    /\ Write(e, Refill(Len(drained[e])))
    /\ Written(p, e, drained[e])
    /\ UNCHANGED <<appVars, owner, wired, conVars, drainVars, left, tmp,
                   restartVars, runVars>>

(* writeAll of the drained data, which blocks while there is no room.       *)
RefillData(p) ==
    /\ pc[p] = "writing" /\ cur[p] # None /\ Room(cur[p])
    /\ Write(cur[p], Head(drained[cur[p]]))
    /\ drained' = [drained EXCEPT ![cur[p]] = Tail(@)]
    /\ Written(p, cur[p], Tail(drained[cur[p]]))
    /\ UNCHANGED <<appVars, owner, doubled, wired, conVars, disconnected, cookieDue,
                   left, tmp, restartVars, runVars>>

(* p is through with the end e of its second loop when nothing is left to   *)
(* read or to echo; the send buffer is reset.                               *)
Echoed(p, e, n, rest) ==
    IF n = 0 /\ rest = <<>>
    THEN /\ cur' = [cur EXCEPT ![p] = None] /\ Done(p, e)
         /\ doubled' = doubled \ {e}
    ELSE /\ cur' = [cur EXCEPT ![p] = e] /\ UNCHANGED <<todo, doubled>>

(* The second loop: the peer's header is read ...                           *)
EchoHeader(p, e) ==
    /\ pc[p] = "echoing" /\ cur[p] = None /\ IsNext(p, e)
    /\ kernel[e] # <<>> /\ Head(kernel[e]).kind = "REFILL"
    /\ left' = [left EXCEPT ![p] = Head(kernel[e]).extraBytes]
    /\ kernel' = [kernel EXCEPT ![e] = Tail(@)]
    /\ Echoed(p, e, Head(kernel[e]).extraBytes, <<>>)
    /\ UNCHANGED <<appVars, owner, wired, conVars, drainVars, pc, tmp,
                   restartVars, runVars>>

(* ... then readAll of its data ...                                         *)
EchoRead(p) ==
    /\ pc[p] = "echoing" /\ left[p] > 0 /\ kernel[cur[p]] # <<>>
    /\ tmp' = [tmp EXCEPT ![p] = Append(@, Head(kernel[cur[p]]))]
    /\ kernel' = [kernel EXCEPT ![cur[p]] = Tail(@)]
    /\ left' = [left EXCEPT ![p] = @ - 1]
    /\ UNCHANGED <<appVars, owner, doubled, wired, conVars, drainVars, pc, todo, cur,
                   restartVars, runVars>>

(* ... and writeAll of them, back to the peer.                              *)
EchoWrite(p) ==
    /\ pc[p] = "echoing" /\ cur[p] # None /\ left[p] = 0 /\ Room(cur[p])
    /\ Write(cur[p], Head(tmp[p]))
    /\ tmp' = [tmp EXCEPT ![p] = Tail(@)]
    /\ Echoed(p, cur[p], 0, Tail(tmp[p]))
    /\ UNCHANGED <<appVars, owner, wired, conVars, drainVars, pc, left,
                   restartVars, runVars>>

(* The processes whose pid the pid plugin of p can translate when ipc       *)
(* restores the owners: after a restart the table of p is as postRestart    *)
(* has left it, with p itself and its parent.  Everybody's entries are read  *)
(* later in the same event.                                                 *)
PidTable(p) == IF isRestart THEN {p, Parent[p]} ELSE Procs

(* The drainer is deleted; restoreOptions gives the ends back to the owner  *)
(* saved, or to nobody if that pid is not in the table; after a restart the  *)
(* leader's descriptors are due to the sharers in the table of missing ones. *)
RestoreOptions(p) ==
    /\ pc[p] = "echoing" /\ todo[p] = {}
    /\ owner' = [e \in Ends |-> IF e \in Led(p)
                               THEN IF savedOwner[p][e] \in PidTable(p) THEN savedOwner[p][e] ELSE None
                               ELSE owner[e]]
    /\ disconnected' = [e \in Ends |-> IF e \in Led(p) THEN <<>> ELSE disconnected[e]]
    /\ IF isRestart THEN Loop(p, "sharing", Led(p)) ELSE Loop(p, "refilled", {})
    /\ UNCHANGED <<appVars, kernel, doubled, wired, conVars, drained, cookieDue,
                   cur, left, tmp, restartVars, runVars>>

(* sendReceiveMissingFds: p sends an end it leads to a sharer in the table  *)
(* ...                                                                      *)
SendFd(p, q, e) ==
    /\ pc[p] = "sharing" /\ e \in todo[p] /\ <<q, e>> \in missing
    /\ missing' = missing \ {<<q, e>>}
    /\ fdMsgs' = fdMsgs \cup {<<q, e>>}
    /\ UNCHANGED <<appVars, kernelVars, conVars, drainVars, pc, loopVars,
                   nameService, incoming, runVars>>

(* ... and receives an end it misses.                                       *)
ReceiveFd(p, e) ==
    /\ pc[p] = "sharing" /\ <<p, e>> \in fdMsgs
    /\ fdMsgs' = fdMsgs \ {<<p, e>>}
    /\ wired' = wired \cup {<<p, e>>}
    /\ UNCHANGED <<appVars, kernel, owner, doubled, conVars, drainVars, pc, loopVars,
                   nameService, incoming, missing, runVars>>

(* Nothing is left to send, and nothing is missing.                         *)
FdsShared(p) ==
    /\ pc[p] = "sharing"
    /\ \A q \in Procs, e \in todo[p] : <<q, e>> \notin missing
    /\ \A e \in Held(p) \ Led(p) : <<p, e>> \in wired
    /\ Loop(p, "refilled", {})
    /\ UNCHANGED <<appVars, kernelVars, conVars, drainVars, cur, left, tmp,
                   restartVars, runVars>>

Resume(p) ==
    /\ pc[p] = "refilled" /\ Barrier("refilled", {"run"})
    /\ Goto(p, "run")
    /\ UNCHANGED <<appVars, kernelVars, conVars, drainVars, loopVars, restartVars, runVars>>

------------------------------------------------------------------------------
Application(p) == \E e \in Ends : Send(p, e) \/ Recv(p, e) \/ SetOwn(p, e) \/ Close(p, e)

(* The checkpoint thread, from SUSPEND until the resume.                    *)
CkptThread(p) ==
    \/ ThreadsSuspend(p) \/ LeaderElection(p) \/ BeginDrain(p)
    \/ PreCkpt(p) \/ WriteImage(p)
    \/ PostRestart(p) \/ RegisterNSData(p) \/ SendQueries(p)
    \/ BeginRefill(p) \/ RefillData(p) \/ EchoRead(p) \/ EchoWrite(p)
    \/ RestoreOptions(p) \/ FdsShared(p) \/ Resume(p)
    \/ \E e \in Ends :
          \/ DoLocking(p, e) \/ DrainWrite(p, e) \/ DrainRead(p, e)
          \/ DrainComplete(p, e) \/ OnDisconnect(p, e)
          \/ SendHandshake(p, e) \/ RecvHandshake(p, e)
          \/ Connect(p, e) \/ Accept(p, e)
          \/ RefillHeader(p, e) \/ EchoHeader(p, e)
          \/ ReceiveFd(p, e) \/ \E q \in Procs : SendFd(p, q, e)

Next == Request \/ Restart \/ \E p \in Procs : Application(p) \/ CkptThread(p)

Spec == Init /\ [][Next]_vars

(* Checkpoint threads go on; the application and the user need do nothing.  *)
FairSpec == Spec /\ \A p \in Procs : WF_vars(CkptThread(p))

------------------------------------------------------------------------------
(* Sockets implements Stream.  What is on its way to end e is, while its    *)
(* leader drains it, what has been drained and then what the kernel holds;  *)
(* while it is put back, what has come back, what the peer's leader is      *)
(* about to echo, what is on its way there and what is still to be sent.    *)
Items(e, s) ==
    LET kept[i \in 0 .. Len(s)] ==
            IF i = 0
            THEN <<>>
            ELSE IF s[i].kind = "data" /\ s[i].to = e
                 THEN Append(kept[i - 1], s[i]) ELSE kept[i - 1]
    IN  kept[Len(s)]

Value(e, x) == IF x.kind = "data" /\ x.to = e THEN x.n ELSE 0

Values(e, s) == [i \in 1 .. Len(s) |-> Value(e, s[i])]

LeaderIn(e, s) == \E p \in Procs : <<p, e>> \in locked /\ pc[p] = s

Echoing(e) ==
    IF \E p \in Procs : cur[p] = Peer[e] /\ pc[p] = "echoing"
    THEN tmp[CHOOSE p \in Procs : cur[p] = Peer[e] /\ pc[p] = "echoing"]
    ELSE <<>>

InTransit(e) ==
    Items(e, CASE e \notin Open -> <<>>
               [] type[e] = "ERROR" /\ LeaderIn(e, "restarting") -> disconnected[e]
               [] LeaderIn(e, "draining") -> drained[e] \o kernel[e]
               [] OTHER -> kernel[e] \o (Echoing(e) \o (kernel[Peer[e]] \o drained[e])))

Snapshot ==
    IF image = NoImage
    THEN NoImage
    ELSE [open  |-> {e \in Ends : image.holders[e] # {}},
          sent  |-> image.sent,
          rcvd  |-> [e \in Ends |-> Values(e, image.rcvd[e])],
          queue |-> [e \in Ends |-> Values(e, IF image.type[e] = "ERROR"
                                               THEN image.disconnected[e]
                                               ELSE image.drained[e])]]

(* An end is open while a process can use it: one that has its socket, or   *)
(* the leader that is about to have it again after a restart.               *)
Usable == {e \in Ends : \E p \in holders[e] : <<p, e>> \in wired \cup locked}

Str == INSTANCE Stream WITH
    open <- Usable,
    rcvd <- [e \in Ends |-> Values(e, rcvd[e])],
    queue <- [e \in Ends |-> Values(e, InTransit(e))],
    snap <- Snapshot

(* A checkpoint loses, repeats and reorders nothing that is between two     *)
(* sockets, whoever leads them and wherever the processes are interrupted,  *)
(* and a restart brings back exactly what was between them at the           *)
(* checkpoint.  It is a promise to the ends, not to each of their sharers:   *)
(* when the other end was closed, only the leader keeps what was drained,   *)
(* and it goes when the leader closes, though sharers that LeftBehind names *)
(* still have a descriptor.                                                 *)
ImplementsStream == Str!Spec

------------------------------------------------------------------------------
Stages == {"run", "told", "suspended", "electing", "draining", "greeting", "greeted",
           "checkpointed", "restarting", "restored", "registered", "connecting"}
              \cup Refilling

Item ==
    [kind : {"data"}, to : Ends, n : 1 .. MaxSent] \cup {Cookie}
        \cup [kind : {"HANDSHAKE"}, from : Ends] \cup [kind : {"REFILL"}, extraBytes : Nat]

Owners == Procs \cup {None}
Types == {"ACCEPT", "CONNECT", "ERROR"}

Images ==
    [holders : [Ends -> SUBSET Procs], sent : [Ends -> 0 .. MaxSent],
     rcvd : [Ends -> Seq(Item)], wanted : [Ends -> SUBSET Owners], type : [Ends -> Types],
     locked : SUBSET (Procs \X Ends), savedOwner : [Procs -> [Ends -> Owners]],
     remotePeerId : [Procs -> [Ends -> Ends \cup {None}]],
     drained : [Ends -> Seq(Item)], disconnected : [Ends -> Seq(Item)]]

ASSUME ImagesAssumption == NoImage \notin Images

AppType ==
    /\ holders \in [Ends -> SUBSET Procs] /\ sent \in [Ends -> 0 .. MaxSent]
    /\ rcvd \in [Ends -> Seq(Item)] /\ wanted \in [Ends -> SUBSET Owners]

KernelType ==
    /\ kernel \in [Ends -> Seq(Item)] /\ owner \in [Ends -> Owners]
    /\ doubled \subseteq Ends /\ wired \subseteq Procs \X Ends

ConType ==
    /\ type \in [Ends -> Types] /\ locked \subseteq Procs \X Ends
    /\ savedOwner \in [Procs -> [Ends -> Owners]]
    /\ remotePeerId \in [Procs -> [Ends -> Ends \cup {None}]]

DrainType ==
    /\ drained \in [Ends -> Seq(Item)] /\ disconnected \in [Ends -> Seq(Item)]
    /\ cookieDue \subseteq Ends

LoopType ==
    /\ todo \in [Procs -> SUBSET Ends] /\ cur \in [Procs -> Ends \cup {None}]
    /\ left \in [Procs -> Nat] /\ tmp \in [Procs -> Seq(Item)]

RestartType ==
    /\ nameService \subseteq Ends /\ incoming \subseteq Ends
    /\ missing \subseteq Procs \X Ends /\ fdMsgs \subseteq Procs \X Ends

RunType ==
    /\ image \in Images \cup {NoImage} /\ isRestart \in BOOLEAN
    /\ ckpts \in 0 .. MaxCkpts /\ restarts \in 0 .. MaxRestarts

TypeOK ==
    /\ AppType /\ KernelType /\ ConType /\ DrainType
    /\ pc \in [Procs -> Stages] /\ LoopType /\ RestartType /\ RunType

(* The owner of a shared descriptor is a lock: once the drain has begun     *)
(* everywhere, exactly one of the processes that hold an end leads it, also *)
(* when each of them has been the last at another end.                      *)
OneLeader ==
    /\ TypeOK
    /\ (\A p \in Procs : pc[p] \in Stages \ {"run", "told", "suspended", "electing"})
        => \A e \in Open : Cardinality({p \in holders[e] : <<p, e>> \in locked}) = 1

(* What a leader reads is what it asserts: nothing of the application, no   *)
(* cookie and no handshake is left in front of the message it waits for,    *)
(* and the peer it asks the name service for has registered.                *)
Expected ==
    \A p \in Procs : \A e \in todo[p] :
        /\ pc[p] = "greeted" /\ kernel[e] # <<>> =>
              /\ Head(kernel[e]) = Handshake(Peer[e])
              /\ remotePeerId[p][e] \in {None, Peer[e]}
        /\ pc[p] = "echoing" /\ cur[p] = None /\ kernel[e] # <<>> =>
              Head(kernel[e]).kind = "REFILL"
        /\ pc[p] = "connecting" /\ type[e] = "CONNECT" =>
              remotePeerId[p][e] \in nameService

(* The sharers of a dead socket that do not lead it: only the leader's       *)
(* descriptors become the dead socket, until the next restart.              *)
LeftBehind(e) == ~isRestart /\ type[e] = "ERROR" /\ Peer[e] \notin Open

(* A process runs its user threads only with all its descriptors in place,  *)
(* except where it was left behind, and no send buffer still doubled.       *)
SharersConnected ==
    \A p \in Procs : pc[p] = "run" =>
        /\ \A e \in Held(p) : <<p, e>> \in wired \/ LeftBehind(e)
        /\ doubled \cap Held(p) = {}

(* The leader of e at the last checkpoint cannot translate the pid it saved. *)
Forgotten(e) ==
    /\ isRestart /\ owner[e] = None
    /\ \E l \in Procs : <<l, e>> \in image.locked /\ image.savedOwner[l][e] \notin PidTable(l)

(* When all processes run again, the owner of an end is one it had since    *)
(* the first of its sharers stopped for the checkpoint, never one that the  *)
(* election left there; only after a restart it may be nobody, when the     *)
(* leader saved the pid of a process that is neither itself nor its parent. *)
(* restoreOptions has an assertion, F_GETOWN is the saved owner, commented  *)
(* out because it "will almost always trigger until we fix the above        *)
(* mentioned bug"; the Forgotten owners are where it triggers here.         *)
OwnerKept ==
    (\A p \in Procs : pc[p] = "run") =>
        \A e \in Open : owner[e] \in wanted[e] \/ Forgotten(e)

(* The sockets of a process that goes on, after a checkpoint or a restart,  *)
(* are those it had: in place, with their buffers and their owner.          *)
ResumedAsBefore == SharersConnected /\ OwnerKept

------------------------------------------------------------------------------
(* The end that the refill loop of p is at.                                 *)
At(p) == IF cur[p] # None THEN cur[p] ELSE CHOOSE e \in todo[p] : IsNext(p, e)

Refills(p) == pc[p] \in {"writing", "echoing"} /\ todo[p] # {}

(* p waits for q, which is busy at another end and has the one that faces p *)
(* still ahead of it: p finds nothing to read, and q has yet to write; or p *)
(* finds no room, and q has yet to read.                                    *)
WaitsFor(p, q) ==
    /\ Refills(p) /\ Refills(q)
    /\ LET e == At(p)
           reads == pc[p] = "echoing" /\ (cur[p] = None \/ left[p] > 0)
       IN  /\ Peer[e] \in Live(q) /\ Peer[e] # At(q)
           /\ IF reads
              THEN kernel[e] = <<>> /\ pc[q] = "writing" /\ Peer[e] \in todo[q]
              ELSE ~RoomIf(e, doubled \cup {e}) /\ (pc[q] = "writing" \/ Peer[e] \in todo[q])

(* Leaders wait for each other in a circle, or one for itself.              *)
Jam == \E D \in SUBSET Procs : D # {} /\ \A p \in D : \E q \in D : WaitsFor(p, q)

(* The drained data do not fit the dead socket that p makes for them.       *)
DeadTooSmall ==
    \E p \in Procs : pc[p] = "draining" /\ \E e \in todo[p] :
        kernel[e] = <<>> /\ Peer[e] \notin Open /\ Len(drained[e]) > DeadBuf

(* Full buffers in both directions never keep the leaders from draining,    *)
(* greeting and refilling, nor a process from getting its descriptors: who  *)
(* stops for a checkpoint, or is restarted, runs again, unless the refill's *)
(* blocking writes end in a Jam or a dead socket is too small.              *)
RunsAgain == \A p \in Procs : pc[p] # "run" ~> pc[p] = "run" \/ Jam \/ DeadTooSmall
==============================================================================
