------------------------------- MODULE Parallel -------------------------------
(***************************************************************************)
(* bin/parallel: the scheduler without checkpoints, beside the applications*)
(* it starts.                                                              *)
(*                                                                         *)
(* The random mode (-r) starts instances in random order while their       *)
(* threads fit a limit, then polls the started ones until one has ended    *)
(* with status 0, and tries to start more.  The defined mode (-d) runs     *)
(* groups of instances one group after another; it asks                    *)
(* group_exec_completed whether a group is done.                           *)
(*                                                                         *)
(* A process is a job <<group, instance>>; the random mode's group is "R", *)
(* like its directory of stat files.  i is the position of the for loop of *)
(* a poll.  group_exec_completed pops entries of the list it iterates      *)
(* over: the entries behind move one place forward while the iteration     *)
(* goes on one place further.                                              *)
(***************************************************************************)
EXTENDS Integers, Sequences, FiniteSets, FiniteSetsExt, SequencesExt

CONSTANTS
    Instances,     \* the instances of PARALLEL_APP_INSTANCE_DIR
    Missing,       \* those whose xml file may be missing
    Threads,       \* their THREADS elements
    NoThreads,     \* those whose xml file has no THREADS element, or an empty one
    MayFail,       \* the instances that may end with a status other than 0
    MaxThreads,    \* the values of the MAXTHREADS elements of R.xml, 0 or 1
    Overcommit,    \* those of TOVERCOMMIT, in hundredths, 0 or 1
    Cpus,          \* multiprocessing.cpu_count()
    Groups,        \* the IDs of the files in PARALLEL_GROUPS_DIR
    Members        \* the APP elements of a group, in the order of the file

(* data/README:101: no instance is repeated in a group.                     *)
ASSUME ParallelAssumption ==
    /\ IsFiniteSet(Instances)
    /\ Missing \subseteq Instances /\ MayFail \subseteq Instances
    /\ NoThreads \subseteq Instances
    /\ Threads \in [Instances -> Nat \ {0}]
    /\ MaxThreads \subseteq Nat /\ Cardinality(MaxThreads) <= 1
    /\ Overcommit \subseteq Nat /\ Cardinality(Overcommit) <= 1
    /\ Cpus \in Nat \ {0}
    /\ IsFiniteSet(Groups) /\ "R" \notin Groups
    /\ Members \in [Groups -> Seq(Instances)]
    /\ \A g \in Groups : IsInjective(Members[g])

VARIABLES
    mode,                \* sys.argv[1]: "random" or "defined"
    runnable_map,        \* its keys; the random mode pops those seen to end
    app_statfile_list,   \* the jobs that are started and not removed
    i,                   \* position of the poll, from 1
    proc,                \* a job's process: "none", "running", "zero" (ended
                         \* with status 0) or "error"
    pc,
    \* random mode
    totalthreads,        \* the limit
    groupthreads,        \* threads of the started instances
    runnable,            \* instances not started
    runnablea,           \* instances not yet considered in this round
    toberemoved,         \* jobs seen to end in this poll, not yet removed
    \* defined mode
    pending,             \* the groups whose turn has not come
    group,               \* the group whose turn it is
    started              \* how many of its members are started

randomVars == <<totalthreads, groupthreads, runnable, runnablea, toberemoved>>
definedVars == <<pending, group, started>>
vars == <<mode, runnable_map, app_statfile_list, i, proc, pc, randomVars,
          definedVars>>

Jobs == (Groups \cup {"R"}) \X Instances

(* appthreads, which an entry of app_statfile_list keeps.                   *)
JobThreads == [job \in Jobs |-> Threads[job[2]]]

ThreadsOf(S) == MapThenSumSet(LAMBDA job : JobThreads[job], S)

(* What random.choice can pick, truncated by int(); totalthreads keeps its  *)
(* initial 0 when R.xml has neither element.                                *)
ThreadLimits ==
    LET given == MaxThreads \cup {(f * Cpus) \div 100 : f \in Overcommit}
    IN IF given = {} THEN {0} ELSE given

Init ==
    /\ mode \in {"random", "defined"}
    /\ runnable_map \in {Instances \ S : S \in SUBSET Missing}
    /\ app_statfile_list = <<>>
    /\ i = 1
    /\ proc = [job \in Jobs |-> "none"]
    /\ pc = IF mode = "random" THEN "limit" ELSE "groups"
    /\ totalthreads = 0
    /\ groupthreads = 0
    /\ runnable = runnable_map
    /\ runnablea = {}
    /\ toberemoved = {}
    /\ pending = Groups
    /\ group = "R"
    /\ started = 0

(* subprocess.Popen and the entry in app_statfile_list.                     *)
Start(job) ==
    /\ proc' = [proc EXCEPT ![job] = "running"]
    /\ app_statfile_list' = Append(app_statfile_list, job)

(* Fault: "not poll()", true of None as well.                               *)
EndedOrRunning(job) == proc[job] \in {"zero", "running"}

(* poll() is None while the process runs and its status afterwards; only    *)
(* the status 0 is taken for the end.                                       *)
Ended(job) == proc[job] = "zero"

----------------------------------------------------------------------------
(* The random mode.                                                         *)

ChooseLimit ==
    /\ pc = "limit"
    /\ \E n \in ThreadLimits :
          /\ totalthreads' = n
          /\ pc' = IF n = 0 THEN "done" ELSE "rounds"
    /\ UNCHANGED <<mode, runnable_map, app_statfile_list, i, proc, definedVars,
                   groupthreads, runnable, runnablea, toberemoved>>

NewRound ==
    /\ pc = "rounds"
    /\ runnable_map # {}
    /\ runnablea' = runnable
    /\ pc' = "admit"
    /\ UNCHANGED <<mode, runnable_map, app_statfile_list, i, proc, definedVars,
                   totalthreads, groupthreads, runnable, toberemoved>>

(* Fault: the limit is tested by the loop's condition only.                 *)
ConsiderUnchecked(appid) ==
    /\ pc = "admit"
    /\ appid \in runnablea \ NoThreads
    /\ groupthreads < totalthreads
    /\ runnable' = runnable \ {appid}
    /\ groupthreads' = groupthreads + Threads[appid]
    /\ Start(<<"R", appid>>)
    /\ runnablea' = runnablea \ {appid}
    /\ UNCHANGED <<mode, runnable_map, i, pc, definedVars, totalthreads, toberemoved>>

(* Fault: a started instance stays in runnable.                             *)
ConsiderKeepsRunnable(appid) ==
    /\ pc = "admit"
    /\ appid \in runnablea \ NoThreads
    /\ groupthreads < totalthreads
    /\ IF groupthreads + Threads[appid] <= totalthreads
       THEN groupthreads' = groupthreads + Threads[appid] /\ Start(<<"R", appid>>)
       ELSE UNCHANGED <<groupthreads, proc, app_statfile_list>>
    /\ runnablea' = runnablea \ {appid}
    /\ UNCHANGED <<mode, runnable_map, i, pc, definedVars, totalthreads, runnable,
                   toberemoved>>

(* An iteration of the admission loop: appid is drawn from runnablea and    *)
(* started when it fits.                                                    *)
Consider(appid) ==
    /\ pc = "admit"
    /\ appid \in runnablea \ NoThreads
    /\ groupthreads < totalthreads
    /\ IF groupthreads + Threads[appid] <= totalthreads
       THEN /\ runnable' = runnable \ {appid}
            /\ groupthreads' = groupthreads + Threads[appid]
            /\ Start(<<"R", appid>>)
       ELSE UNCHANGED <<runnable, groupthreads, proc, app_statfile_list>>
    /\ runnablea' = runnablea \ {appid}
    /\ UNCHANGED <<mode, runnable_map, i, pc, definedVars, totalthreads, toberemoved>>

(* ... unless its THREADS cannot be read (findall('THREADS')[0] raises       *)
(* IndexError, int(None) TypeError): the script dies beside what it started. *)
ConsiderNoThreads(appid) ==
    /\ pc = "admit"
    /\ appid \in runnablea \cap NoThreads
    /\ groupthreads < totalthreads
    /\ pc' = "IndexError"
    /\ UNCHANGED <<mode, runnable_map, app_statfile_list, i, proc, definedVars, randomVars>>

(* Fault: the admission loop ends as soon as something runs.                *)
StartPollEarly ==
    /\ pc = "admit"
    /\ runnablea = {} \/ groupthreads > 0
    /\ pc' = "poll"
    /\ i' = 1
    /\ toberemoved' = {}
    /\ UNCHANGED <<mode, runnable_map, app_statfile_list, proc, definedVars,
                   totalthreads, groupthreads, runnable, runnablea>>

StartPoll ==
    /\ pc = "admit"
    /\ runnablea = {} \/ groupthreads >= totalthreads
    /\ pc' = "poll"
    /\ i' = 1
    /\ toberemoved' = {}
    /\ UNCHANGED <<mode, runnable_map, app_statfile_list, proc, definedVars,
                   totalthreads, groupthreads, runnable, runnablea>>

(* Fault: the threads are not given back.                                   *)
PollKeepsThreads ==
    /\ pc = "poll"
    /\ i <= Len(app_statfile_list)
    /\ LET job == app_statfile_list[i] IN
          IF Ended(job)
          THEN /\ toberemoved' = toberemoved \cup {job}
               /\ runnable_map' = runnable_map \ {job[2]}
          ELSE UNCHANGED <<toberemoved, runnable_map>>
    /\ i' = i + 1
    /\ UNCHANGED <<mode, app_statfile_list, proc, pc, definedVars, totalthreads,
                   groupthreads, runnable, runnablea>>

Poll ==
    /\ pc = "poll"
    /\ i <= Len(app_statfile_list)
    /\ LET job == app_statfile_list[i] IN
          IF Ended(job)
          THEN /\ toberemoved' = toberemoved \cup {job}
               /\ runnable_map' = runnable_map \ {job[2]}
               /\ groupthreads' = groupthreads - Threads[job[2]]
          ELSE UNCHANGED <<toberemoved, runnable_map, groupthreads>>
    /\ i' = i + 1
    /\ UNCHANGED <<mode, app_statfile_list, proc, pc, definedVars, totalthreads,
                   runnable, runnablea>>

(* After the for loop: the ended ones are removed, one by one, and a new    *)
(* round begins, or the script sleeps five seconds and polls again.         *)
RemoveEnded ==
    /\ pc = "poll"
    /\ i > Len(app_statfile_list)
    /\ \E k \in 1 .. Len(app_statfile_list) :
          /\ app_statfile_list[k] \in toberemoved
          /\ app_statfile_list' = RemoveAt(app_statfile_list, k)
          /\ toberemoved' = toberemoved \ {app_statfile_list[k]}
    /\ pc' = IF toberemoved' = {} THEN "rounds" ELSE "poll"
    /\ UNCHANGED <<mode, runnable_map, i, proc, definedVars, totalthreads,
                   groupthreads, runnable, runnablea>>

Sleep ==
    /\ pc = "poll"
    /\ i > Len(app_statfile_list)
    /\ toberemoved = {}
    /\ i' = 1
    /\ UNCHANGED <<mode, runnable_map, app_statfile_list, proc, pc, definedVars,
                   randomVars>>

(* "Group Threads Not ZERO at end" is logged before main returns.           *)
Finish ==
    /\ pc = "rounds"
    /\ runnable_map = {}
    /\ pc' = IF groupthreads # 0 THEN "warned" ELSE "done"
    /\ UNCHANGED <<mode, runnable_map, app_statfile_list, i, proc, definedVars,
                   randomVars>>

----------------------------------------------------------------------------
(* The defined mode.                                                        *)

(* The keys of groupmap come in any order.                                  *)
NextGroup(g) ==
    /\ pc = "groups"
    /\ g \in pending
    /\ pending' = pending \ {g}
    /\ group' = g
    /\ started' = 0
    /\ app_statfile_list' = <<>>
    /\ pc' = "members"
    /\ UNCHANGED <<mode, runnable_map, i, proc, randomVars>>

LastGroup ==
    /\ pc = "groups"
    /\ pending = {}
    /\ pc' = "done"
    /\ UNCHANGED <<mode, runnable_map, app_statfile_list, i, proc, randomVars,
                   definedVars>>

(* runnable_map[appid] raises KeyError for an instance nobody defined.      *)
StartMember ==
    /\ pc = "members"
    /\ started < Len(Members[group])
    /\ LET appid == Members[group][started + 1] IN
          IF appid \in runnable_map
          THEN Start(<<group, appid>>) /\ started' = started + 1 /\ UNCHANGED pc
          ELSE pc' = "KeyError" /\ UNCHANGED <<proc, app_statfile_list, started>>
    /\ UNCHANGED <<mode, runnable_map, i, randomVars, pending, group>>

AllStarted ==
    /\ pc = "members"
    /\ started = Len(Members[group])
    /\ i' = 1
    /\ pc' = "wait"
    /\ UNCHANGED <<mode, runnable_map, app_statfile_list, proc, randomVars,
                   definedVars>>

(* Fault: an entry that has not ended is passed over.                       *)
PollMemberGoesOn ==
    /\ pc = "wait"
    /\ i <= Len(app_statfile_list)
    /\ IF Ended(app_statfile_list[i])
       THEN app_statfile_list' = RemoveAt(app_statfile_list, i)
       ELSE UNCHANGED app_statfile_list
    /\ i' = i + 1
    /\ UNCHANGED <<mode, runnable_map, proc, pc, randomVars, definedVars>>

(* One iteration of group_exec_completed: the entry is popped, or the       *)
(* function returns False and the script sleeps and calls it again.         *)
PollMember ==
    /\ pc = "wait"
    /\ i <= Len(app_statfile_list)
    /\ IF Ended(app_statfile_list[i])
       THEN /\ app_statfile_list' = RemoveAt(app_statfile_list, i)
            /\ i' = i + 1
       ELSE /\ i' = 1
            /\ UNCHANGED app_statfile_list
    /\ UNCHANGED <<mode, runnable_map, proc, pc, randomVars, definedVars>>

(* The iteration is at the end of the list: it returns True.                *)
GroupExecCompleted ==
    /\ pc = "wait"
    /\ i > Len(app_statfile_list)
    /\ pc' = "groups"
    /\ UNCHANGED <<mode, runnable_map, app_statfile_list, i, proc, randomVars,
                   definedVars>>

----------------------------------------------------------------------------
(* The process of a job ends.                                               *)
Exit(job) ==
    /\ proc[job] = "running"
    /\ \E status \in {"zero"} \cup IF job[2] \in MayFail THEN {"error"} ELSE {} :
          proc' = [proc EXCEPT ![job] = status]
    /\ UNCHANGED <<mode, runnable_map, app_statfile_list, i, pc, randomVars,
                   definedVars>>

Random ==
    \/ ChooseLimit \/ NewRound \/ StartPoll
    \/ Poll \/ RemoveEnded \/ Sleep \/ Finish
    \/ \E appid \in Instances : Consider(appid) \/ ConsiderNoThreads(appid)

Defined ==
    \/ \E g \in Groups : NextGroup(g)
    \/ LastGroup \/ StartMember \/ AllStarted \/ PollMember \/ GroupExecCompleted

Script == Random \/ Defined

Next == Script \/ \E job \in Jobs : Exit(job)

(* The script keeps running, and every process comes to its end.            *)
Spec == Init /\ [][Next]_vars /\ WF_vars(Script)
             /\ \A job \in Jobs : WF_vars(Exit(job))

----------------------------------------------------------------------------
TypeOK ==
    /\ mode \in {"random", "defined"}
    /\ runnable_map \subseteq Instances
    /\ app_statfile_list \in Seq(Jobs)
    /\ i \in Nat \ {0}
    /\ proc \in [Jobs -> {"none", "running", "zero", "error"}]
    /\ pc \in {"limit", "rounds", "admit", "poll", "groups", "members", "wait",
               "warned", "done", "KeyError", "IndexError"}
    /\ totalthreads \in Nat
    /\ groupthreads \in Nat
    /\ runnable \subseteq Instances
    /\ runnablea \subseteq Instances
    /\ toberemoved \subseteq Jobs
    /\ pending \subseteq Groups
    /\ group \in Groups \cup {"R"}
    /\ started \in Nat

Running == {job \in Jobs : proc[job] = "running"}

Followed == ToSet(app_statfile_list) \ toberemoved

(* The counter groupthreads, increased in one loop of main and decreased in *)
(* another, is the number of threads of the instances that the random mode  *)
(* follows; so the threads of the processes that run never exceed the limit *)
(* and the warning at the end of main is never logged.                      *)
ThreadsAccounted ==
    /\ TypeOK
    /\ mode = "random" =>
          /\ groupthreads = ThreadsOf(Followed)
          /\ Running \subseteq Followed
          /\ groupthreads <= totalthreads
          /\ pc # "warned"

(* The random mode waits only when it must: while it polls for an end, no   *)
(* instance that is not started would fit beside the followed ones.         *)
WaitsOnlyWhenFull ==
    pc = "poll" /\ toberemoved = {} =>
        \A a \in runnable : groupthreads + Threads[a] > totalthreads

(* main returns from the random mode only when every instance it found has  *)
(* run and ended with status 0, unless the limit was zero.                  *)
ReturnIsComplete ==
    mode = "random" /\ pc = "done" /\ totalthreads > 0 =>
        runnable = {} /\ \A job \in Jobs : proc[job] \in {"none", "zero"}

(* Every member of g was started and half of them have ended.               *)
HalfEnded(g) ==
    LET member == ToSet(Members[g])
        ended == {a \in member : proc[<<g, a>>] = "zero"}
    IN /\ \A a \in member : proc[<<g, a>>] # "none"
       /\ 2 * Cardinality(ended) >= Cardinality(member)

(* However the iteration of group_exec_completed skips, every member of a   *)
(* group was started and at least half of them, rounded up, have ended with *)
(* status 0 when the script goes on to the next group or returns.  The      *)
(* members that the iteration skips may still run then, although the log    *)
(* says "checking if jobs are finished" (bin/parallel:170).                 *)
HalfOfGroupEnded ==
    \A g \in Groups \ pending : g # group \/ pc \in {"groups", "done"} => HalfEnded(g)

(* A job is run once: a process that has ended is never started again.      *)
RunsOnce ==
    [][\A job \in Jobs :
          proc[job] \in {"zero", "error"} => proc'[job] = proc[job]]_vars

(* The script ends, by returning or by an exception, unless a process ended *)
(* with a status other than 0 (it keeps its threads, and its place in       *)
(* runnable_map or in the group's list) or an instance has more threads     *)
(* than the random mode's limit (it is never started).                      *)
ReturnsUnlessBlocked ==
    <>(\/ pc \in {"done", "KeyError", "IndexError"}
       \/ \E job \in Jobs : proc[job] = "error"
       \/ pc = "rounds" /\ \E a \in runnable_map : Threads[a] > totalthreads)

==============================================================================
