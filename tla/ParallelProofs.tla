--------------------------- MODULE ParallelProofs ----------------------------
(***************************************************************************)
(* IndInv is an inductive invariant of Parallel, for any instances and     *)
(* groups, any numbers of threads and any limit.                           *)
(***************************************************************************)
EXTENDS Parallel, CollectionTheorems

(* An instance is in the list of processes once.                            *)
ListOnce ==
    \A j, k \in 1 .. Len(app_statfile_list) :
        app_statfile_list[j] = app_statfile_list[k] => j = k

(* The random mode: what the poll has seen to end is what it passed, and is *)
(* out of runnable_map while it waits to be removed from the list.          *)
Tracking ==
    /\ \A job \in ToSet(app_statfile_list) : job[1] = "R"
    /\ toberemoved \subseteq ToSet(app_statfile_list)
    /\ \A job \in toberemoved : proc[job] = "zero" /\ job[2] \notin runnable_map
    /\ pc = "poll" => \A k \in 1 .. Len(app_statfile_list) :
                          app_statfile_list[k] \in toberemoved => k < i
    /\ pc # "poll" => toberemoved = {}

(* The instances of runnable_map are those not started and those followed;  *)
(* whatever runs or has failed is followed.                                 *)
Places ==
    /\ \A job \in Followed : job[2] \in runnable_map
    /\ runnable \subseteq runnable_map
    /\ \A a \in runnable_map : a \in runnable \/ <<"R", a>> \in Followed
    /\ \A a \in runnable : /\ proc[<<"R", a>>] = "none"
                           /\ <<"R", a>> \notin ToSet(app_statfile_list)
    /\ \A job \in Jobs : proc[job] \in {"running", "error"} => job \in Followed

Account == groupthreads = ThreadsOf(Followed) /\ groupthreads <= totalthreads

(* What a round has established: in the admission loop, that an instance    *)
(* already considered and not started does not fit.                         *)
Rounds ==
    /\ pc = "limit" => app_statfile_list = <<>>
    /\ pc = "admit" => /\ runnablea \subseteq runnable
                       /\ \A a \in runnable \ runnablea :
                             groupthreads + Threads[a] > totalthreads
    /\ WaitsOnlyWhenFull
    /\ pc = "done" /\ totalthreads > 0 => runnable_map = {}

RandomInv ==
    mode = "random" =>
        /\ pc \in {"limit", "rounds", "admit", "poll", "done", "IndexError"}
        /\ pending = Groups
        /\ Tracking /\ Places /\ Account /\ Rounds

(* While the members of a group are started: the list is what is started.   *)
Starting ==
    /\ started <= Len(Members[group])
    /\ Len(app_statfile_list) = started
    /\ \A k \in 1 .. started :
          /\ app_statfile_list[k] = <<group, Members[group][k]>>
          /\ proc[<<group, Members[group][k]>>] # "none"
    /\ \A k \in started + 1 .. Len(Members[group]) :
          proc[<<group, Members[group][k]>>] = "none"

(* While the script waits for a group: a member not in the list has ended,  *)
(* and each step of the iteration has popped an entry.                      *)
Waiting ==
    /\ \A a \in ToSet(Members[group]) :
          /\ proc[<<group, a>>] # "none"
          /\ proc[<<group, a>>] = "zero" \/ <<group, a>> \in ToSet(app_statfile_list)
    /\ Len(app_statfile_list) + i - 1 <= Len(Members[group])

DefinedInv ==
    mode = "defined" =>
        /\ pc \in {"groups", "members", "wait", "done", "KeyError"}
        /\ pc \in {"members", "wait"} => group \in Groups
        /\ group \notin pending
        /\ \A g \in pending : \A a \in Instances : proc[<<g, a>>] = "none"
        /\ pc = "members" => Starting
        /\ pc = "wait" => Waiting

IndInv == TypeOK /\ ListOnce /\ RandomInv /\ DefinedInv /\ HalfOfGroupEnded

------------------------------------------------------------------------------
(* A job is a pair of a group, or "R", and an instance.                     *)
LEMMA JobFacts ==
    /\ \A g \in Groups \cup {"R"} : \A a \in Instances :
          <<g, a>> \in Jobs /\ <<g, a>>[1] = g /\ <<g, a>>[2] = a
    /\ \A job \in Jobs : /\ job[1] \in Groups \cup {"R"} /\ job[2] \in Instances
                         /\ job = <<job[1], job[2]>>
BY DEF Jobs

(* What the sums are taken over.                                            *)
LEMMA ThreadFacts ==
    /\ JobThreads \in [Jobs -> Nat]
    /\ \A job \in Jobs : JobThreads[job] = Threads[job[2]]
    /\ \A a \in Instances : Threads[a] \in Nat /\ Threads[a] > 0
    /\ \A S : ThreadsOf(S) = SumOver(JobThreads, S)
BY JobFacts, ParallelAssumption DEF JobThreads, ThreadsOf, SumOver

(* The limit is a natural number.                                           *)
LEMMA LimitFacts == ThreadLimits \subseteq Nat
<1>1. ASSUME NEW f \in Overcommit PROVE (f * Cpus) \div 100 \in Nat
  <2>1. f * Cpus \in Nat
    BY ParallelAssumption
  <2> QED BY <2>1
<1>2. {(f * Cpus) \div 100 : f \in Overcommit} \subseteq Nat
  BY <1>1
<1>3. MaxThreads \subseteq Nat /\ {0} \subseteq Nat
  BY ParallelAssumption
<1> HIDE DEF ThreadLimits
<1> QED BY <1>2, <1>3, Zenon DEF ThreadLimits

(* The followed jobs are finitely many.                                     *)
LEMMA FollowedFacts ==
    TypeOK /\ ListOnce => Followed \subseteq Jobs /\ IsFiniteSet(Followed)
<1> SUFFICES ASSUME TypeOK, ListOnce PROVE Followed \subseteq Jobs /\ IsFiniteSet(Followed)
  OBVIOUS
<1>1. app_statfile_list \in Seq(Jobs)
  BY DEF TypeOK
<1>2. IsFiniteSet(ToSet(app_statfile_list))
  BY <1>1, ListCardinality DEF ListOnce
<1>3. Followed \in SUBSET ToSet(app_statfile_list) /\ ToSet(app_statfile_list) \subseteq Jobs
  BY <1>1 DEF Followed, ToSet
<1> QED BY <1>2, <1>3, FS_Subset

(* Init establishes the invariant.                                          *)
LEMMA InitIndInv == Init => IndInv
<1> SUFFICES ASSUME Init PROVE IndInv
  OBVIOUS
<1> USE ParallelAssumption DEF Init
<1>1. TypeOK
  BY DEF TypeOK
<1>2. ToSet(app_statfile_list) = {} /\ Followed = {}
  BY DEF ToSet, Followed
<1>3. ThreadsOf({}) = 0
  BY ThreadFacts, SumEmpty
<1>4. ListOnce
  BY DEF ListOnce
<1>5. HalfOfGroupEnded /\ DefinedInv
  BY DEF HalfOfGroupEnded, DefinedInv, Jobs
<1>6. ASSUME mode = "random" PROVE Tracking /\ Places /\ Account /\ Rounds
  <2>1. Tracking
    BY <1>2 DEF Tracking
  <2>2. Places
    BY <1>2, JobFacts DEF Places
  <2>3. Account
    BY <1>2, <1>3 DEF Account
  <2>4. Rounds
    BY <1>6 DEF Rounds, WaitsOnlyWhenFull
  <2> QED BY <2>1, <2>2, <2>3, <2>4
<1> QED BY <1>1, <1>4, <1>5, <1>6 DEF IndInv, RandomInv

------------------------------------------------------------------------------
(* The random mode.                                                         *)

(* A step of the random mode leaves the groups alone.                       *)
LEMMA RandomOnly ==
    ASSUME IndInv, mode = "random", UNCHANGED <<mode, definedVars>>
    PROVE  DefinedInv' /\ HalfOfGroupEnded'
BY DEF IndInv, RandomInv, DefinedInv, HalfOfGroupEnded, definedVars

(* A step that changes only the place in the program, the limit or what is  *)
(* left of a round.                                                         *)
LEMMA SameProcesses ==
    ASSUME IndInv, mode = "random", UNCHANGED <<mode, definedVars>>,
           UNCHANGED <<runnable_map, app_statfile_list, proc, groupthreads, runnable>>,
           toberemoved = {}, toberemoved' = {}, groupthreads <= totalthreads'
    PROVE  /\ ListOnce' /\ Tracking' /\ Places' /\ Account'
           /\ DefinedInv' /\ HalfOfGroupEnded' /\ pending' = Groups
<1>1. Followed' = Followed
  BY DEF Followed
<1>2. Tracking /\ Places /\ Account /\ pending = Groups
  BY DEF IndInv, RandomInv
<1>3. ListOnce' /\ Tracking' /\ Places'
  BY <1>1, <1>2 DEF IndInv, ListOnce, Tracking, Places
<1>4. Account'
  BY <1>1, <1>2 DEF Account
<1> QED BY <1>2, <1>3, <1>4, RandomOnly DEF definedVars

(* ChooseLimit: nothing is started yet.                                     *)
LEMMA ChooseLimitStep == IndInv /\ ChooseLimit => IndInv'
<1> SUFFICES ASSUME IndInv, ChooseLimit PROVE IndInv'
  OBVIOUS
<1> USE DEF ChooseLimit
<1>1. TypeOK /\ mode = "random" /\ RandomInv
  BY DEF IndInv, TypeOK, DefinedInv
<1>2. Tracking /\ Places /\ Account /\ Rounds
  BY <1>1 DEF RandomInv
<1>3. totalthreads' \in Nat
  BY LimitFacts
<1>4. TypeOK'
  BY <1>1, <1>3 DEF TypeOK, definedVars
<1>5. groupthreads = 0
  <2>1. Followed = {}
    BY <1>2 DEF Rounds, Followed, ToSet
  <2> QED BY <2>1, <1>2, ThreadFacts, SumEmpty DEF Account
<1>6. toberemoved = {} /\ toberemoved' = {}
  BY <1>2 DEF Tracking
<1>7. /\ ListOnce' /\ Tracking' /\ Places' /\ Account'
      /\ DefinedInv' /\ HalfOfGroupEnded' /\ pending' = Groups
  BY <1>1, <1>3, <1>5, <1>6, SameProcesses
<1>8. Rounds'
  BY <1>3 DEF Rounds, WaitsOnlyWhenFull
<1> QED BY <1>4, <1>7, <1>8 DEF IndInv, RandomInv

(* NewRound: every instance is to be considered again.                      *)
LEMMA NewRoundStep == IndInv /\ NewRound => IndInv'
<1> SUFFICES ASSUME IndInv, NewRound PROVE IndInv'
  OBVIOUS
<1> USE DEF NewRound
<1>1. TypeOK /\ mode = "random" /\ RandomInv
  BY DEF IndInv, TypeOK, DefinedInv
<1>2. Tracking /\ Account
  BY <1>1 DEF RandomInv
<1>3. TypeOK'
  BY <1>1 DEF TypeOK, definedVars
<1>4. toberemoved = {} /\ toberemoved' = {} /\ groupthreads <= totalthreads'
  BY <1>2 DEF Tracking, Account
<1>5. /\ ListOnce' /\ Tracking' /\ Places' /\ Account'
      /\ DefinedInv' /\ HalfOfGroupEnded' /\ pending' = Groups
  BY <1>1, <1>4, SameProcesses
<1>6. Rounds'
  BY DEF Rounds, WaitsOnlyWhenFull
<1> QED BY <1>3, <1>5, <1>6 DEF IndInv, RandomInv

(* ConsiderNoThreads: the script dies, and nothing else happens.            *)
LEMMA ConsiderNoThreadsStep ==
    ASSUME IndInv, NEW appid \in Instances, ConsiderNoThreads(appid) PROVE IndInv'
<1> USE DEF ConsiderNoThreads
<1>1. TypeOK /\ mode = "random" /\ RandomInv
  BY DEF IndInv, TypeOK, DefinedInv
<1>2. Tracking /\ Account
  BY <1>1 DEF RandomInv
<1>3. TypeOK'
  BY <1>1 DEF TypeOK, definedVars, randomVars
<1>4. toberemoved = {} /\ toberemoved' = {} /\ groupthreads <= totalthreads'
  BY <1>2 DEF Tracking, Account, randomVars
<1>5. /\ ListOnce' /\ Tracking' /\ Places' /\ Account'
      /\ DefinedInv' /\ HalfOfGroupEnded' /\ pending' = Groups
  BY <1>1, <1>4, SameProcesses DEF randomVars
<1>6. Rounds'
  BY DEF Rounds, WaitsOnlyWhenFull
<1> QED BY <1>3, <1>5, <1>6 DEF IndInv, RandomInv

(* StartPoll: nothing left to consider, or no thread left.                  *)
LEMMA StartPollStep == IndInv /\ StartPoll => IndInv'
<1> SUFFICES ASSUME IndInv, StartPoll PROVE IndInv'
  OBVIOUS
<1> USE DEF StartPoll
<1>1. TypeOK /\ mode = "random" /\ RandomInv
  BY DEF IndInv, TypeOK, DefinedInv
<1>2. Tracking /\ Account /\ Rounds
  BY <1>1 DEF RandomInv
<1>3. TypeOK'
  BY <1>1 DEF TypeOK, definedVars
<1>4. toberemoved = {} /\ toberemoved' = {} /\ groupthreads <= totalthreads'
  BY <1>2 DEF Tracking, Account
<1>5. /\ ListOnce' /\ Tracking' /\ Places' /\ Account'
      /\ DefinedInv' /\ HalfOfGroupEnded' /\ pending' = Groups
  BY <1>1, <1>4, SameProcesses
<1>6. ASSUME NEW a \in runnable PROVE groupthreads + Threads[a] > totalthreads
  <2>1. a \in Instances /\ groupthreads \in Nat /\ totalthreads \in Nat
    BY <1>1 DEF TypeOK
  <2>2. Threads[a] \in Nat /\ Threads[a] > 0
    BY <2>1, ThreadFacts
  <2>3. CASE groupthreads >= totalthreads
    BY <2>1, <2>2, <2>3
  <2>4. CASE runnablea = {}
    BY <2>4, <1>2 DEF Rounds
  <2> QED BY <2>3, <2>4
<1>7. Rounds'
  BY <1>6 DEF Rounds, WaitsOnlyWhenFull
<1> QED BY <1>3, <1>5, <1>7 DEF IndInv, RandomInv

(* Finish: nothing is followed any more, so no thread is counted.           *)
LEMMA FinishStep == IndInv /\ Finish => IndInv'
<1> SUFFICES ASSUME IndInv, Finish PROVE IndInv'
  OBVIOUS
<1> USE DEF Finish
<1>1. TypeOK /\ mode = "random" /\ RandomInv
  BY DEF IndInv, TypeOK, DefinedInv
<1>2. Tracking /\ Places /\ Account
  BY <1>1 DEF RandomInv
<1>3. Followed = {}
  BY <1>2 DEF Places
<1>4. groupthreads = 0
  BY <1>2, <1>3, ThreadFacts, SumEmpty DEF Account
<1>5. pc' = "done"
  BY <1>4
<1>6. TypeOK'
  BY <1>1, <1>5 DEF TypeOK, definedVars, randomVars
<1>7. toberemoved = {} /\ toberemoved' = {} /\ groupthreads <= totalthreads'
  BY <1>2 DEF Tracking, Account, randomVars
<1>8. /\ ListOnce' /\ Tracking' /\ Places' /\ Account'
      /\ DefinedInv' /\ HalfOfGroupEnded' /\ pending' = Groups
  BY <1>1, <1>7, SameProcesses DEF randomVars
<1>9. Rounds'
  BY <1>5 DEF Rounds, WaitsOnlyWhenFull
<1> QED BY <1>5, <1>6, <1>8, <1>9 DEF IndInv, RandomInv

(* Consider: the instance is started when its threads still fit.            *)
LEMMA ConsiderStep ==
    ASSUME IndInv, NEW appid \in Instances, Consider(appid) PROVE IndInv'
<1> DEFINE job == <<"R", appid>>
<1>1. TypeOK /\ mode = "random" /\ RandomInv /\ ListOnce /\ pc = "admit" /\ pc' = "admit"
  BY DEF IndInv, TypeOK, DefinedInv, Consider
<1>2. Tracking /\ Places /\ Account /\ Rounds
  BY <1>1 DEF RandomInv
<1>3. DefinedInv' /\ HalfOfGroupEnded' /\ pending' = Groups /\ mode' = "random"
  BY <1>1, RandomOnly DEF Consider, RandomInv, definedVars
<1>4. /\ appid \in runnable /\ job \in Jobs /\ job[1] = "R" /\ job[2] = appid
      /\ proc[job] = "none" /\ job \notin ToSet(app_statfile_list)
      /\ toberemoved = {} /\ toberemoved' = {}
      /\ groupthreads \in Nat /\ totalthreads \in Nat
      /\ Threads[appid] \in Nat /\ Threads[appid] > 0
      /\ app_statfile_list \in Seq(Jobs)
  BY <1>1, <1>2, JobFacts, ThreadFacts DEF Consider, Rounds, Places, Tracking, TypeOK
<1>5. CASE groupthreads + Threads[appid] > totalthreads
  <2>1. UNCHANGED <<mode, definedVars, runnable_map, app_statfile_list, proc,
                    groupthreads, runnable, totalthreads, i>>
        /\ runnablea' = runnablea \ {appid}
    BY <1>4, <1>5 DEF Consider
  <2>2. TypeOK'
    BY <1>1, <1>4, <2>1 DEF TypeOK, definedVars
  <2>3. groupthreads <= totalthreads'
    BY <1>2, <2>1 DEF Account
  <2>4. ListOnce' /\ Tracking' /\ Places' /\ Account'
    BY <1>1, <1>4, <2>1, <2>3, SameProcesses
  <2>5. Rounds'
    BY <1>1, <1>2, <1>5, <2>1 DEF Rounds, WaitsOnlyWhenFull
  <2> QED BY <1>1, <1>3, <2>2, <2>4, <2>5 DEF IndInv, RandomInv
<1>6. CASE groupthreads + Threads[appid] <= totalthreads
  <2>1. /\ runnable' = runnable \ {appid}
        /\ groupthreads' = groupthreads + Threads[appid]
        /\ proc' = [proc EXCEPT ![job] = "running"]
        /\ app_statfile_list' = Append(app_statfile_list, job)
        /\ runnablea' = runnablea \ {appid}
        /\ UNCHANGED <<mode, runnable_map, i, definedVars, totalthreads>>
    BY <1>6 DEF Consider, Start
  <2> HIDE DEF job
  <2>2. /\ app_statfile_list' \in Seq(Jobs)
        /\ ToSet(app_statfile_list') = ToSet(app_statfile_list) \cup {job}
        /\ ListOnce'
    BY <1>1, <1>4, <2>1, AppendFacts DEF ListOnce
  <2>3. TypeOK'
    BY <1>1, <1>4, <2>1, <2>2 DEF TypeOK, definedVars
  <2>4. Followed' = Followed \cup {job} /\ job \notin Followed
    BY <1>4, <2>2 DEF Followed
  <2>5. Tracking'
    BY <1>1, <1>2, <1>4, <2>1, <2>2 DEF Tracking
  <2>6. Places'
    <3>1. \A x \in Followed' : x[2] \in runnable_map'
      BY <1>2, <1>4, <2>1, <2>4 DEF Places
    <3>2. \A a \in runnable_map' : a \in runnable' \/ <<"R", a>> \in Followed'
      BY <1>2, <2>1, <2>4 DEF Places, job
    <3>3. ASSUME NEW a \in runnable'
          PROVE  proc'[<<"R", a>>] = "none" /\ <<"R", a>> \notin ToSet(app_statfile_list')
      <4>1. a \in runnable /\ <<"R", a>> # job
        BY <2>1 DEF job
      <4>2. <<"R", a>> \in Jobs
        BY <1>1, <4>1, JobFacts DEF TypeOK
      <4> QED BY <1>1, <1>2, <2>1, <2>2, <4>1, <4>2 DEF Places, TypeOK
    <3>4. \A x \in Jobs : proc'[x] \in {"running", "error"} => x \in Followed'
      BY <1>1, <1>2, <2>1, <2>4 DEF Places, TypeOK
    <3> QED BY <1>2, <2>1, <3>1, <3>2, <3>3, <3>4 DEF Places
  <2>7. Account'
    <3>1. Followed \subseteq Jobs /\ IsFiniteSet(Followed)
      BY <1>1, FollowedFacts
    <3>2. SumOver(JobThreads, Followed \cup {job}) =
              SumOver(JobThreads, Followed) + JobThreads[job]
      BY <1>4, <2>4, <3>1, ThreadFacts, SumAdd
    <3>3. ThreadsOf(Followed') = ThreadsOf(Followed) + Threads[appid]
      BY <1>4, <2>4, <3>2, ThreadFacts
    <3> QED BY <1>2, <1>6, <2>1, <3>3 DEF Account
  <2>8. Rounds'
    <3>1. runnablea' \subseteq runnable'
      BY <1>1, <1>2, <2>1 DEF Rounds
    <3>2. ASSUME NEW a \in runnable' \ runnablea'
          PROVE  groupthreads' + Threads[a] > totalthreads'
      <4>1. a \in runnable \ runnablea
        BY <2>1
      <4>2. Threads[a] \in Nat
        BY <1>1, <4>1, ThreadFacts DEF TypeOK
      <4>3. groupthreads + Threads[a] > totalthreads
        BY <1>1, <1>2, <4>1 DEF Rounds
      <4> QED BY <1>4, <2>1, <4>2, <4>3
    <3> QED BY <1>1, <3>1, <3>2 DEF Rounds, WaitsOnlyWhenFull
  <2> QED BY <1>1, <1>3, <2>2, <2>3, <2>5, <2>6, <2>7, <2>8 DEF IndInv, RandomInv
<1> QED BY <1>4, <1>5, <1>6

(* Poll: an instance that has ended gives back what it was given.           *)
LEMMA PollStep == IndInv /\ Poll => IndInv'
<1> SUFFICES ASSUME IndInv, Poll PROVE IndInv'
  OBVIOUS
<1> DEFINE job == app_statfile_list[i]
<1>1. /\ TypeOK /\ mode = "random" /\ RandomInv /\ ListOnce /\ pc = "poll" /\ pc' = "poll"
      /\ i' = i + 1
      /\ UNCHANGED <<mode, app_statfile_list, proc, pc, definedVars, totalthreads,
                     runnable, runnablea>>
  BY DEF IndInv, TypeOK, DefinedInv, Poll
<1>2. Tracking /\ Places /\ Account /\ Rounds
  BY <1>1 DEF RandomInv
<1>3. DefinedInv' /\ HalfOfGroupEnded' /\ pending' = Groups /\ mode' = "random"
  BY <1>1, RandomOnly DEF RandomInv, definedVars
<1>4. ListOnce'
  BY <1>1 DEF ListOnce
<1>5. /\ i \in 1 .. Len(app_statfile_list) /\ job \in ToSet(app_statfile_list)
      /\ job \in Jobs /\ job[1] = "R" /\ job[2] \in Instances /\ job = <<"R", job[2]>>
      /\ app_statfile_list \in Seq(Jobs)
  <2>1. i \in 1 .. Len(app_statfile_list) /\ app_statfile_list \in Seq(Jobs)
    BY <1>1 DEF TypeOK, Poll
  <2>2. job \in ToSet(app_statfile_list) /\ job \in Jobs
    BY <2>1 DEF ToSet
  <2> QED BY <1>2, <2>1, <2>2, JobFacts DEF Tracking
<1>6. job \notin toberemoved /\ job \in Followed
  BY <1>1, <1>2, <1>5 DEF Tracking, Followed
<1>7. CASE ~Ended(job)
  <2>1. UNCHANGED <<toberemoved, runnable_map, groupthreads>>
    BY <1>7 DEF Poll
  <2>2. TypeOK'
    BY <1>1, <2>1 DEF TypeOK, definedVars
  <2>3. Followed' = Followed
    BY <1>1, <2>1 DEF Followed
  <2>4. Tracking'
    BY <1>1, <1>2, <1>5, <2>1 DEF Tracking
  <2>5. Places' /\ Account'
    BY <1>1, <1>2, <2>1, <2>3 DEF Places, Account
  <2>6. Rounds'
    BY <1>1, <1>2, <2>1 DEF Rounds, WaitsOnlyWhenFull
  <2> QED BY <1>1, <1>3, <1>4, <2>2, <2>4, <2>5, <2>6 DEF IndInv, RandomInv
<1>8. CASE Ended(job)
  <2>1. /\ toberemoved' = toberemoved \cup {job}
        /\ runnable_map' = runnable_map \ {job[2]}
        /\ groupthreads' = groupthreads - Threads[job[2]]
    BY <1>8 DEF Poll
  <2>2. Followed' = Followed \ {job}
    BY <1>1, <2>1 DEF Followed
  <2>3. Followed \subseteq Jobs /\ IsFiniteSet(Followed) /\ IsFiniteSet(Followed \ {job})
    BY <1>1, FollowedFacts, FS_RemoveElement
  <2> HIDE DEF job
  <2>4. ThreadsOf(Followed) = Threads[job[2]] + ThreadsOf(Followed')
    <3>1. SumOver(JobThreads, Followed) =
              JobThreads[job] + SumOver(JobThreads, Followed \ {job})
      BY <1>6, <2>3, ThreadFacts, SumRemove
    <3> QED BY <1>5, <2>2, <3>1, ThreadFacts
  <2>5. ThreadsOf(Followed') \in Nat /\ Threads[job[2]] \in Nat
    <3>1. Followed \ {job} \subseteq Jobs
      BY <2>3
    <3>2. SumOver(JobThreads, Followed \ {job}) \in Nat
      BY <2>3, <3>1, ThreadFacts, SumType
    <3> QED BY <1>5, <2>2, <3>2, ThreadFacts
  <2>6. Account' /\ groupthreads' \in Nat
    <3>1. groupthreads' = ThreadsOf(Followed')
      BY <1>2, <2>1, <2>4, <2>5 DEF Account
    <3> QED BY <1>1, <1>2, <2>4, <2>5, <3>1 DEF Account, TypeOK
  <2>7. TypeOK'
    BY <1>1, <1>5, <2>1, <2>6 DEF TypeOK, definedVars
  <2>8. Tracking'
    <3>1. toberemoved' \subseteq ToSet(app_statfile_list')
      BY <1>1, <1>2, <1>5, <2>1 DEF Tracking
    <3>2. \A x \in toberemoved' : proc'[x] = "zero" /\ x[2] \notin runnable_map'
      BY <1>1, <1>2, <1>8, <2>1 DEF Tracking, Ended
    <3>3. ASSUME NEW k \in 1 .. Len(app_statfile_list'), app_statfile_list'[k] \in toberemoved'
          PROVE  k < i'
      <4>1. CASE app_statfile_list[k] = job
        BY <1>1, <1>5, <4>1 DEF ListOnce, job
      <4>2. CASE app_statfile_list[k] \in toberemoved
        BY <1>1, <1>2, <1>5, <4>2 DEF Tracking
      <4> QED BY <1>1, <2>1, <3>3, <4>1, <4>2
    <3> QED BY <1>1, <1>2, <3>1, <3>2, <3>3 DEF Tracking
  <2>9. Places'
    <3>1. job[2] \notin runnable
      BY <1>2, <1>5 DEF Places
    <3>2. ASSUME NEW x \in Followed' PROVE x[2] \in runnable_map'
      <4>1. x \in Followed /\ x # job /\ x \in Jobs
        BY <2>2, <2>3
      <4>2. x[1] = "R"
        BY <1>2, <4>1 DEF Tracking, Followed
      <4>3. x[2] # job[2]
        BY <1>5, <4>1, <4>2, JobFacts
      <4> QED BY <1>2, <2>1, <4>1, <4>3 DEF Places
    <3>3. ASSUME NEW a \in runnable_map' PROVE a \in runnable' \/ <<"R", a>> \in Followed'
      <4>1. a \in runnable_map /\ a # job[2]
        BY <2>1
      <4>2. <<"R", a>> # job
        BY <1>5, <4>1
      <4> QED BY <1>1, <1>2, <2>2, <4>1, <4>2 DEF Places
    <3>4. runnable' \subseteq runnable_map'
      BY <1>1, <1>2, <2>1, <3>1 DEF Places
    <3>5. \A x \in Jobs : proc'[x] \in {"running", "error"} => x \in Followed'
      BY <1>1, <1>2, <1>8, <2>2 DEF Places, Ended
    <3> QED BY <1>1, <1>2, <3>2, <3>3, <3>4, <3>5 DEF Places
  <2>10. Rounds'
    BY <1>1, <2>1 DEF Rounds, WaitsOnlyWhenFull
  <2> QED BY <1>1, <1>3, <1>4, <2>6, <2>7, <2>8, <2>9, <2>10 DEF IndInv, RandomInv
<1> QED BY <1>7, <1>8

(* RemoveEnded: the entries taken out of the list were not followed.        *)
LEMMA RemoveEndedStep == IndInv /\ RemoveEnded => IndInv'
<1> SUFFICES ASSUME IndInv, RemoveEnded PROVE IndInv'
  OBVIOUS
<1>1. /\ TypeOK /\ mode = "random" /\ RandomInv /\ ListOnce /\ pc = "poll"
      /\ pc' = (IF toberemoved' = {} THEN "rounds" ELSE "poll")
      /\ i > Len(app_statfile_list)
      /\ UNCHANGED <<mode, runnable_map, i, proc, definedVars, totalthreads,
                     groupthreads, runnable, runnablea>>
  BY DEF IndInv, TypeOK, DefinedInv, RemoveEnded
<1>2. Tracking /\ Places /\ Account /\ Rounds
  BY <1>1 DEF RandomInv
<1>3. DefinedInv' /\ HalfOfGroupEnded' /\ pending' = Groups /\ mode' = "random"
  BY <1>1, RandomOnly DEF RandomInv, definedVars
<1>4. PICK k \in 1 .. Len(app_statfile_list) :
          /\ app_statfile_list[k] \in toberemoved
          /\ app_statfile_list' = RemoveAt(app_statfile_list, k)
          /\ toberemoved' = toberemoved \ {app_statfile_list[k]}
  BY DEF RemoveEnded
<1> DEFINE job == app_statfile_list[k]
<1>5. /\ app_statfile_list' \in Seq(Jobs)
      /\ Len(app_statfile_list') = Len(app_statfile_list) - 1
      /\ ToSet(app_statfile_list') = ToSet(app_statfile_list) \ {job}
      /\ ListOnce'
  BY <1>1, <1>4, RemoveAtFacts DEF TypeOK, ListOnce
<1>6. Followed' = Followed
  BY <1>4, <1>5 DEF Followed
<1>7. TypeOK'
  BY <1>1, <1>4, <1>5 DEF TypeOK, definedVars
<1>8. Tracking'
  <2>1. toberemoved' \subseteq ToSet(app_statfile_list')
    BY <1>2, <1>4, <1>5 DEF Tracking
  <2>2. \A x \in 1 .. Len(app_statfile_list') : x < i'
    BY <1>1, <1>5 DEF TypeOK
  <2> QED BY <1>1, <1>2, <1>4, <1>5, <2>1, <2>2 DEF Tracking
<1>9. Places'
  BY <1>1, <1>2, <1>5, <1>6 DEF Places
<1>10. Account'
  BY <1>1, <1>2, <1>6 DEF Account
<1>11. Rounds'
  BY <1>1 DEF Rounds, WaitsOnlyWhenFull
<1> QED BY <1>1, <1>3, <1>5, <1>7, <1>8, <1>9, <1>10, <1>11 DEF IndInv, RandomInv

(* Sleep: the poll starts again, and nothing it passed was seen to end.     *)
LEMMA SleepStep == IndInv /\ Sleep => IndInv'
<1> SUFFICES ASSUME IndInv, Sleep PROVE IndInv'
  OBVIOUS
<1> USE DEF Sleep, randomVars
<1>1. TypeOK /\ mode = "random" /\ RandomInv
  BY DEF IndInv, TypeOK, DefinedInv
<1>2. Tracking /\ Account /\ Rounds
  BY <1>1 DEF RandomInv
<1>3. TypeOK'
  BY <1>1 DEF TypeOK, definedVars
<1>4. groupthreads <= totalthreads'
  BY <1>2 DEF Account
<1>5. /\ ListOnce' /\ Tracking' /\ Places' /\ Account'
      /\ DefinedInv' /\ HalfOfGroupEnded' /\ pending' = Groups
  BY <1>1, <1>4, SameProcesses
<1>6. Rounds'
  BY <1>2 DEF Rounds, WaitsOnlyWhenFull
<1> QED BY <1>1, <1>3, <1>5, <1>6 DEF IndInv, RandomInv

------------------------------------------------------------------------------
(* The defined mode.                                                        *)

(* The members of a group are pairwise different instances.                 *)
LEMMA MemberFacts ==
    ASSUME NEW g \in Groups
    PROVE  /\ Members[g] \in Seq(Instances)
           /\ Len(Members[g]) \in Nat
           /\ ToSet(Members[g]) \subseteq Instances
           /\ \A k \in 1 .. Len(Members[g]) :
                 Members[g][k] \in ToSet(Members[g]) /\ <<g, Members[g][k]>> \in Jobs
           /\ \A a \in ToSet(Members[g]) :
                 <<g, a>> \in Jobs /\ \E k \in 1 .. Len(Members[g]) : a = Members[g][k]
           /\ \A j, k \in 1 .. Len(Members[g]) : Members[g][j] = Members[g][k] => j = k
           /\ IsFiniteSet(ToSet(Members[g]))
           /\ Cardinality(ToSet(Members[g])) = Len(Members[g])
<1>1. Members[g] \in Seq(Instances)
  BY ParallelAssumption
<1>2. Len(Members[g]) \in Nat /\ DOMAIN Members[g] = 1 .. Len(Members[g])
  BY <1>1
<1>3. \A j, k \in 1 .. Len(Members[g]) : Members[g][j] = Members[g][k] => j = k
  BY <1>2, ParallelAssumption DEF IsInjective
<1>4. IsFiniteSet(ToSet(Members[g])) /\ Cardinality(ToSet(Members[g])) = Len(Members[g])
  BY <1>1, <1>3, ListCardinality
<1>5. ToSet(Members[g]) \subseteq Instances
  BY <1>1 DEF ToSet
<1>6. \A k \in 1 .. Len(Members[g]) : Members[g][k] \in ToSet(Members[g])
  BY <1>2 DEF ToSet
<1>7. \A a \in ToSet(Members[g]) : \E k \in 1 .. Len(Members[g]) : a = Members[g][k]
  BY <1>2 DEF ToSet
<1> QED BY <1>1, <1>2, <1>3, <1>4, <1>5, <1>6, <1>7, JobFacts

(* A member that has ended stays ended, so half of a group stays half.      *)
LEMMA HalfStays ==
    ASSUME NEW g \in Groups, HalfEnded(g),
           \A a \in ToSet(Members[g]) :
              /\ proc[<<g, a>>] = "zero" => proc'[<<g, a>>] = "zero"
              /\ proc[<<g, a>>] # "none" => proc'[<<g, a>>] # "none"
    PROVE  HalfEnded(g)'
<1> DEFINE member == ToSet(Members[g])
           ended == {a \in member : proc[<<g, a>>] = "zero"}
           after == {a \in member : proc'[<<g, a>>] = "zero"}
<1>1. IsFiniteSet(member) /\ after \in SUBSET member /\ ended \in SUBSET after
  BY MemberFacts
<1>2. IsFiniteSet(after)
  BY <1>1, FS_Subset
<1>3. Cardinality(ended) <= Cardinality(after)
  <2> HIDE DEF ended, after
  <2> QED BY <1>1, <1>2, FS_Subset
<1>4. IsFiniteSet(ended)
  BY <1>1, <1>2, FS_Subset
<1>5. Cardinality(ended) \in Nat /\ Cardinality(after) \in Nat /\ Cardinality(member) \in Nat
  BY <1>1, <1>2, <1>4, FS_CardinalityType
<1>6. /\ \A a \in member : proc[<<g, a>>] # "none"
      /\ 2 * Cardinality(ended) >= Cardinality(member)
  BY DEF HalfEnded
<1>7. \A a \in member : proc'[<<g, a>>] # "none"
  BY <1>6
<1>8. 2 * Cardinality(after) >= Cardinality(member)
  <2> HIDE DEF ended, after, member
  <2> QED BY <1>3, <1>5, <1>6
<1> QED BY <1>7, <1>8 DEF HalfEnded

(* No step of the defined mode needs the random mode's invariant.           *)
LEMMA DefinedOnly ==
    ASSUME IndInv, mode = "defined", UNCHANGED mode
    PROVE  RandomInv' /\ mode' = "defined" /\ TypeOK /\ ListOnce /\ DefinedInv /\ HalfOfGroupEnded
BY DEF IndInv, RandomInv

(* NextGroup: the group's jobs were never started.                          *)
LEMMA NextGroupStep ==
    ASSUME IndInv, NEW g \in Groups, NextGroup(g) PROVE IndInv'
<1> USE DEF NextGroup
<1>1. mode = "defined"
  BY DEF IndInv, TypeOK, RandomInv
<1>2. RandomInv' /\ mode' = "defined" /\ TypeOK /\ DefinedInv /\ HalfOfGroupEnded
  BY <1>1, DefinedOnly
<1>3. TypeOK'
  BY <1>2 DEF TypeOK, randomVars
<1>4. ListOnce'
  BY DEF ListOnce
<1>5. HalfOfGroupEnded'
  <2> SUFFICES ASSUME NEW h \in Groups \ pending', h # group' \/ pc' \in {"groups", "done"}
               PROVE  HalfEnded(h)'
    BY DEF HalfOfGroupEnded
  <2>1. h \in Groups \ pending
    OBVIOUS
  <2>2. HalfEnded(h)
    BY <1>2, <2>1 DEF HalfOfGroupEnded
  <2> QED BY <2>1, <2>2, HalfStays
<1>6. Starting'
  <2>1. \A k \in 1 .. Len(Members[g]) : proc[<<g, Members[g][k]>>] = "none"
    BY <1>1, <1>2, MemberFacts DEF DefinedInv
  <2> QED BY <2>1, MemberFacts DEF Starting
<1>7. DefinedInv'
  BY <1>1, <1>2, <1>6 DEF DefinedInv
<1> QED BY <1>2, <1>3, <1>4, <1>5, <1>7 DEF IndInv

(* LastGroup: no group is left.                                             *)
LEMMA LastGroupStep == IndInv /\ LastGroup => IndInv'
<1> SUFFICES ASSUME IndInv, LastGroup PROVE IndInv'
  OBVIOUS
<1> USE DEF LastGroup, randomVars, definedVars
<1>1. mode = "defined"
  BY DEF IndInv, TypeOK, RandomInv
<1>2. RandomInv' /\ mode' = "defined" /\ TypeOK /\ ListOnce /\ DefinedInv /\ HalfOfGroupEnded
  BY <1>1, DefinedOnly
<1>3. TypeOK' /\ ListOnce'
  BY <1>2 DEF TypeOK, ListOnce
<1>4. DefinedInv'
  BY <1>1, <1>2 DEF DefinedInv
<1>5. HalfOfGroupEnded'
  BY <1>2 DEF HalfOfGroupEnded, HalfEnded
<1> QED BY <1>2, <1>3, <1>4, <1>5 DEF IndInv

(* StartMember: the next member is started for the first time.              *)
LEMMA StartMemberStep == IndInv /\ StartMember => IndInv'
<1> SUFFICES ASSUME IndInv, StartMember PROVE IndInv'
  OBVIOUS
<1> DEFINE appid == Members[group][started + 1]
           job == <<group, appid>>
<1>1. /\ mode = "defined" /\ pc = "members" /\ started < Len(Members[group])
      /\ UNCHANGED <<mode, runnable_map, i, randomVars, pending, group>>
  BY DEF IndInv, TypeOK, RandomInv, StartMember
<1>2. RandomInv' /\ mode' = "defined" /\ TypeOK /\ ListOnce /\ DefinedInv /\ HalfOfGroupEnded
  BY <1>1, DefinedOnly
<1>3. group \in Groups /\ Starting
  BY <1>1, <1>2 DEF DefinedInv
<1>4. started \in Nat /\ started + 1 \in 1 .. Len(Members[group])
  BY <1>1, <1>2, <1>3, MemberFacts DEF TypeOK
<1>5. job \in Jobs /\ proc[job] = "none" /\ appid \in Instances
  BY <1>3, <1>4, MemberFacts DEF Starting
<1>6. CASE appid \notin runnable_map
  <2>1. pc' = "KeyError" /\ UNCHANGED <<proc, app_statfile_list, started>>
    BY <1>6 DEF StartMember
  <2>2. TypeOK' /\ ListOnce'
    BY <1>1, <1>2, <2>1 DEF TypeOK, ListOnce, randomVars
  <2>3. DefinedInv'
    BY <1>1, <1>2, <2>1 DEF DefinedInv
  <2>4. HalfOfGroupEnded'
    BY <1>1, <1>2, <2>1 DEF HalfOfGroupEnded, HalfEnded
  <2> QED BY <1>2, <2>2, <2>3, <2>4 DEF IndInv
<1>7. CASE appid \in runnable_map
  <2>1. /\ proc' = [proc EXCEPT ![job] = "running"]
        /\ app_statfile_list' = Append(app_statfile_list, job)
        /\ started' = started + 1 /\ pc' = "members"
    BY <1>1, <1>7 DEF StartMember, Start
  <2>2. job \notin ToSet(app_statfile_list)
    <3> SUFFICES ASSUME job \in ToSet(app_statfile_list) PROVE FALSE
      OBVIOUS
    <3>1. PICK k \in 1 .. started : job = app_statfile_list[k]
      BY <1>2, <1>3 DEF TypeOK, Starting, ToSet
    <3>2. job = <<group, Members[group][k]>>
      BY <1>3, <3>1 DEF Starting
    <3>3. Members[group][started + 1] = Members[group][k]
      BY <3>2
    <3>4. k = started + 1
      BY <1>3, <1>4, <3>3, MemberFacts
    <3> QED BY <1>4, <3>4
  <2> HIDE DEF job
  <2>3. /\ app_statfile_list' \in Seq(Jobs) /\ Len(app_statfile_list') = started + 1
        /\ ListOnce'
        /\ \A k \in 1 .. started : app_statfile_list'[k] = app_statfile_list[k]
        /\ app_statfile_list'[started + 1] = job
    <3>1. app_statfile_list \in Seq(Jobs) /\ Len(app_statfile_list) = started
      BY <1>2, <1>3 DEF TypeOK, Starting
    <3>2. /\ app_statfile_list' \in Seq(Jobs) /\ Len(app_statfile_list') = started + 1
          /\ ListOnce'
      BY <1>2, <1>5, <2>1, <2>2, <3>1, AppendFacts DEF ListOnce
    <3> QED BY <1>5, <2>1, <3>1, <3>2, AppendProperties
  <2>4. TypeOK'
    BY <1>1, <1>2, <1>5, <2>1, <2>3 DEF TypeOK, randomVars
  <2>5. Starting'
    <3>1. ASSUME NEW k \in 1 .. Len(Members[group])
          PROVE  /\ k # started + 1 => /\ proc'[<<group, Members[group][k]>>] =
                                          proc[<<group, Members[group][k]>>]
                                       /\ <<group, Members[group][k]>> # job
                 /\ k = started + 1 => /\ <<group, Members[group][k]>> = job
                                       /\ proc'[job] = "running"
      <4>1. k = started + 1 => <<group, Members[group][k]>> = job
        BY DEF job
      <4>2. ASSUME k # started + 1 PROVE <<group, Members[group][k]>> # job
        <5>1. Members[group][k] # Members[group][started + 1]
          BY <1>3, <1>4, <4>2, MemberFacts
        <5> QED BY <5>1 DEF job
      <4>3. <<group, Members[group][k]>> \in Jobs
        BY <1>3, MemberFacts
      <4> QED BY <1>2, <1>5, <2>1, <4>1, <4>2, <4>3 DEF TypeOK
    <3>2. started' <= Len(Members[group'])
      BY <1>1, <1>4, <2>1
    <3>3. ASSUME NEW k \in 1 .. started'
          PROVE  /\ app_statfile_list'[k] = <<group', Members[group'][k]>>
                 /\ proc'[<<group', Members[group'][k]>>] # "none"
      <4>1. k \in 1 .. Len(Members[group]) /\ (k = started + 1 \/ k \in 1 .. started)
        BY <1>4, <2>1
      <4> QED BY <1>1, <1>3, <1>4, <2>3, <3>1, <4>1 DEF Starting
    <3>4. ASSUME NEW k \in started' + 1 .. Len(Members[group'])
          PROVE  proc'[<<group', Members[group'][k]>>] = "none"
      <4>1. /\ k \in 1 .. Len(Members[group]) /\ k # started + 1
            /\ k \in started + 1 .. Len(Members[group])
        BY <1>1, <1>3, <1>4, <2>1, MemberFacts
      <4> QED BY <1>1, <1>3, <3>1, <4>1 DEF Starting
    <3> QED BY <2>1, <2>3, <3>2, <3>3, <3>4 DEF Starting
  <2>6. ASSUME NEW g \in Groups \cup {"R"}, g # group, NEW a \in Instances
        PROVE  proc'[<<g, a>>] = proc[<<g, a>>]
    <3>1. <<g, a>> # job /\ <<g, a>> \in Jobs
      BY <2>6, JobFacts DEF job
    <3> QED BY <1>2, <2>1, <3>1 DEF TypeOK
  <2>7. DefinedInv'
    <3>1. ASSUME NEW g \in pending', NEW a \in Instances PROVE proc'[<<g, a>>] = "none"
      <4>1. g \in pending /\ g \in Groups /\ g # group
        BY <1>1, <1>2 DEF DefinedInv, TypeOK
      <4> QED BY <1>1, <1>2, <2>6, <4>1 DEF DefinedInv
    <3> QED BY <1>1, <1>2, <1>3, <2>1, <2>5, <3>1 DEF DefinedInv
  <2>8. HalfOfGroupEnded'
    <3> SUFFICES ASSUME NEW g \in Groups \ pending', g # group' \/ pc' \in {"groups", "done"}
                 PROVE  HalfEnded(g)'
      BY DEF HalfOfGroupEnded
    <3>1. g # group /\ g \in Groups \ pending
      BY <1>1, <2>1
    <3>2. HalfEnded(g)
      BY <1>2, <3>1 DEF HalfOfGroupEnded
    <3>3. \A a \in ToSet(Members[g]) : proc'[<<g, a>>] = proc[<<g, a>>]
      BY <2>6, <3>1, MemberFacts
    <3> QED BY <3>1, <3>2, <3>3, HalfStays
  <2> QED BY <1>2, <2>3, <2>4, <2>7, <2>8 DEF IndInv
<1> QED BY <1>6, <1>7

(* AllStarted: every member is in the list.                                 *)
LEMMA AllStartedStep == IndInv /\ AllStarted => IndInv'
<1> SUFFICES ASSUME IndInv, AllStarted PROVE IndInv'
  OBVIOUS
<1> USE DEF AllStarted, randomVars, definedVars
<1>1. mode = "defined"
  BY DEF IndInv, TypeOK, RandomInv
<1>2. RandomInv' /\ mode' = "defined" /\ TypeOK /\ ListOnce /\ DefinedInv /\ HalfOfGroupEnded
  BY <1>1, DefinedOnly
<1>3. group \in Groups /\ Starting
  BY <1>1, <1>2 DEF DefinedInv
<1>4. TypeOK' /\ ListOnce'
  BY <1>2 DEF TypeOK, ListOnce
<1>5. ASSUME NEW a \in ToSet(Members[group])
      PROVE  proc[<<group, a>>] # "none" /\ <<group, a>> \in ToSet(app_statfile_list)
  <2>1. PICK k \in 1 .. started : a = Members[group][k]
    BY <1>3, MemberFacts
  <2>2. app_statfile_list[k] = <<group, a>> /\ proc[<<group, a>>] # "none"
    BY <1>3, <2>1 DEF Starting
  <2>3. app_statfile_list \in Seq(Jobs) /\ k \in 1 .. Len(app_statfile_list)
    BY <1>2, <1>3, <2>1 DEF TypeOK, Starting
  <2> QED BY <2>2, <2>3 DEF ToSet
<1>6. Len(app_statfile_list) + 1 - 1 <= Len(Members[group])
  BY <1>2, <1>3, MemberFacts DEF Starting, TypeOK
<1>7. Waiting'
  BY <1>5, <1>6 DEF Waiting
<1>8. DefinedInv'
  BY <1>1, <1>2, <1>3, <1>7 DEF DefinedInv
<1>9. HalfOfGroupEnded'
  BY <1>2 DEF HalfOfGroupEnded, HalfEnded
<1> QED BY <1>2, <1>4, <1>8, <1>9 DEF IndInv

(* PollMember: an entry is popped and the iteration is one place further,   *)
(* or it starts anew.                                                       *)
LEMMA PollMemberStep == IndInv /\ PollMember => IndInv'
<1> SUFFICES ASSUME IndInv, PollMember PROVE IndInv'
  OBVIOUS
<1>1. /\ mode = "defined" /\ pc = "wait" /\ i <= Len(app_statfile_list)
      /\ UNCHANGED <<mode, runnable_map, proc, pc, randomVars, definedVars>>
  BY DEF IndInv, TypeOK, RandomInv, PollMember
<1>2. RandomInv' /\ mode' = "defined" /\ TypeOK /\ ListOnce /\ DefinedInv /\ HalfOfGroupEnded
  BY <1>1, DefinedOnly
<1>3. group \in Groups /\ Waiting
  BY <1>1, <1>2 DEF DefinedInv
<1>4. /\ i \in 1 .. Len(app_statfile_list) /\ app_statfile_list \in Seq(Jobs)
      /\ Len(app_statfile_list) \in Nat /\ Len(Members[group]) \in Nat
  BY <1>1, <1>2, <1>3, MemberFacts DEF TypeOK
<1>5. HalfOfGroupEnded'
  BY <1>1, <1>2 DEF HalfOfGroupEnded, HalfEnded, definedVars
<1>6. Waiting' /\ i' \in Nat \ {0} /\ app_statfile_list' \in Seq(Jobs) /\ ListOnce'
  <2>1. CASE ~Ended(app_statfile_list[i])
    <3>1. i' = 1 /\ app_statfile_list' = app_statfile_list
      BY <2>1 DEF PollMember
    <3>2. Len(app_statfile_list') + i' - 1 <= Len(Members[group'])
      BY <1>1, <1>3, <1>4, <3>1 DEF Waiting, definedVars
    <3> QED BY <1>1, <1>2, <1>3, <1>4, <3>1, <3>2 DEF Waiting, ListOnce, definedVars
  <2>2. CASE Ended(app_statfile_list[i])
    <3>1. i' = i + 1 /\ app_statfile_list' = RemoveAt(app_statfile_list, i)
      BY <2>2 DEF PollMember
    <3>2. /\ app_statfile_list' \in Seq(Jobs)
          /\ Len(app_statfile_list') = Len(app_statfile_list) - 1
          /\ ToSet(app_statfile_list') = ToSet(app_statfile_list) \ {app_statfile_list[i]}
          /\ ListOnce'
      BY <1>2, <1>4, <3>1, RemoveAtFacts DEF ListOnce
    <3>3. Len(app_statfile_list') + i' - 1 <= Len(Members[group'])
      BY <1>1, <1>3, <1>4, <3>1, <3>2 DEF Waiting, definedVars
    <3>4. ASSUME NEW a \in ToSet(Members[group'])
          PROVE  /\ proc'[<<group', a>>] # "none"
                 /\ proc'[<<group', a>>] = "zero" \/ <<group', a>> \in ToSet(app_statfile_list')
      BY <1>1, <1>3, <2>2, <3>2 DEF Waiting, Ended, definedVars
    <3> QED BY <1>4, <3>1, <3>2, <3>3, <3>4 DEF Waiting
  <2> QED BY <2>1, <2>2
<1>7. TypeOK'
  BY <1>1, <1>2, <1>6 DEF TypeOK, randomVars, definedVars
<1>8. DefinedInv'
  BY <1>1, <1>2, <1>6 DEF DefinedInv, definedVars
<1> QED BY <1>2, <1>5, <1>6, <1>7, <1>8 DEF IndInv

(* The group's members outside the list have ended: when the iteration has  *)
(* passed the end of the list they are at least half.                       *)
LEMMA HalfWhenPassed ==
    ASSUME TypeOK, ListOnce, group \in Groups, Waiting, i > Len(app_statfile_list)
    PROVE  HalfEnded(group)
<1> DEFINE member == ToSet(Members[group])
           ended == {a \in member : proc[<<group, a>>] = "zero"}
           left == member \ ended
           list == ToSet(app_statfile_list)
           entry == [a \in left |-> <<group, a>>]
<1>1. IsFiniteSet(member) /\ Cardinality(member) = Len(Members[group])
  BY MemberFacts
<1>2. ended \in SUBSET member /\ left \in SUBSET member
  OBVIOUS
<1>3. IsFiniteSet(ended) /\ IsFiniteSet(left)
  <2> HIDE DEF member, ended, left
  <2> QED BY <1>1, <1>2, FS_Subset
<1>4. IsFiniteSet(list) /\ Cardinality(list) = Len(app_statfile_list)
  BY ListCardinality DEF TypeOK, ListOnce
<1>5. entry \in Injection(left, list)
  BY DEF Waiting, Injection, IsInjective
<1>6. Cardinality(left) <= Cardinality(list)
  <2> HIDE DEF left, list, entry
  <2> QED BY <1>4, <1>5, FS_Injection
<1>7. Cardinality(member) = Cardinality(ended) + Cardinality(left)
  <2>1. member = ended \cup left /\ ended \cap left = {}
    OBVIOUS
  <2> HIDE DEF member, ended, left
  <2>2. Cardinality(ended \cup left) =
            Cardinality(ended) + Cardinality(left) - Cardinality(ended \cap left)
    BY <1>3, FS_Union
  <2>3. Cardinality(ended) \in Nat /\ Cardinality(left) \in Nat
    BY <1>3, FS_CardinalityType
  <2>4. Cardinality(ended \cap left) = 0
    BY <2>1, FS_EmptySet
  <2>5. Cardinality(ended \cup left) = Cardinality(ended) + Cardinality(left)
    BY <2>2, <2>3, <2>4
  <2> QED BY <2>1, <2>5
<1>8. 2 * Cardinality(ended) >= Cardinality(member)
  <2>1. /\ Len(app_statfile_list) \in Nat /\ i \in Nat /\ Len(Members[group]) \in Nat
        /\ Cardinality(ended) \in Nat /\ Cardinality(left) \in Nat
    BY <1>3, FS_CardinalityType, MemberFacts DEF TypeOK
  <2>2. Len(app_statfile_list) + i - 1 <= Len(Members[group])
    BY DEF Waiting
  <2> HIDE DEF member, ended, left, list
  <2> QED BY <1>1, <1>4, <1>6, <1>7, <2>1, <2>2
<1> QED BY <1>8 DEF Waiting, HalfEnded

(* GroupExecCompleted: the group is given up with half of it ended.         *)
LEMMA GroupExecCompletedStep == IndInv /\ GroupExecCompleted => IndInv'
<1> SUFFICES ASSUME IndInv, GroupExecCompleted PROVE IndInv'
  OBVIOUS
<1> USE DEF GroupExecCompleted, randomVars, definedVars
<1>1. mode = "defined"
  BY DEF IndInv, TypeOK, RandomInv
<1>2. RandomInv' /\ mode' = "defined" /\ TypeOK /\ ListOnce /\ DefinedInv /\ HalfOfGroupEnded
  BY <1>1, DefinedOnly
<1>3. HalfEnded(group)
  BY <1>1, <1>2, HalfWhenPassed DEF DefinedInv
<1>4. TypeOK' /\ ListOnce'
  BY <1>2 DEF TypeOK, ListOnce
<1>5. DefinedInv'
  BY <1>1, <1>2 DEF DefinedInv
<1>6. HalfOfGroupEnded'
  BY <1>2, <1>3 DEF HalfOfGroupEnded, HalfEnded
<1> QED BY <1>2, <1>4, <1>5, <1>6 DEF IndInv

------------------------------------------------------------------------------
(* Exit: the end of a process is seen by the polls only.                    *)
LEMMA ExitStep == ASSUME IndInv, NEW job \in Jobs, Exit(job) PROVE IndInv'
<1>1. TypeOK /\ ListOnce /\ RandomInv /\ DefinedInv /\ HalfOfGroupEnded
  BY DEF IndInv
<1>2. PICK status \in {"zero", "error"} : proc' = [proc EXCEPT ![job] = status]
  BY DEF Exit
<1>3. /\ proc[job] = "running" /\ proc'[job] \in {"zero", "error"}
      /\ \A x \in Jobs : x # job => proc'[x] = proc[x]
  BY <1>1, <1>2 DEF Exit, TypeOK
<1>4. UNCHANGED <<mode, runnable_map, app_statfile_list, i, pc, totalthreads, groupthreads,
                  runnable, runnablea, toberemoved, pending, group, started>>
  BY DEF Exit, randomVars, definedVars
<1>5. TypeOK' /\ ListOnce'
  BY <1>1, <1>2, <1>4 DEF TypeOK, ListOnce
<1>6. ASSUME mode = "random" PROVE Tracking' /\ Places' /\ Account' /\ Rounds'
  <2>1. Tracking /\ Places /\ Account /\ Rounds
    BY <1>1, <1>6 DEF RandomInv
  <2>2. Followed' = Followed
    BY <1>4 DEF Followed
  <2>3. Tracking'
    <3>1. \A x \in toberemoved : x # job /\ x \in Jobs
      BY <1>1, <1>3, <2>1 DEF Tracking, TypeOK
    <3> QED BY <1>3, <1>4, <2>1, <3>1 DEF Tracking
  <2>4. Places'
    <3>1. \A a \in runnable : <<"R", a>> \in Jobs /\ <<"R", a>> # job
      BY <1>1, <1>3, <2>1, JobFacts DEF Places, TypeOK
    <3>2. \A x \in Jobs : proc'[x] \in {"running", "error"} => x \in Followed
      BY <1>3, <2>1 DEF Places
    <3> QED BY <1>3, <1>4, <2>1, <2>2, <3>1, <3>2 DEF Places
  <2>5. Account'
    BY <1>4, <2>1, <2>2 DEF Account
  <2>6. Rounds'
    BY <1>4, <2>1 DEF Rounds, WaitsOnlyWhenFull
  <2> QED BY <2>3, <2>4, <2>5, <2>6
<1>7. RandomInv'
  BY <1>1, <1>4, <1>6 DEF RandomInv
<1>8. ASSUME NEW x \in Jobs
      PROVE  /\ proc[x] = "none" <=> proc'[x] = "none"
             /\ proc[x] = "zero" => proc'[x] = "zero"
  BY <1>3
<1>9. ASSUME NEW g \in Groups, HalfEnded(g) PROVE HalfEnded(g)'
  <2>1. \A a \in ToSet(Members[g]) : <<g, a>> \in Jobs
    BY MemberFacts
  <2> QED BY <1>8, <1>9, <2>1, HalfStays
<1>10. HalfOfGroupEnded'
  BY <1>1, <1>4, <1>9 DEF HalfOfGroupEnded
<1>11. ASSUME mode = "defined" PROVE DefinedInv'
  <2>1. \A g \in pending' : \A a \in Instances : proc'[<<g, a>>] = "none"
    BY <1>1, <1>4, <1>8, <1>11, JobFacts DEF DefinedInv, TypeOK
  <2>2. ASSUME pc = "members" PROVE Starting'
    <3>1. group \in Groups /\ Starting
      BY <1>1, <1>11, <2>2 DEF DefinedInv
    <3>2. /\ \A k \in 1 .. Len(Members[group]) : <<group, Members[group][k]>> \in Jobs
          /\ started \in Nat /\ Len(Members[group]) \in Nat
      BY <1>1, <3>1, MemberFacts DEF TypeOK
    <3>3. \A k \in 1 .. started : k \in 1 .. Len(Members[group])
      BY <3>1, <3>2 DEF Starting
    <3>4. \A k \in started + 1 .. Len(Members[group]) : k \in 1 .. Len(Members[group])
      BY <3>2
    <3> QED BY <1>4, <1>8, <3>1, <3>2, <3>3, <3>4 DEF Starting
  <2>3. ASSUME pc = "wait" PROVE Waiting'
    <3>1. group \in Groups /\ Waiting
      BY <1>1, <1>11, <2>3 DEF DefinedInv
    <3>2. \A a \in ToSet(Members[group]) : <<group, a>> \in Jobs
      BY <3>1, MemberFacts
    <3> QED BY <1>4, <1>8, <3>1, <3>2 DEF Waiting
  <2> QED BY <1>1, <1>4, <1>11, <2>1, <2>2, <2>3 DEF DefinedInv
<1>12. DefinedInv'
  BY <1>4, <1>11 DEF DefinedInv
<1> QED BY <1>5, <1>7, <1>10, <1>12 DEF IndInv

(* A step that changes nothing.                                             *)
LEMMA StutterStep == IndInv /\ UNCHANGED vars => IndInv'
<1> SUFFICES ASSUME IndInv, UNCHANGED vars PROVE IndInv'
  OBVIOUS
<1> USE DEF vars, randomVars, definedVars
<1>1. TypeOK' /\ ListOnce'
  BY DEF IndInv, TypeOK, ListOnce
<1>2. HalfOfGroupEnded'
  BY DEF IndInv, HalfOfGroupEnded, HalfEnded
<1>3. DefinedInv'
  BY DEF IndInv, DefinedInv, Starting, Waiting
<1>4. Followed' = Followed
  BY DEF Followed
<1>5. Tracking = Tracking' /\ Places = Places' /\ Rounds = Rounds'
  BY <1>4 DEF Tracking, Places, Rounds, WaitsOnlyWhenFull
<1>6. Account => Account'
  BY <1>4 DEF Account
<1>7. RandomInv'
  BY <1>5, <1>6 DEF IndInv, RandomInv
<1> QED BY <1>1, <1>2, <1>3, <1>7 DEF IndInv

(* The invariant is inductive: one lemma for each action of Next.           *)
LEMMA NextIndInv == IndInv /\ [Next]_vars => IndInv'
BY ChooseLimitStep, NewRoundStep, ConsiderStep, ConsiderNoThreadsStep, StartPollStep, PollStep, RemoveEndedStep,
   SleepStep, FinishStep, NextGroupStep, LastGroupStep, StartMemberStep, AllStartedStep,
   PollMemberStep, GroupExecCompletedStep, ExitStep, StutterStep
   DEF Next, Script, Random, Defined

(* Every reachable state of bin/parallel satisfies the invariant.           *)
THEOREM IndInvHolds == Spec => []IndInv
<1>1. Init => IndInv
  BY InitIndInv
<1>2. IndInv /\ [Next]_vars => IndInv'
  BY NextIndInv
<1> QED BY <1>1, <1>2, PTL DEF Spec

(* The counter groupthreads of main is the number of threads of the         *)
(* instances that are followed, the running processes never use more than   *)
(* the limit, and the final warning is never logged.                        *)
THEOREM ThreadsAreAccounted == Spec => []ThreadsAccounted
<1>1. IndInv => ThreadsAccounted
  <2> SUFFICES ASSUME IndInv, mode = "random"
               PROVE  /\ groupthreads = ThreadsOf(Followed) /\ Running \subseteq Followed
                      /\ groupthreads <= totalthreads /\ pc # "warned"
    BY DEF IndInv, ThreadsAccounted
  <2> QED BY DEF IndInv, RandomInv, Account, Places, Running
<1> QED BY <1>1, IndInvHolds, PTL

(* While the random mode polls, no instance that is not started would fit.  *)
THEOREM WaitsWhenFull == Spec => []WaitsOnlyWhenFull
<1>1. IndInv => WaitsOnlyWhenFull
  BY DEF IndInv, TypeOK, RandomInv, DefinedInv, Rounds, WaitsOnlyWhenFull
<1> QED BY <1>1, IndInvHolds, PTL

(* main returns from the random mode with every instance run to its end.    *)
THEOREM ReturnsComplete == Spec => []ReturnIsComplete
<1>1. IndInv => ReturnIsComplete
  <2> SUFFICES ASSUME IndInv, mode = "random", pc = "done", totalthreads > 0
               PROVE  runnable = {} /\ \A job \in Jobs : proc[job] \in {"none", "zero"}
    BY DEF ReturnIsComplete
  <2>1. TypeOK /\ Places /\ runnable_map = {}
    BY DEF IndInv, RandomInv, Rounds
  <2>2. Followed = {}
    BY <2>1 DEF Places
  <2> QED BY <2>1, <2>2 DEF Places, TypeOK
<1> QED BY <1>1, IndInvHolds, PTL

(* The defined mode goes on to the next group with at least half of a group *)
(* ended, for groups of any size.                                           *)
THEOREM HalfOfEveryGroup == Spec => []HalfOfGroupEnded
<1>1. IndInv => HalfOfGroupEnded
  BY DEF IndInv
<1> QED BY <1>1, IndInvHolds, PTL

(* No job is started a second time.                                         *)
THEOREM JobsRunOnce == Spec => RunsOnce
<1> DEFINE Once == \A job \in Jobs :
                      proc[job] \in {"zero", "error"} => proc'[job] = proc[job]
<1>1. IndInv /\ [Next]_vars => [Once]_vars
  <2> SUFFICES ASSUME IndInv, Next, NEW job \in Jobs, proc[job] \in {"zero", "error"}
               PROVE  proc'[job] = proc[job]
    OBVIOUS
  <2>1. TypeOK /\ RandomInv /\ DefinedInv
    BY DEF IndInv
  <2>2. ASSUME NEW appid \in Instances, Consider(appid) PROVE proc'[job] = proc[job]
    <3>1. mode = "random" /\ appid \in runnable /\ <<"R", appid>> \in Jobs
      BY <2>1, <2>2, JobFacts DEF Consider, TypeOK, RandomInv, DefinedInv, Rounds
    <3>2. proc[<<"R", appid>>] = "none"
      BY <2>1, <3>1 DEF RandomInv, Places
    <3> QED BY <2>1, <2>2, <3>1, <3>2 DEF Consider, Start, TypeOK
  <2>3. ASSUME StartMember PROVE proc'[job] = proc[job]
    <3>1. mode = "defined" /\ group \in Groups /\ Starting /\ started < Len(Members[group])
      BY <2>1, <2>3 DEF StartMember, TypeOK, RandomInv, DefinedInv
    <3>2. started + 1 \in started + 1 .. Len(Members[group]) /\ started + 1 \in 1 .. Len(Members[group])
      BY <2>1, <3>1, MemberFacts DEF TypeOK
    <3>3. proc[<<group, Members[group][started + 1]>>] = "none"
      BY <3>1, <3>2 DEF Starting
    <3>4. <<group, Members[group][started + 1]>> \in Jobs
      BY <3>1, <3>2, MemberFacts
    <3> QED BY <2>1, <2>3, <3>3, <3>4 DEF StartMember, Start, TypeOK
  <2>4. ASSUME NEW x \in Jobs, Exit(x) PROVE proc'[job] = proc[job]
    BY <2>1, <2>4 DEF Exit, TypeOK
  <2>5. ASSUME NEW g \in Groups, NextGroup(g) PROVE proc'[job] = proc[job]
    BY <2>5 DEF NextGroup
  <2> QED BY <2>2, <2>3, <2>4, <2>5
          DEF Next, Script, Random, Defined, ChooseLimit, NewRound, ConsiderNoThreads, StartPoll, Poll, RemoveEnded,
              Sleep, Finish, LastGroup, AllStarted, PollMember, GroupExecCompleted
<1>2. Spec => [][Once]_vars
  BY <1>1, IndInvHolds, PTL DEF Spec
<1> QED BY <1>2 DEF RunsOnce
==============================================================================
