------------------------ MODULE ParallelDmtcpProofs --------------------------
(***************************************************************************)
(* IndInv of ParallelDmtcp is an inductive invariant, for any set of       *)
(* applications, any number of processors, any memory, rule and slice.     *)
(***************************************************************************)
EXTENDS ParallelDmtcp, CollectionTheorems

------------------------------------------------------------------------------
(* The conjuncts of IndInv that a step can disturb only by changing what is *)
(* tracked, filed, known or alive.                                          *)
USE DEF Here, Known, Ended

(* The first state of the scheduler.                                        *)
LEMMA InitIndInv == Init => IndInv
<1> SUFFICES ASSUME Init PROVE IndInv
  OBVIOUS
<1> USE SchedulerAssumption DEF Init
<1>1. TypeOK
  <2>1. flag \in BOOLEAN
    BY Zenon
  <2>2. file \in [Dirs -> [Apps -> Contents]]
    BY DEF Contents
  <2>3. proc \in [Apps -> ProcStates]
    BY DEF ProcStates
  <2>4. running_pid_port \in Seq(Apps)
    OBVIOUS
  <2> QED BY <2>1, <2>2, <2>3, <2>4 DEF TypeOK
<1>2. Tracked = {}
  BY DEF Tracked, ToSet
<1>3. \A d \in Dirs : \A a \in Apps : file[d][a] = "absent"
  OBVIOUS
<1>4. TrackedHasFile /\ TrackedOnce /\ OnePlace /\ KnownHasPlace /\ CompletedHasEnded
  BY <1>2, <1>3 DEF TrackedHasFile, TrackedOnce, OnePlace, KnownHasPlace, CompletedHasEnded, Dirs
<1>5. UnfollowedIsNoidea /\ KilledIsQueued /\ KilledIsOut /\ OSErrorNeedsNoidea /\ ExitIsComplete
  BY DEF UnfollowedIsNoidea, KilledIsQueued, KilledIsOut, OSErrorNeedsNoidea, ExitIsComplete
<1>6. Generation /\ LoopState
  BY <1>2, <1>3 DEF Generation, LoopState, Dirs
<1> QED BY <1>1, <1>4, <1>5, <1>6 DEF IndInv

(* What one os.rename does to the directories.                              *)
LEMMA RenameFacts ==
    ASSUME file \in [Dirs -> [Apps -> Contents]],
           NEW a \in Apps, NEW from \in Dirs, NEW to \in Dirs, from # to,
           Rename(a, from, to)
    PROVE  /\ file' \in [Dirs -> [Apps -> Contents]]
           /\ file'[to][a] = file[from][a]
           /\ file'[from][a] = "absent"
           /\ \A d \in Dirs : \A b \in Apps :
                b # a \/ d \notin {from, to} => file'[d][b] = file[d][b]
BY DEF Rename, Contents

(* What the scheduler follows is among its applications.                    *)
LEMMA TrackedInApps == running_pid_port \in Seq(Apps) => Tracked \subseteq Apps
BY DEF Tracked, ToSet

(* The entry under the iterator of stop_running leaves the list.            *)
LEMMA LeaveListFacts ==
    ASSUME IndInv, NEW d \in {"queued", "noidea"}, idx <= Len(running_pid_port),
           LeaveList(d)
    PROVE  LET a == running_pid_port[idx] IN
           /\ a \in Tracked /\ a \in Apps
           /\ pc' = "stop" /\ idx' = idx + 1
           /\ running_pid_port' \in Seq(Apps)
           /\ Tracked' = Tracked \ {a}
           /\ TrackedOnce'
           /\ file' \in [Dirs -> [Apps -> Contents]]
           /\ file'[d][a] # "absent" /\ file'["running"][a] = "absent"
           /\ \A e \in Dirs : \A b \in Apps :
                b # a \/ e \notin {"running", d} => file'[e][b] = file[e][b]
           /\ UNCHANGED <<flag, timer, app_stats_map, next_runnable, todo>>
<1> DEFINE a == running_pid_port[idx]
<1>1. idx \in 1 .. Len(running_pid_port) /\ running_pid_port \in Seq(Apps)
  BY DEF IndInv, TypeOK
<1>2. a \in Tracked /\ a \in Apps
  BY <1>1 DEF Tracked, ToSet
<1>3. file["running"][a] # "absent"
  BY <1>2 DEF IndInv, TrackedHasFile
<1>4. /\ pc' = "stop" /\ idx' = idx + 1
      /\ Rename(a, "running", d)
      /\ running_pid_port' = RemoveAt(running_pid_port, idx)
      /\ UNCHANGED <<flag, timer, app_stats_map, next_runnable, todo>>
  BY <1>3 DEF LeaveList
<1>5. \A j, k \in 1 .. Len(running_pid_port) :
        running_pid_port[j] = running_pid_port[k] => j = k
  BY DEF IndInv, TrackedOnce
<1>6. /\ running_pid_port' \in Seq(Apps)
      /\ Tracked' = Tracked \ {a}
      /\ TrackedOnce'
  BY <1>1, <1>4, <1>5, RemoveAtFacts DEF Tracked, TrackedOnce
<1>7. file \in [Dirs -> [Apps -> Contents]]
  BY DEF IndInv, TypeOK
<1> HIDE DEF a
<1>8. /\ file' \in [Dirs -> [Apps -> Contents]]
      /\ file'[d][a] = file["running"][a] /\ file'["running"][a] = "absent"
      /\ \A e \in Dirs : \A b \in Apps :
           b # a \/ e \notin {"running", d} => file'[e][b] = file[e][b]
  BY <1>2, <1>4, <1>7, RenameFacts DEF Dirs
<1> QED BY <1>2, <1>3, <1>4, <1>6, <1>8 DEF a

(* Leaving the list preserves IndInv, wherever the stat file goes.          *)
LEMMA LeaveListIndInv ==
    ASSUME IndInv, NEW d \in {"queued", "noidea"}, idx <= Len(running_pid_port),
           pc \in {"stop", "bcwait", "kill"}, LeaveList(d), UNCHANGED <<rule, writing>>,
           IF d = "noidea" THEN UNCHANGED proc
           ELSE /\ proc' = [proc EXCEPT ![running_pid_port[idx]] = "killed"]
                /\ running_pid_port[idx] \notin next_runnable
    PROVE  IndInv'
<1> DEFINE a == running_pid_port[idx]
<1>1. /\ a \in Tracked /\ a \in Apps
      /\ pc' = "stop" /\ idx' = idx + 1
      /\ running_pid_port' \in Seq(Apps)
      /\ Tracked' = Tracked \ {a}
      /\ TrackedOnce'
      /\ UNCHANGED <<rule, flag, timer, app_stats_map, next_runnable, todo, writing>>
  BY LeaveListFacts
<1>2. /\ file' \in [Dirs -> [Apps -> Contents]]
      /\ file'[d][a] # "absent" /\ file'["running"][a] = "absent"
      /\ \A e \in Dirs : \A b \in Apps :
           b # a \/ e \notin {"running", d} => file'[e][b] = file[e][b]
  BY LeaveListFacts
<1>3. /\ proc' \in [Apps -> ProcStates]
      /\ \A b \in Apps : b # a \/ d = "noidea" => proc'[b] = proc[b]
      /\ d = "queued" => proc'[a] = "killed"
  BY <1>1 DEF IndInv, TypeOK, ProcStates
<1> HIDE DEF a
<1>4. /\ Here("running")' = Here("running") \ {a}
      /\ Here(d)' = Here(d) \cup {a}
      /\ \A e \in Dirs \ {"running", d} : Here(e)' = Here(e)
  BY <1>1, <1>2 DEF Dirs
<1>5. Known' = Known
  BY <1>1
<1>6. a \notin Here("queued") \cup Here("completed") \cup Here("noidea")
  BY <1>1 DEF IndInv, OnePlace
<1>7. TypeOK'
  BY <1>1, <1>2, <1>3 DEF IndInv, TypeOK
<1>8. TrackedHasFile' /\ KilledIsQueued' /\ UnfollowedIsNoidea'
  <2>1. ASSUME NEW b \in Apps, b # a
        PROVE  /\ b \in Tracked' <=> b \in Tracked
               /\ proc'[b] = proc[b]
               /\ \A e \in Dirs : file'[e][b] = file[e][b]
    BY <2>1, <1>1, <1>2, <1>3
  <2>2. Tracked' \subseteq Apps /\ a \notin Tracked'
    <3>1. Tracked \subseteq Apps
      BY TrackedInApps DEF IndInv, TypeOK
    <3> QED BY <3>1, <1>1
  <2>3. TrackedHasFile'
    BY <2>1, <2>2 DEF IndInv, TrackedHasFile, Dirs
  <2>4. KilledIsQueued'
    <3>1. CASE d = "noidea"
      <4>1. proc[a] # "killed"
        BY <1>1, <1>6 DEF IndInv, KilledIsQueued
      <4> QED BY <3>1, <4>1, <1>3, <2>1 DEF IndInv, KilledIsQueued, Dirs
    <3>2. CASE d = "queued"
      BY <3>2, <1>2, <2>1 DEF IndInv, KilledIsQueued, Dirs
    <3> QED BY <3>1, <3>2
  <2>5. UnfollowedIsNoidea'
    <3>1. ASSUME NEW b \in Apps, proc'[b] \in {"boot", "restarting", "running"}
          PROVE  b \in Tracked' \cup Here("noidea")'
      <4>1. CASE b = a
        BY <3>1, <4>1, <1>1, <1>2, <1>3
      <4>2. CASE b # a
        BY <3>1, <4>2, <2>1 DEF IndInv, UnfollowedIsNoidea, Dirs
      <4> QED BY <4>1, <4>2
    <3> QED BY <3>1 DEF UnfollowedIsNoidea
  <2> QED BY <2>3, <2>4, <2>5
<1> HIDE DEF Here, Known
<1>9. OnePlace'
  BY <1>1, <1>4, <1>6 DEF IndInv, OnePlace, Dirs
<1>10. KnownHasPlace'
  BY <1>1, <1>4, <1>5 DEF IndInv, KnownHasPlace, Dirs
<1>11. CompletedHasEnded'
  BY <1>1, <1>3, <1>4, <1>5, <1>6 DEF IndInv, CompletedHasEnded, Dirs, Here
<1>12. Generation'
  BY <1>1, <1>4, <1>5 DEF IndInv, Generation, Dirs
<1>13. LoopState'
  BY <1>1, <1>5 DEF IndInv, LoopState
<1>14. OSErrorNeedsNoidea' /\ ExitIsComplete'
  BY <1>1 DEF OSErrorNeedsNoidea, ExitIsComplete
<1>15. KilledIsOut'
  <2>1. d = "queued" => a \notin next_runnable
    BY DEF a
  <2> QED BY <1>1, <1>3, <2>1 DEF IndInv, KilledIsOut
<1> QED BY <1>1, <1>7, <1>8, <1>9, <1>10, <1>11, <1>12, <1>13, <1>14, <1>15 DEF IndInv

(* IndInv is preserved by every step.                                       *)
LEMMA NextIndInv == IndInv /\ [Next]_vars => IndInv'
<1> SUFFICES ASSUME IndInv, [Next]_vars PROVE IndInv'
  OBVIOUS
<1> USE SchedulerAssumption
<1>t. UNCHANGED running_pid_port => Tracked' = Tracked
  BY DEF Tracked
<1>1. CASE GenerateDone
  BY <1>1, <1>t DEF GenerateDone, envVars, IndInv, TypeOK, TrackedHasFile, TrackedOnce, OnePlace, KnownHasPlace,
         CompletedHasEnded, UnfollowedIsNoidea, KilledIsQueued, KilledIsOut, Generation, LoopState,
         OSErrorNeedsNoidea, ExitIsComplete
<1>2. CASE LoopTest
  <2>1. CASE pc' = "clean"
    BY <1>2, <1>t, <2>1 DEF LoopTest, envVars, IndInv, TypeOK, TrackedHasFile, TrackedOnce, OnePlace, KnownHasPlace,
         CompletedHasEnded, UnfollowedIsNoidea, KilledIsQueued, KilledIsOut, Generation, LoopState,
         OSErrorNeedsNoidea, ExitIsComplete
  <2>2. CASE pc' = "exit"
    <3>1. Here("queued") = {} /\ Here("running") = {}
      BY <1>2, <2>2 DEF LoopTest
    <3>2. Tracked = {}
      BY <3>1 DEF IndInv, TypeOK, TrackedHasFile, Tracked, ToSet
    <3>3. ExitIsComplete'
      BY <1>2, <1>t, <3>1, <3>2 DEF LoopTest, envVars, IndInv, KnownHasPlace, Generation, ExitIsComplete
    <3> QED BY <1>2, <1>t, <2>2, <3>3 DEF LoopTest, envVars, IndInv, TypeOK, TrackedHasFile, TrackedOnce,
          OnePlace, KnownHasPlace, CompletedHasEnded, UnfollowedIsNoidea, KilledIsQueued, KilledIsOut,
          Generation, LoopState, OSErrorNeedsNoidea
  <2> QED BY <1>2, <2>1, <2>2 DEF LoopTest
<1>3. CASE CleanDone
  <2>1. timer' \in 0 .. SliceTicks /\ timer' < SliceTicks
    <3>1. timer = SliceTicks => timer % SliceTicks = 0
      BY DEF IndInv, TypeOK
    <3> QED BY <1>3, <3>1 DEF CleanDone, IndInv, TypeOK
  <2>2. pc' \in {"select", "sleep"} /\ flag' \in BOOLEAN
    BY <1>3, Zenon DEF CleanDone
  <2> QED BY <1>3, <1>t, <2>1, <2>2 DEF CleanDone, envVars, IndInv, TypeOK, TrackedHasFile, TrackedOnce, OnePlace, KnownHasPlace,
         CompletedHasEnded, UnfollowedIsNoidea, KilledIsQueued, KilledIsOut, Generation, LoopState,
         OSErrorNeedsNoidea, ExitIsComplete
<1>4. CASE StopKeep
  BY <1>4, <1>t DEF StopKeep, envVars, IndInv, TypeOK, TrackedHasFile, TrackedOnce, OnePlace, KnownHasPlace,
         CompletedHasEnded, UnfollowedIsNoidea, KilledIsQueued, KilledIsOut, Generation, LoopState,
         OSErrorNeedsNoidea, ExitIsComplete
<1>5. CASE StopCkpt
  BY <1>5, <1>t DEF StopCkpt, envVars, IndInv, TypeOK, TrackedHasFile, TrackedOnce, OnePlace, KnownHasPlace,
         CompletedHasEnded, UnfollowedIsNoidea, KilledIsQueued, KilledIsOut, Generation, LoopState,
         OSErrorNeedsNoidea, ExitIsComplete
<1>6. CASE CkptDone
  BY <1>6, <1>t DEF CkptDone, envVars, IndInv, TypeOK, TrackedHasFile, TrackedOnce, OnePlace, KnownHasPlace,
         CompletedHasEnded, UnfollowedIsNoidea, KilledIsQueued, KilledIsOut, Generation, LoopState,
         OSErrorNeedsNoidea, ExitIsComplete
<1>7. CASE StopDone
  BY <1>7, <1>t DEF StopDone, envVars, IndInv, TypeOK, TrackedHasFile, TrackedOnce, OnePlace, KnownHasPlace,
         CompletedHasEnded, UnfollowedIsNoidea, KilledIsQueued, KilledIsOut, Generation, LoopState,
         OSErrorNeedsNoidea, ExitIsComplete
<1>8. CASE StartDone
  BY <1>8, <1>t DEF StartDone, envVars, IndInv, TypeOK, TrackedHasFile, TrackedOnce, OnePlace, KnownHasPlace,
         CompletedHasEnded, UnfollowedIsNoidea, KilledIsQueued, KilledIsOut, Generation, LoopState,
         OSErrorNeedsNoidea, ExitIsComplete
<1>9. CASE Sleep
  BY <1>9, <1>t DEF Sleep, envVars, IndInv, TypeOK, TrackedHasFile, TrackedOnce, OnePlace, KnownHasPlace,
         CompletedHasEnded, UnfollowedIsNoidea, KilledIsQueued, KilledIsOut, Generation, LoopState,
         OSErrorNeedsNoidea, ExitIsComplete
<1>10. CASE RandomRule
  BY <1>10, <1>t DEF RandomRule, envVars, IndInv, TypeOK, TrackedHasFile, TrackedOnce, OnePlace, KnownHasPlace,
         CompletedHasEnded, UnfollowedIsNoidea, KilledIsQueued, KilledIsOut, Generation, LoopState,
         OSErrorNeedsNoidea, ExitIsComplete
<1>11. CASE \E idle \in 0 .. Cpus : GetNextRunnableMap(idle)
  <2>1. PICK idle \in 0 .. Cpus : GetNextRunnableMap(idle)
    BY <1>11
  <2>2. RuleChoices(idle) \subseteq SUBSET Known
    BY DEF RuleChoices, FixedRuleChoices, IdleRuleChoices, MaximalFitting
  <2>3. \/ next_runnable' \in RuleChoices(idle) /\ pc' = "stop"
        \/ UNCHANGED next_runnable /\ pc' = "KeyError"
    BY <2>1 DEF GetNextRunnableMap
  <2>4. /\ UNCHANGED <<rule, idx, flag, timer, running_pid_port, app_stats_map, todo, file,
                      proc, writing>>
        /\ pc = "refresh"
    BY <1>11, <2>1 DEF GetNextRunnableMap, envVars
  <2> QED BY <1>t, <2>2, <2>3, <2>4 DEF IndInv, TypeOK, TrackedHasFile, TrackedOnce, OnePlace, KnownHasPlace,
         CompletedHasEnded, UnfollowedIsNoidea, KilledIsQueued, KilledIsOut, Generation, LoopState,
         OSErrorNeedsNoidea, ExitIsComplete
<1>21. CASE ListRunning
  BY <1>21, <1>t DEF ListRunning, envVars, IndInv, TypeOK, TrackedHasFile, TrackedOnce, OnePlace, KnownHasPlace,
         CompletedHasEnded, UnfollowedIsNoidea, KilledIsQueued, KilledIsOut, Generation, LoopState,
         OSErrorNeedsNoidea, ExitIsComplete
<1>22. CASE \E a \in Apps : UpdateAppStatsMap(a)
  <2>1. PICK a \in Apps : UpdateAppStatsMap(a)
    BY <1>22
  <2>2. /\ pc = "refresh" /\ a \in todo
        /\ app_stats_map' = [app_stats_map EXCEPT ![a] = file["running"][a]]
        /\ todo' = todo \ {a}
        /\ UNCHANGED <<rule, pc, idx, flag, timer, running_pid_port, next_runnable, file,
                      proc, writing>>
    BY <1>22, <2>1 DEF UpdateAppStatsMap, envVars
  <2>3. a \in Here("running")
    BY <2>2 DEF IndInv, LoopState
  <2>4. /\ app_stats_map' \in [Apps -> {"none", "empty", "full"}]
        /\ Known' = Known \cup {a}
    BY <2>2, <2>3 DEF IndInv, TypeOK, Dirs, Contents
  <2>5. a \notin Here("completed")
    BY <2>3 DEF IndInv, KnownHasPlace, OnePlace
  <2>6. TypeOK' /\ TrackedHasFile' /\ TrackedOnce'
    BY <1>t, <2>2, <2>4 DEF IndInv, TypeOK, TrackedHasFile, TrackedOnce
  <2>7. \A d \in Dirs : Here(d)' = Here(d)
    BY <2>2
  <2> HIDE DEF Here, Known
  <2> QED BY <1>t, <2>2, <2>3, <2>4, <2>5, <2>6, <2>7
      DEF IndInv, OnePlace, KnownHasPlace, CompletedHasEnded, UnfollowedIsNoidea, KilledIsQueued,
          KilledIsOut, Generation, LoopState, OSErrorNeedsNoidea, ExitIsComplete, Dirs
<1>12. CASE StopNoCoordinator
  BY <1>12, LeaveListIndInv DEF StopNoCoordinator, envVars
<1>13. CASE StopLostCoordinator
  <2>1. idx <= Len(running_pid_port)
    BY <1>13 DEF StopLostCoordinator, IndInv, LoopState
  <2> QED BY <1>13, <2>1, LeaveListIndInv DEF StopLostCoordinator, envVars
<1>14. CASE StopKill
  <2>1. idx <= Len(running_pid_port) /\ running_pid_port[idx] \notin next_runnable
    BY <1>14 DEF StopKill, IndInv, LoopState
  <2> QED BY <1>14, <2>1, LeaveListIndInv DEF StopKill
<1>15. CASE CleanCompleted
  <2> DEFINE a == running_pid_port[idx]
  <2>1. idx \in 1 .. Len(running_pid_port) /\ a \in Tracked /\ a \in Apps
    BY <1>15 DEF CleanCompleted, IndInv, TypeOK, Tracked, ToSet
  <2>2. file["running"][a] # "absent"
    BY <2>1 DEF IndInv, TrackedHasFile
  <2>3. CASE proc[a] \notin Ended
    <3>1. UNCHANGED <<rule, pc, flag, timer, running_pid_port, app_stats_map,
                      next_runnable, todo, file, proc, writing>> /\ idx' = idx + 1 /\ pc = "clean"
      BY <1>15, <2>3 DEF CleanCompleted, envVars
    <3> QED BY <3>1, <1>t DEF IndInv, TypeOK, TrackedHasFile, TrackedOnce, OnePlace, KnownHasPlace,
         CompletedHasEnded, UnfollowedIsNoidea, KilledIsQueued, KilledIsOut, Generation, LoopState,
         OSErrorNeedsNoidea, ExitIsComplete
  <2>4. CASE proc[a] \in Ended
    <3>1. /\ Rename(a, "running", "completed")
          /\ running_pid_port' = RemoveAt(running_pid_port, idx)
          /\ app_stats_map' = [app_stats_map EXCEPT ![a] = "none"]
          /\ flag' = TRUE /\ idx' = idx + 1 /\ pc = "clean"
          /\ UNCHANGED <<rule, pc, timer, next_runnable, todo, proc, writing>>
      BY <1>15, <2>2, <2>4 DEF CleanCompleted, envVars
    <3>2. /\ running_pid_port' \in Seq(Apps)
          /\ Tracked' = Tracked \ {a}
          /\ TrackedOnce'
      <4>1. \A j, k \in 1 .. Len(running_pid_port) :
              running_pid_port[j] = running_pid_port[k] => j = k
        BY DEF IndInv, TrackedOnce
      <4> QED BY <2>1, <3>1, <4>1, RemoveAtFacts DEF Tracked, TrackedOnce, IndInv, TypeOK
    <3>3. /\ file' \in [Dirs -> [Apps -> Contents]]
          /\ file'["completed"][a] # "absent" /\ file'["running"][a] = "absent"
          /\ \A e \in Dirs : \A b \in Apps :
               b # a \/ e \notin {"running", "completed"} => file'[e][b] = file[e][b]
      BY <2>1, <2>2, <3>1, RenameFacts DEF Dirs, IndInv, TypeOK
    <3>4. Tracked' \subseteq Apps
      BY <3>2, TrackedInApps DEF IndInv, TypeOK
    <3> HIDE DEF a
    <3>5. /\ Here("running")' = Here("running") \ {a}
          /\ Here("completed")' = Here("completed") \cup {a}
          /\ Here("queued")' = Here("queued") /\ Here("noidea")' = Here("noidea")
      BY <2>1, <3>3 DEF Dirs
    <3>6. Known' = Known \ {a}
      BY <2>1, <3>1 DEF IndInv, TypeOK
    <3>7. a \notin Here("queued") \cup Here("completed") \cup Here("noidea")
      BY <2>1 DEF IndInv, OnePlace
    <3>8. flag' \in BOOLEAN
      BY <3>1, Zenon
    <3>9. TypeOK'
      BY <2>1, <3>1, <3>2, <3>3, <3>8 DEF IndInv, TypeOK
    <3>10. TrackedHasFile'
      BY <3>2, <3>3, <3>4 DEF IndInv, TrackedHasFile, Dirs
    <3>11. Tracked \subseteq Apps
      BY TrackedInApps DEF IndInv, TypeOK
    <3> HIDE DEF Here, Known
    <3>12. OnePlace' /\ KnownHasPlace' /\ CompletedHasEnded' /\ Generation'
      BY <2>1, <2>4, <3>1, <3>2, <3>5, <3>6, <3>7
      DEF IndInv, OnePlace, KnownHasPlace, CompletedHasEnded, Generation, TypeOK, Here
    <3>13. UnfollowedIsNoidea' /\ KilledIsQueued' /\ KilledIsOut'
      BY <2>1, <2>4, <3>1, <3>2, <3>5 DEF IndInv, UnfollowedIsNoidea, KilledIsQueued, KilledIsOut
    <3>14. LoopState' /\ OSErrorNeedsNoidea' /\ ExitIsComplete'
      BY <3>1 DEF IndInv, LoopState, OSErrorNeedsNoidea, ExitIsComplete
    <3> QED BY <3>2, <3>9, <3>10, <3>12, <3>13, <3>14 DEF IndInv
  <2> QED BY <2>3, <2>4
<1>16. CASE \E a \in Apps : GenerateTooShort(a)
  BY <1>16, <1>t DEF GenerateTooShort, envVars, IndInv, TypeOK, TrackedHasFile, TrackedOnce, OnePlace, KnownHasPlace,
         CompletedHasEnded, UnfollowedIsNoidea, KilledIsQueued, KilledIsOut, Generation, LoopState,
         OSErrorNeedsNoidea, ExitIsComplete
<1>17. CASE \E a \in Apps : GenerateStats(a)
  <2>1. PICK a \in Apps : GenerateStats(a)
    BY <1>17
  <2>2. /\ pc = "generate" /\ a \in todo
        /\ todo' = todo \ {a}
        /\ file' = [file EXCEPT !["queued"][a] = "full"]
        /\ app_stats_map' = [app_stats_map EXCEPT ![a] = "full"]
        /\ UNCHANGED <<rule, pc, idx, flag, timer, running_pid_port, next_runnable, proc, writing>>
    BY <1>17, <2>1 DEF GenerateStats, envVars
  <2>3. /\ file' \in [Dirs -> [Apps -> Contents]]
        /\ file'["queued"][a] = "full"
        /\ \A e \in Dirs : \A b \in Apps :
             b # a \/ e # "queued" => file'[e][b] = file[e][b]
    BY <2>2 DEF IndInv, TypeOK, Dirs, Contents
  <2>4. Tracked = {} /\ Tracked' = {}
    BY <2>2 DEF IndInv, Generation, Tracked, ToSet
  <2>5. /\ Here("queued")' = Here("queued") \cup {a}
        /\ \A e \in Dirs \ {"queued"} : Here(e)' = Here(e)
        /\ Known' = Known \cup {a}
    BY <2>2, <2>3 DEF IndInv, TypeOK, Dirs
  <2>6. TypeOK'
    BY <2>2, <2>3 DEF IndInv, TypeOK
  <2>7. TrackedHasFile' /\ TrackedOnce' /\ LoopState' /\ OSErrorNeedsNoidea' /\ ExitIsComplete'
    BY <2>2, <2>4 DEF IndInv, TrackedHasFile, TrackedOnce, LoopState, OSErrorNeedsNoidea, ExitIsComplete
  <2>8. UnfollowedIsNoidea' /\ KilledIsQueued' /\ KilledIsOut'
    BY <2>2 DEF IndInv, Generation, UnfollowedIsNoidea, KilledIsQueued, KilledIsOut
  <2> HIDE DEF Here, Known
  <2>9. OnePlace' /\ KnownHasPlace' /\ CompletedHasEnded' /\ Generation'
    BY <2>2, <2>4, <2>5 DEF IndInv, OnePlace, KnownHasPlace, CompletedHasEnded, Generation, Dirs
  <2> QED BY <2>6, <2>7, <2>8, <2>9 DEF IndInv
<1>18. CASE \E a \in Apps : StartNext(a)
  <2>1. PICK a \in Apps : StartNext(a)
    BY <1>18
  <2>2. /\ pc = "start" /\ a \in todo
        /\ UNCHANGED <<rule, idx, flag, timer, app_stats_map, next_runnable, writing>>
    BY <1>18, <2>1 DEF StartNext
  <2>3. a \in Known /\ a \notin Tracked
    BY <2>2 DEF IndInv, LoopState
  <2>4. CASE file["queued"][a] = "absent"
    <3>1. pc' = "OSError" /\ UNCHANGED <<todo, running_pid_port, file, proc>>
      BY <2>1, <2>4 DEF StartNext
    <3>2. a \in Here("noidea")
      BY <2>3, <2>4 DEF IndInv, KnownHasPlace
    <3> QED BY <2>2, <3>1, <3>2, <1>t DEF IndInv, TypeOK, TrackedHasFile, TrackedOnce, OnePlace, KnownHasPlace,
         CompletedHasEnded, UnfollowedIsNoidea, KilledIsQueued, KilledIsOut, Generation, LoopState,
         OSErrorNeedsNoidea, ExitIsComplete
  <2>5. CASE file["queued"][a] # "absent"
    <3>1. /\ Rename(a, "queued", "running")
          /\ proc' = [proc EXCEPT ![a] = "boot"]
          /\ running_pid_port' = Append(running_pid_port, a)
          /\ todo' = todo \ {a}
          /\ UNCHANGED pc
      BY <2>1, <2>5 DEF StartNext
    <3>2. /\ running_pid_port' \in Seq(Apps)
          /\ Tracked' = Tracked \cup {a}
          /\ TrackedOnce'
      <4>1. \A j, k \in 1 .. Len(running_pid_port) :
              running_pid_port[j] = running_pid_port[k] => j = k
        BY DEF IndInv, TrackedOnce
      <4> QED BY <2>3, <3>1, <4>1, AppendFacts DEF Tracked, TrackedOnce, IndInv, TypeOK
    <3>3. /\ file' \in [Dirs -> [Apps -> Contents]]
          /\ file'["running"][a] # "absent" /\ file'["queued"][a] = "absent"
          /\ \A e \in Dirs : \A b \in Apps :
               b # a \/ e \notin {"running", "queued"} => file'[e][b] = file[e][b]
      BY <2>5, <3>1, RenameFacts DEF Dirs, IndInv, TypeOK
    <3>4. /\ Here("running")' = Here("running") \cup {a}
          /\ Here("queued")' = Here("queued") \ {a}
          /\ Here("completed")' = Here("completed") /\ Here("noidea")' = Here("noidea")
          /\ Known' = Known
      BY <2>2, <3>3 DEF Dirs
    <3>5. a \notin Here("completed") \cup Here("noidea")
      BY <2>5 DEF IndInv, OnePlace
    <3>6. /\ proc' \in [Apps -> ProcStates] /\ proc'[a] = "boot"
          /\ \A b \in Apps \ {a} : proc'[b] = proc[b]
      BY <3>1 DEF IndInv, TypeOK, ProcStates
    <3>7. TypeOK'
      BY <2>2, <3>1, <3>2, <3>3, <3>6 DEF IndInv, TypeOK
    <3>8. Tracked \subseteq Apps
      BY TrackedInApps DEF IndInv, TypeOK
    <3>9. TrackedHasFile'
      BY <3>2, <3>3, <3>8 DEF IndInv, TrackedHasFile, Dirs
    <3> HIDE DEF Here, Known
    <3>10. OnePlace' /\ KnownHasPlace' /\ Generation'
      BY <2>2, <2>3, <3>1, <3>2, <3>4, <3>5 DEF IndInv, OnePlace, KnownHasPlace, Generation
    <3>11. CompletedHasEnded' /\ UnfollowedIsNoidea' /\ KilledIsQueued' /\ KilledIsOut'
      <4>1. Here("completed") \subseteq Apps
        BY DEF Here
      <4> QED BY <2>2, <3>1, <3>2, <3>4, <3>5, <3>6, <4>1 DEF IndInv, CompletedHasEnded, UnfollowedIsNoidea,
              KilledIsQueued, KilledIsOut
    <3>12. LoopState' /\ OSErrorNeedsNoidea' /\ ExitIsComplete'
      BY <2>2, <3>1, <3>2, <3>4 DEF IndInv, LoopState, OSErrorNeedsNoidea, ExitIsComplete
    <3> QED BY <3>2, <3>7, <3>9, <3>10, <3>11, <3>12 DEF IndInv
  <2> QED BY <2>4, <2>5
<1>19. CASE \E a \in Apps : Process(a)
  <2>1. PICK a \in Apps : ~Stopped /\ Process(a)
    BY <1>19 DEF Process, CoordinatorUp, Resumed, Finish, Fail, Die, Move, HandlerOpens, HandlerCloses
  <2>2. pc \notin {"exit", "IOError", "OSError"}
    BY <2>1 DEF Stopped
  <2>3. CASE CoordinatorUp(a) \/ Resumed(a) \/ Finish(a) \/ Fail(a) \/ Die(a)
    <3>1. /\ UNCHANGED <<rule, pc, idx, flag, timer, running_pid_port, app_stats_map,
                         next_runnable, todo, file>>
          /\ writing' \in SUBSET Apps
      BY <1>19, <2>3 DEF CoordinatorUp, Resumed, Finish, Fail, Die, Move, schedVars, IndInv, TypeOK
    <3>2. /\ proc' \in [Apps -> ProcStates]
          /\ \A b \in Apps \ {a} : proc'[b] = proc[b]
          /\ proc'[a] # "killed" /\ proc[a] \notin Ended
          /\ proc'[a] \in {"boot", "restarting", "running"} =>
               proc[a] \in {"boot", "restarting", "running"}
          /\ proc[a] # "none"
      BY <2>3 DEF CoordinatorUp, Resumed, Finish, Fail, Die, Move, IndInv, TypeOK, ProcStates
    <3>3. pc # "generate"
      BY <3>2 DEF IndInv, Generation
    <3>4. KilledIsOut'
      BY <3>1, <3>2 DEF IndInv, KilledIsOut
    <3>5. TypeOK' /\ TrackedHasFile' /\ TrackedOnce' /\ OnePlace' /\ KnownHasPlace' /\ LoopState'
      BY <3>1, <3>2, <1>t DEF IndInv, TypeOK, TrackedHasFile, TrackedOnce, OnePlace, KnownHasPlace, LoopState
    <3> QED BY <2>2, <3>1, <3>2, <3>3, <3>4, <3>5, <1>t DEF IndInv, CompletedHasEnded, UnfollowedIsNoidea,
         KilledIsQueued, Generation, OSErrorNeedsNoidea, ExitIsComplete
  <2>4. CASE HandlerOpens(a)
    <3>1. /\ UNCHANGED <<rule, pc, idx, flag, timer, running_pid_port, app_stats_map,
                         next_runnable, todo, proc>>
          /\ proc[a] \in {"running", "killed"}
          /\ writing' \in SUBSET Apps
          /\ file' = [file EXCEPT !["running"][a] = "empty"]
      BY <1>19, <2>4 DEF HandlerOpens, schedVars, IndInv, TypeOK
    <3>2. /\ file' \in [Dirs -> [Apps -> Contents]]
          /\ file'["running"][a] # "absent"
          /\ \A e \in Dirs : \A b \in Apps :
               b # a \/ e # "running" => file'[e][b] = file[e][b]
      BY <3>1 DEF IndInv, TypeOK, Dirs, Contents
    <3>3. a \in Tracked \cup Here("queued") \cup Here("noidea") /\ pc # "generate"
      BY <3>1 DEF IndInv, UnfollowedIsNoidea, KilledIsQueued, Generation
    <3>4. /\ Here("running")' = Here("running") \cup {a}
          /\ \A e \in Dirs \ {"running"} : Here(e)' = Here(e)
          /\ Known' = Known
      BY <3>1, <3>2 DEF Dirs
    <3>5. TypeOK' /\ TrackedHasFile' /\ TrackedOnce'
      <4>1. Tracked \subseteq Apps
        BY TrackedInApps DEF IndInv, TypeOK
      <4>2. TypeOK'
        BY <3>1, <3>2, <1>t DEF IndInv, TypeOK
      <4>3. TrackedHasFile'
        BY <3>1, <3>2, <4>1, <1>t DEF IndInv, TrackedHasFile, Dirs
      <4>4. TrackedOnce'
        BY <3>1, <1>t DEF IndInv, TrackedOnce
      <4> QED BY <4>2, <4>3, <4>4
    <3> HIDE DEF Here, Known
    <3> QED BY <2>2, <3>1, <3>3, <3>4, <3>5, <1>t DEF IndInv, OnePlace, KnownHasPlace,
          CompletedHasEnded, UnfollowedIsNoidea, KilledIsQueued, KilledIsOut, Generation, LoopState,
          OSErrorNeedsNoidea, ExitIsComplete, Dirs
  <2>5. CASE HandlerCloses(a)
    <3>1. /\ UNCHANGED <<rule, pc, idx, flag, timer, running_pid_port, app_stats_map,
                         next_runnable, todo, proc>>
          /\ writing' \in SUBSET Apps
      BY <1>19, <2>5 DEF HandlerCloses, schedVars, IndInv, TypeOK
    <3>2. /\ file' \in [Dirs -> [Apps -> Contents]]
          /\ \A e \in Dirs : \A b \in Apps : file'[e][b] = "absent" <=> file[e][b] = "absent"
      BY <2>5 DEF HandlerCloses, IndInv, TypeOK, Contents
    <3>3. \A e \in Dirs : Here(e)' = Here(e)
      BY <3>2
    <3>4. TypeOK' /\ TrackedHasFile' /\ TrackedOnce' /\ Known' = Known
      <4>1. Tracked \subseteq Apps
        BY TrackedInApps DEF IndInv, TypeOK
      <4>2. TypeOK'
        BY <3>1, <3>2, <1>t DEF IndInv, TypeOK
      <4>3. TrackedHasFile'
        BY <3>1, <3>2, <4>1, <1>t DEF IndInv, TrackedHasFile, Dirs
      <4>4. TrackedOnce'
        BY <3>1, <1>t DEF IndInv, TrackedOnce
      <4> QED BY <3>1, <4>2, <4>3, <4>4
    <3> HIDE DEF Here, Known
    <3> QED BY <2>2, <3>1, <3>3, <3>4, <1>t DEF IndInv, OnePlace, KnownHasPlace,
          CompletedHasEnded, UnfollowedIsNoidea, KilledIsQueued, KilledIsOut, Generation, LoopState,
          OSErrorNeedsNoidea, ExitIsComplete, Dirs
  <2> QED BY <2>1, <2>3, <2>4, <2>5 DEF Process
<1>20. CASE UNCHANGED vars
  BY <1>20, <1>t DEF Terminated, vars, schedVars, envVars, IndInv, TypeOK, TrackedHasFile, TrackedOnce, OnePlace, KnownHasPlace,
         CompletedHasEnded, UnfollowedIsNoidea, KilledIsQueued, KilledIsOut, Generation, LoopState,
         OSErrorNeedsNoidea, ExitIsComplete
<1> QED BY <1>1, <1>2, <1>3, <1>4, <1>5, <1>6, <1>7, <1>8, <1>9, <1>10, <1>11,
           <1>12, <1>13, <1>14, <1>15, <1>16, <1>17, <1>18, <1>19, <1>20, <1>21, <1>22
  DEF Next, Scheduler, Terminated

------------------------------------------------------------------------------
(* IndInv holds in every reachable state.                                   *)
THEOREM IndInvHolds == Spec => []IndInv
BY InitIndInv, NextIndInv, PTL DEF Spec

(* The values of the variables keep their types.                            *)
THEOREM TypeCorrect == Spec => []TypeOK
<1>1. IndInv => TypeOK
  BY DEF IndInv
<1> QED BY <1>1, IndInvHolds, PTL

(* No os.rename of clean_completed or stop_running misses its file: each    *)
(* application in running_pid_port has one in the running directory.        *)
THEOREM RenamesFindTheirFile == Spec => []TrackedHasFile
<1>1. IndInv => TrackedHasFile
  BY DEF IndInv
<1> QED BY <1>1, IndInvHolds, PTL

(* No application is lost between the directories or is in two of them.     *)
THEOREM NoApplicationLost == Spec => []Accounted
<1>1. IndInv => Accounted
  BY DEF IndInv, OnePlace, KnownHasPlace, TrackedHasFile, Accounted, Dirs
<1> QED BY <1>1, IndInvHolds, PTL

(* Only applications given up on run without being followed.                *)
THEOREM NoStrayProcess == Spec => []UnfollowedIsNoidea
<1>1. IndInv => UnfollowedIsNoidea
  BY DEF IndInv
<1> QED BY <1>1, IndInvHolds, PTL

(* The only cause of a failing os.rename is an application in noidea.       *)
THEOREM OSErrorCause == Spec => []OSErrorNeedsNoidea
<1>1. IndInv => OSErrorNeedsNoidea
  BY DEF IndInv
<1> QED BY <1>1, IndInvHolds, PTL

(* start_next gives no application a second process.                        *)
THEOREM NoSecondProcess == Spec => []RestartsOnlyEnded
<1>1. IndInv => RestartsOnlyEnded
  <2> SUFFICES ASSUME IndInv, pc = "start", NEW a \in todo \cap Here("queued")
               PROVE  proc[a] \in {"none"} \cup Ended
    BY DEF RestartsOnlyEnded
  <2>1. a \in Apps /\ a \in next_runnable
    BY DEF IndInv, LoopState
  <2>2. proc[a] # "killed"
    BY <2>1 DEF IndInv, KilledIsOut
  <2>3. proc[a] \notin {"boot", "restarting", "running"}
    BY <2>1 DEF IndInv, UnfollowedIsNoidea, OnePlace, LoopState
  <2> QED BY <2>1, <2>2, <2>3 DEF IndInv, TypeOK, ProcStates
<1> QED BY <1>1, IndInvHolds, PTL

(* main() returns only when every application has been dealt with.          *)
THEOREM NoEarlyExit == Spec => []ExitIsComplete
<1>1. IndInv => ExitIsComplete
  BY DEF IndInv
<1> QED BY <1>1, IndInvHolds, PTL

(* A step leaves a completed application's file and process alone: the      *)
(* process has ended, and no list, queue or handler has it any more.        *)
LEMMA CompletedStep ==
    ASSUME IndInv, [Next]_vars, NEW b \in Here("completed")
    PROVE  file'["completed"][b] # "absent" /\ proc'[b] = proc[b]
<1>1. /\ b \in Apps /\ b \notin Tracked /\ b \notin Here("queued")
      /\ proc[b] \in Ended
      /\ file["completed"][b] # "absent"
      /\ file \in [Dirs -> [Apps -> Contents]]
      /\ proc \in [Apps -> ProcStates]
  BY DEF IndInv, TypeOK, OnePlace, CompletedHasEnded, Here
<1>2. \A i \in 1 .. Len(running_pid_port) :
         running_pid_port[i] \in Apps /\ running_pid_port[i] # b
  BY <1>1 DEF IndInv, TypeOK, Tracked, ToSet
<1>3. idx \in Nat \ {0}
  BY DEF IndInv, TypeOK
<1>4. CASE UNCHANGED <<file, proc>>
  BY <1>1, <1>4
<1>5. CASE \E a \in Apps : GenerateStats(a)
  BY <1>1, <1>5 DEF GenerateStats, Dirs, envVars
<1>6. CASE CleanCompleted
  <2>1. idx \in 1 .. Len(running_pid_port)
    BY <1>3, <1>6 DEF CleanCompleted, IndInv, TypeOK
  <2>2. UNCHANGED proc
    BY <1>6 DEF CleanCompleted, envVars
  <2>3. CASE UNCHANGED file
    BY <1>1, <2>2, <2>3
  <2>4. CASE Rename(running_pid_port[idx], "running", "completed")
    BY <1>1, <1>2, <2>1, <2>2, <2>4 DEF Rename, Dirs
  <2> QED BY <1>6, <2>3, <2>4 DEF CleanCompleted
<1>7. ASSUME NEW dir \in {"queued", "noidea"}, LeaveList(dir)
      PROVE  file'["completed"] = file["completed"]
  BY <1>1, <1>7 DEF LeaveList, Rename, Dirs
<1>8. CASE StopNoCoordinator \/ StopLostCoordinator
  BY <1>1, <1>7, <1>8 DEF StopNoCoordinator, StopLostCoordinator, envVars
<1>9. CASE StopKill
  <2>1. idx \in 1 .. Len(running_pid_port)
    BY <1>3, <1>9 DEF StopKill, IndInv, TypeOK, LoopState
  <2>2. proc'[b] = proc[b]
    BY <1>1, <1>2, <1>9, <2>1 DEF StopKill
  <2> QED BY <1>1, <1>7, <1>9, <2>2 DEF StopKill
<1>10. CASE \E a \in Apps : StartNext(a)
  <2>1. PICK a \in Apps : StartNext(a)
    BY <1>10
  <2>2. CASE file["queued"][a] = "absent"
    BY <1>1, <2>1, <2>2 DEF StartNext
  <2>3. CASE file["queued"][a] # "absent"
    <3>1. a # b
      BY <1>1, <2>3 DEF Here
    <3> QED BY <1>1, <2>1, <2>3, <3>1 DEF StartNext, Rename, Dirs
  <2> QED BY <2>2, <2>3
<1>11. CASE \E a \in Apps : Process(a)
  <2>1. PICK a \in Apps : Process(a)
    BY <1>11
  <2>2. CASE \E from \in SUBSET {"boot", "restarting", "running", "killed"}, to \in ProcStates :
                Move(a, from, to)
    BY <1>1, <2>2 DEF Move, Ended
  <2>3. CASE HandlerOpens(a)
    BY <1>1, <2>3 DEF HandlerOpens, Dirs
  <2>4. CASE HandlerCloses(a)
    BY <1>1, <2>4 DEF HandlerCloses, Dirs
  <2> QED BY <2>1, <2>2, <2>3, <2>4 DEF Process, CoordinatorUp, Resumed, Finish,
             Fail, Die, ProcStates
<1>12. CASE GenerateDone \/ LoopTest \/ CleanDone \/ ListRunning \/ RandomRule \/ StopKeep \/ StopCkpt
            \/ CkptDone \/ StopDone \/ StartDone \/ Sleep
  BY <1>4, <1>12 DEF GenerateDone, LoopTest, CleanDone, ListRunning, RandomRule, StopKeep, StopCkpt,
     CkptDone, StopDone, StartDone, Sleep, envVars
<1>13. CASE \/ \E a \in Apps : GenerateTooShort(a)
            \/ \E a \in Apps : UpdateAppStatsMap(a)
            \/ \E idle \in 0 .. Cpus : GetNextRunnableMap(idle)
  BY <1>4, <1>13 DEF GenerateTooShort, UpdateAppStatsMap, GetNextRunnableMap, envVars
<1>14. CASE UNCHANGED vars
  BY <1>4, <1>14 DEF vars, envVars
<1> QED BY <1>5, <1>6, <1>8, <1>9, <1>10, <1>11, <1>12, <1>13, <1>14
  DEF Next, Scheduler, Terminated

(* An application filed as completed stays filed, and is never restarted.   *)
THEOREM CompletedStays == Spec => CompletedIsFinal
<1>1. IndInv /\ [Next]_vars =>
        [\A a \in Here("completed") :
            /\ file'["completed"][a] # "absent"
            /\ proc'[a] = proc[a]]_vars
  BY CompletedStep
<1> QED BY <1>1, IndInvHolds, PTL DEF Spec, CompletedIsFinal

==============================================================================
