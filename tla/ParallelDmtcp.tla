--------------------------- MODULE ParallelDmtcp -----------------------------
(***************************************************************************)
(* The scheduler of bin/parallel_dmtcp, interleaved with what happens      *)
(* around it while it runs: the restarted applications come up, finish,    *)
(* fail, die of a kill command, and rewrite their own stat file from the   *)
(* SIGALRM handler of the DMTCP plugin myplug.                             *)
(*                                                                         *)
(* The scheduler has no lock and no state of its own on disk other than    *)
(* the directory a stat file is in.  Its two lists are iterated by Python's*)
(* list iterator while elements are removed from them, so the position of  *)
(* the iterator (idx) is part of the state: after a removal it has moved   *)
(* past the element that took the removed one's place.  It is 1 again as   *)
(* soon as a loop ends.                                                    *)
(***************************************************************************)
EXTENDS RuleSelection, Sequences, SequencesExt

CONSTANTS
    Cpus,         \* cpu_count()
    Rules,        \* the kinds of rule the command line may name
    SliceTicks    \* sleeps between two unconditional reselections (60 / 5)

ASSUME SchedulerAssumption ==
    /\ Cpus \in Nat
    /\ Rules \subseteq {"twice", "once", "idle", "random"}
    /\ SliceTicks \in Nat \ {0}

Dirs == {"queued", "running", "completed", "noidea"}

(* A stat file: its content is lost from fopen(filename, "w") to fclose.    *)
Contents == {"absent", "empty", "full"}

(* The instance of an application that dmtcp_restart started last:          *)
(*   none        no process                                                 *)
(*   boot        shell and dmtcp_restart forked, no coordinator listening   *)
(*   restarting  coordinator listening, restart barriers not yet passed     *)
(*   running     user threads run                                           *)
(*   killed      the coordinator has sent KILL, the process is still there  *)
(*   ok, failed  exited with status 0, or otherwise                         *)
ProcStates == {"none", "boot", "restarting", "running", "killed", "ok", "failed"}

Ended == {"ok", "failed"}

VARIABLES
    rule,               \* sys.argv[1]: twice is rule1 or rule3, once is rule2,
                        \* idle is rule4 or rule6, random is no argument, -r
                        \* or --random
    pc,                 \* where the scheduler is in main()
    idx,                \* position of the for loop's list iterator
    flag,               \* clean_completed()'s return value
    timer,              \* main()'s timer, in sleeps
    running_pid_port,   \* the applications in that list, in list order
    app_stats_map,      \* "none" where the application is not a key
    next_runnable,      \* what the rule returned
    todo,               \* applications a loop over a list has still to visit
    file,               \* file[d][a]: a's stat file in directory d
    proc,               \* proc[a]: a's process
    writing             \* applications between fopen and fclose in the handler

schedVars == <<pc, idx, flag, timer, running_pid_port, app_stats_map,
               next_runnable, todo>>
envVars == <<rule, proc, writing>>    \* what most scheduler steps only read
vars == <<schedVars, file, envVars>>

Tracked == ToSet(running_pid_port)
Here(d) == {a \in Apps : file[d][a] # "absent"}
Known == {a \in Apps : app_stats_map[a] # "none"}

TypeOK ==
    /\ rule \in Rules
    /\ pc \in {"generate", "loop", "clean", "select", "refresh", "stop", "bcwait", "kill",
               "start", "sleep", "exit", "IOError", "KeyError", "OSError",
               "TypeError"}
    /\ idx \in Nat \ {0}
    /\ flag \in BOOLEAN
    /\ timer \in 0 .. SliceTicks
    /\ running_pid_port \in Seq(Apps)
    /\ app_stats_map \in [Apps -> {"none", "empty", "full"}]
    /\ next_runnable \in SUBSET Apps
    /\ todo \in SUBSET Apps
    /\ file \in [Dirs -> [Apps -> Contents]]
    /\ proc \in [Apps -> ProcStates]
    /\ writing \in SUBSET Apps

(* main() has archived the old statistics and made four empty directories.  *)
Init ==
    /\ rule \in Rules
    /\ pc = "generate"
    /\ idx = 1
    /\ flag = FALSE
    /\ timer = 0
    /\ running_pid_port = <<>>
    /\ app_stats_map = [a \in Apps |-> "none"]
    /\ next_runnable = {}
    /\ todo = Apps
    /\ file = [d \in Dirs |-> [a \in Apps |-> "absent"]]
    /\ proc = [a \in Apps |-> "none"]
    /\ writing = {}

(* os.rename of a's stat file; the callers have it exist.                   *)
Rename(a, from, to) ==
    file' = [file EXCEPT ![to][a] = file[from][a], ![from][a] = "absent"]

------------------------------------------------------------------------------
(* generate_stats_and_enqueue: one application at a time is restarted with  *)
(* STATGEN=ONCE and a checkpoint interval; the plugin writes the stat file  *)
(* after the first checkpoint and exits, and os.system returns.             *)
GenerateStats(a) ==
    /\ pc = "generate" /\ a \in todo
    /\ todo' = todo \ {a}
    /\ file' = [file EXCEPT !["queued"][a] = "full"]
    /\ app_stats_map' = [app_stats_map EXCEPT ![a] = "full"]
    /\ UNCHANGED <<pc, idx, flag, timer, running_pid_port, next_runnable, envVars>>

(* The application ended before its first checkpoint: nobody wrote the stat *)
(* file, and open(statfile, 'r') in update_app_stats_map raises.            *)
GenerateTooShort(a) ==
    /\ pc = "generate" /\ a \in todo
    /\ pc' = "IOError"
    /\ UNCHANGED <<idx, flag, timer, running_pid_port, app_stats_map,
                   next_runnable, todo, file, envVars>>

GenerateDone ==
    /\ pc = "generate" /\ todo = {}
    /\ pc' = "loop"
    /\ UNCHANGED <<idx, flag, timer, running_pid_port, app_stats_map,
                   next_runnable, todo, file, envVars>>

------------------------------------------------------------------------------
(* Fault: the loop looks at the queued directory only.                      *)
LoopTestQueuedOnly ==
    /\ pc = "loop"
    /\ pc' = IF Here("queued") # {} THEN "clean" ELSE "exit"
    /\ UNCHANGED <<idx, flag, timer, running_pid_port, app_stats_map,
                   next_runnable, todo, file, envVars>>

(* The condition of main()'s while loop and the call of clean_completed.    *)
LoopTest ==
    /\ pc = "loop"
    /\ pc' = IF Here("queued") \cup Here("running") # {} THEN "clean" ELSE "exit"
    /\ UNCHANGED <<idx, flag, timer, running_pid_port, app_stats_map, next_runnable, todo,
                   file, envVars>>

(* Fault: "not poll()", which is also true of a process that runs.          *)
CleanCompletedNotPoll ==
    /\ pc = "clean" /\ idx <= Len(running_pid_port)
    /\ idx' = idx + 1
    /\ LET a == running_pid_port[idx] IN
         /\ Rename(a, "running", "completed")
         /\ running_pid_port' = RemoveAt(running_pid_port, idx)
         /\ app_stats_map' = [app_stats_map EXCEPT ![a] = "none"]
    /\ flag' = TRUE
    /\ UNCHANGED <<pc, timer, next_runnable, todo, envVars>>

(* Fault: a process that exits with another status than 0 is never cleaned. *)
CleanCompletedZeroOnly ==
    /\ pc = "clean" /\ idx <= Len(running_pid_port)
    /\ idx' = idx + 1
    /\ LET a == running_pid_port[idx] IN
         IF proc[a] # "ok"
           THEN UNCHANGED <<flag, running_pid_port, app_stats_map, file>>
           ELSE /\ Rename(a, "running", "completed")
                /\ running_pid_port' = RemoveAt(running_pid_port, idx)
                /\ app_stats_map' = [app_stats_map EXCEPT ![a] = "none"]
                /\ flag' = TRUE
    /\ UNCHANGED <<pc, timer, next_runnable, todo, envVars>>

(* clean_completed, one iteration: poll() reaps a process that has ended,   *)
(* whatever its status, so /proc/<pid> is gone for a failed one as well.    *)
CleanCompleted ==
    /\ pc = "clean" /\ idx <= Len(running_pid_port)
    /\ idx' = idx + 1
    /\ LET a == running_pid_port[idx] IN
         \/ /\ proc[a] \notin Ended
            /\ UNCHANGED <<pc, flag, running_pid_port, app_stats_map, file>>
         \/ /\ proc[a] \in Ended
            /\ file["running"][a] # "absent"
            /\ Rename(a, "running", "completed")
            /\ running_pid_port' = RemoveAt(running_pid_port, idx)
            /\ app_stats_map' = [app_stats_map EXCEPT ![a] = "none"]
            /\ flag' = TRUE
            /\ UNCHANGED pc
         \/ /\ proc[a] \in Ended
            /\ file["running"][a] = "absent"
            /\ pc' = "OSError"
            /\ UNCHANGED <<flag, running_pid_port, app_stats_map, file>>
    /\ UNCHANGED <<timer, next_runnable, todo, envVars>>

CleanDone ==
    /\ pc = "clean" /\ idx > Len(running_pid_port)
    /\ pc' = IF flag \/ timer % SliceTicks = 0 THEN "select" ELSE "sleep"
    /\ timer' = IF timer % SliceTicks = 0 THEN 0 ELSE timer
    /\ idx' = 1 /\ flag' = FALSE
    /\ UNCHANGED <<running_pid_port, app_stats_map, next_runnable,
                   todo, file, envVars>>

(* get_next_runnable_map: os.listdir of the running directory ...           *)
ListRunning ==
    /\ pc = "select"
    /\ pc' = "refresh"
    /\ todo' = Here("running")
    /\ UNCHANGED <<idx, flag, timer, running_pid_port, app_stats_map, next_runnable,
                   file, envVars>>

(* ... then its stat files are read one after the other.  One that is read  *)
(* between fopen and fclose has no lines, and the entry no keys.            *)
UpdateAppStatsMap(a) ==
    /\ pc = "refresh" /\ a \in todo
    /\ app_stats_map' = [app_stats_map EXCEPT ![a] = file["running"][a]]
    /\ todo' = todo \ {a}
    /\ UNCHANGED <<pc, idx, flag, timer, running_pid_port, next_runnable, file, envVars>>

(* The applications whose statistics the rule looks at.  An idle-based rule *)
(* looks at none when no cpu is idle, and otherwise only at those that are  *)
(* not running.                                                             *)
Consulted(idle) ==
    IF rule # "idle" THEN Known ELSE IF idle > 0 THEN Known \ Tracked ELSE {}

(* rule1 and rule3 hand out twice as many threads as there are cpus, rule2  *)
(* as many.                                                                 *)
Budget == IF rule = "once" THEN Cpus ELSE 2 * Cpus

RuleChoices(idle) ==
    IF rule = "idle" THEN IdleRuleChoices(Known, Tracked, idle)
                     ELSE FixedRuleChoices(Known, Budget)

(* The rule of the command line is applied to all the statistics; its       *)
(* lookup of CACHE_MISSES or VmRSS raises where an entry has no keys.       *)
GetNextRunnableMap(idle) ==
    /\ pc = "refresh" /\ todo = {} /\ rule # "random"
    /\ \/ /\ \E a \in Consulted(idle) : app_stats_map[a] = "empty"
          /\ pc' = "KeyError"
          /\ UNCHANGED next_runnable
       \/ /\ \A a \in Consulted(idle) : app_stats_map[a] = "full"
          /\ pc' = "stop"
          /\ next_runnable' \in RuleChoices(idle)
    /\ UNCHANGED <<idx, flag, timer, running_pid_port, app_stats_map, todo, file, envVars>>

(* random.choice(r.RULES.keys()) is a name, and calling it raises.          *)
RandomRule ==
    /\ pc = "refresh" /\ todo = {} /\ rule = "random"
    /\ pc' = "TypeError"
    /\ UNCHANGED <<idx, flag, timer, running_pid_port, app_stats_map, next_runnable, todo,
                   file, envVars>>

------------------------------------------------------------------------------
(* stop_running, one iteration: an application that stays is passed over.   *)
StopKeep ==
    /\ pc = "stop" /\ idx <= Len(running_pid_port)
    /\ running_pid_port[idx] \in next_runnable
    /\ idx' = idx + 1
    /\ UNCHANGED <<pc, flag, timer, running_pid_port, app_stats_map,
                   next_runnable, todo, file, envVars>>

(* Fault: the stat file is moved, the list keeps the entry.                 *)
LeaveListKeepsEntry(dir) ==
    /\ pc' = "stop" /\ idx' = idx + 1
    /\ Rename(running_pid_port[idx], "running", dir)
    /\ UNCHANGED <<running_pid_port, flag, timer, app_stats_map, next_runnable,
                   todo>>

(* dmtcp_command printed nothing on stderr, or something: the entry leaves  *)
(* the list and its stat file goes to the queued or the noidea directory.   *)
(* The application stays in app_stats_map in both cases.                    *)
LeaveList(dir) ==
    LET a == running_pid_port[idx] IN
    /\ IF file["running"][a] = "absent"
         THEN pc' = "OSError" /\ UNCHANGED <<running_pid_port, file, idx>>
         ELSE /\ pc' = "stop"
              /\ Rename(a, "running", dir)
              /\ running_pid_port' = RemoveAt(running_pid_port, idx)
              /\ idx' = idx + 1
    /\ UNCHANGED <<flag, timer, app_stats_map, next_runnable, todo>>

(* dmtcp_command -bc finds the coordinator of the application and waits.    *)
StopCkpt ==
    /\ pc = "stop" /\ idx <= Len(running_pid_port)
    /\ running_pid_port[idx] \notin next_runnable
    /\ proc[running_pid_port[idx]] \in {"restarting", "running"}
    /\ pc' = "bcwait"
    /\ UNCHANGED <<idx, flag, timer, running_pid_port, app_stats_map,
                   next_runnable, todo, file, envVars>>

(* Fault: an application whose coordinator is not found is queued again.    *)
StopNoCoordinatorQueues ==
    /\ pc = "stop" /\ idx <= Len(running_pid_port)
    /\ running_pid_port[idx] \notin next_runnable
    /\ proc[running_pid_port[idx]] \notin {"restarting", "running"}
    /\ LeaveList("queued")
    /\ UNCHANGED envVars

(* ... or does not: "Coordinator not found" on stderr.                      *)
StopNoCoordinator ==
    /\ pc = "stop" /\ idx <= Len(running_pid_port)
    /\ running_pid_port[idx] \notin next_runnable
    /\ proc[running_pid_port[idx]] \notin {"restarting", "running"}
    /\ LeaveList("noidea")
    /\ UNCHANGED envVars

(* The coordinator answers at the broadcast of DO_RESUME, of the checkpoint *)
(* or, if it came too early to be accepted, of the restart still under way. *)
CkptDone ==
    /\ pc = "bcwait"
    /\ proc[running_pid_port[idx]] = "running"
    /\ pc' = "kill"
    /\ UNCHANGED <<idx, flag, timer, running_pid_port, app_stats_map,
                   next_runnable, todo, file, envVars>>

(* The application ended and took its coordinator with it before one of the *)
(* two commands was answered.                                               *)
StopLostCoordinator ==
    /\ pc \in {"bcwait", "kill"}
    /\ proc[running_pid_port[idx]] \in Ended
    /\ LeaveList("noidea")
    /\ UNCHANGED envVars

(* Fault: the application is queued without having been killed.             *)
StopKillForgotten ==
    /\ pc = "kill"
    /\ proc[running_pid_port[idx]] = "running"
    /\ LeaveList("queued")
    /\ UNCHANGED envVars

(* dmtcp_command -k is answered when the coordinator has sent KILL, not     *)
(* when the process is gone.                                                *)
StopKill ==
    /\ pc = "kill"
    /\ proc[running_pid_port[idx]] = "running"
    /\ proc' = [proc EXCEPT ![running_pid_port[idx]] = "killed"]
    /\ LeaveList("queued")
    /\ UNCHANGED <<rule, writing>>

(* Fault: to_restart is not reduced by what is running.                     *)
StopDoneAll ==
    /\ pc = "stop" /\ idx > Len(running_pid_port)
    /\ pc' = "start"
    /\ todo' = next_runnable
    /\ idx' = 1
    /\ UNCHANGED <<flag, timer, running_pid_port, app_stats_map, next_runnable,
                   file, envVars>>

StopDone ==
    /\ pc = "stop" /\ idx > Len(running_pid_port)
    /\ pc' = "start"
    /\ todo' = next_runnable \ Tracked
    /\ idx' = 1
    /\ UNCHANGED <<flag, timer, running_pid_port, app_stats_map,
                   next_runnable, file, envVars>>

(* Fault: the stat file is copied to the running directory, not moved.      *)
StartNextCopies(a) ==
    /\ pc = "start" /\ a \in todo
    /\ file' = [file EXCEPT !["running"][a] = file["queued"][a]]
    /\ proc' = [proc EXCEPT ![a] = "boot"]
    /\ running_pid_port' = Append(running_pid_port, a)
    /\ todo' = todo \ {a}
    /\ UNCHANGED <<pc, idx, flag, timer, app_stats_map, next_runnable, rule,
                   writing>>

(* start_next, one iteration over the list of a set, in any order.          *)
StartNext(a) ==
    /\ pc = "start" /\ a \in todo
    /\ IF file["queued"][a] = "absent"
         THEN /\ pc' = "OSError"
              /\ UNCHANGED <<todo, running_pid_port, file, proc>>
         ELSE /\ Rename(a, "queued", "running")
              /\ proc' = [proc EXCEPT ![a] = "boot"]
              /\ running_pid_port' = Append(running_pid_port, a)
              /\ todo' = todo \ {a}
              /\ UNCHANGED pc
    /\ UNCHANGED <<idx, flag, timer, app_stats_map, next_runnable, rule, writing>>

StartDone ==
    /\ pc = "start" /\ todo = {}
    /\ pc' = "sleep"
    /\ next_runnable' = {}    \* not read again before the next selection
    /\ UNCHANGED <<idx, flag, timer, running_pid_port, app_stats_map, todo,
                   file, envVars>>

(* time.sleep(5).  Assumed: five seconds are enough for a process that has  *)
(* been sent KILL to leave.                                                 *)
Sleep ==
    /\ pc = "sleep"
    /\ \A a \in Apps : proc[a] # "killed"
    /\ pc' = "loop"
    /\ timer' = timer + 1
    /\ UNCHANGED <<idx, flag, running_pid_port, app_stats_map, next_runnable,
                   todo, file, envVars>>

------------------------------------------------------------------------------
(* The scheduler has returned from main() or died of an exception.          *)
Stopped == pc \in {"exit", "IOError", "KeyError", "OSError", "TypeError"}

(* The processes around the scheduler.  What becomes of them once it is     *)
(* gone is not modelled.                                                    *)
Move(a, from, to) ==
    /\ ~Stopped
    /\ proc[a] \in from
    /\ proc' = [proc EXCEPT ![a] = to]
    /\ UNCHANGED <<schedVars, file, rule>>

CoordinatorUp(a) == Move(a, {"boot"}, "restarting") /\ UNCHANGED writing
Resumed(a) == Move(a, {"restarting"}, "running") /\ UNCHANGED writing
Finish(a) == a \notin writing /\ Move(a, {"running"}, "ok") /\ UNCHANGED writing
Fail(a) == Move(a, {"boot", "restarting", "running"}, "failed")
           /\ writing' = writing \ {a}
Die(a) == Move(a, {"killed"}, "none") /\ writing' = writing \ {a}

(* sigalrm_handler of myplug: fopen(filename, "w") truncates or creates     *)
(* running/<a>.stat; what is written stays in the stdio buffer until fclose,*)
(* which fills the file wherever a rename has moved it since.               *)
HandlerOpens(a) ==
    /\ ~Stopped
    /\ proc[a] \in {"running", "killed"} /\ a \notin writing
    /\ writing' = writing \cup {a}
    /\ file' = [file EXCEPT !["running"][a] = "empty"]
    /\ UNCHANGED <<schedVars, rule, proc>>

HandlerCloses(a) ==
    /\ ~Stopped
    /\ a \in writing
    /\ writing' = writing \ {a}
    /\ file' = [d \in Dirs |-> [file[d] EXCEPT ![a] =
                                  IF @ = "empty" THEN "full" ELSE @]]
    /\ UNCHANGED <<schedVars, rule, proc>>

------------------------------------------------------------------------------
Scheduler ==
    \/ \E a \in Apps : GenerateStats(a)
    \/ \E a \in Apps : GenerateTooShort(a)
    \/ GenerateDone
    \/ LoopTest
    \/ CleanCompleted
    \/ CleanDone
    \/ ListRunning
    \/ \E a \in Apps : UpdateAppStatsMap(a)
    \/ \E idle \in 0 .. Cpus : GetNextRunnableMap(idle)
    \/ RandomRule
    \/ StopKeep
    \/ StopCkpt
    \/ StopNoCoordinator
    \/ CkptDone
    \/ StopLostCoordinator
    \/ StopKill
    \/ StopDone
    \/ \E a \in Apps : StartNext(a)
    \/ StartDone
    \/ Sleep

Process(a) ==
    \/ CoordinatorUp(a)
    \/ Resumed(a)
    \/ Finish(a)
    \/ Fail(a)
    \/ Die(a)
    \/ HandlerOpens(a)
    \/ HandlerCloses(a)

Terminated == Stopped /\ UNCHANGED vars

Next ==
    \/ Scheduler
    \/ \E a \in Apps : Process(a)
    \/ Terminated

Spec == Init /\ [][Next]_vars

------------------------------------------------------------------------------
(* An application in running_pid_port has its stat file in the running      *)
(* directory, so no os.rename out of it by clean_completed or stop_running  *)
(* raises, however the list and the directory are changed in between.       *)
TrackedHasFile == \A a \in Tracked : file["running"][a] # "absent"

(* No application is lost: once enqueued, its stat file is in a directory,  *)
(* and in one only of queued, completed and noidea; none of these holds an  *)
(* application the scheduler follows.  (A process that was sent KILL may    *)
(* leave a second file in the running directory.)  The variables keep their *)
(* types, and the timer its range.                                          *)
Accounted ==
    /\ TypeOK
    /\ \A a \in Known \cup Here("completed") :
        /\ \E d \in Dirs : a \in Here(d)
        /\ \A d, e \in Dirs \ {"running"} : a \in Here(d) \cap Here(e) => d = e
        /\ a \in Tracked => \A d \in Dirs \ {"running"} : a \notin Here(d)

(* A process that lives and is not followed by the scheduler is one it gave *)
(* up on (noidea).                                                          *)
UnfollowedIsNoidea ==
    \A a \in Apps : proc[a] \in {"boot", "restarting", "running"} =>
        a \in Tracked \cup Here("noidea")

(* The scheduler dies in os.rename only because of an application that was  *)
(* filed under noidea: it is still in app_stats_map, a rule chooses it, and *)
(* start_next looks for it in the queued directory.                         *)
OSErrorNeedsNoidea == pc = "OSError" => Here("noidea") # {}

(* start_next never restarts an application whose last process still        *)
(* exists, though the kill command is answered before the process is gone,  *)
(* a process whose coordinator was not found runs on, and stop_running      *)
(* passes over entries of its list.                                         *)
RestartsOnlyEnded ==
    pc = "start" =>
        \A a \in todo \cap Here("queued") : proc[a] \in {"none"} \cup Ended

(* When main() returns, no application is followed any more and each one is *)
(* filed as completed or as noidea: the loop does not end early.            *)
ExitIsComplete ==
    pc = "exit" => Tracked = {} /\ Apps = Here("completed") \cup Here("noidea")

(* An application filed as completed is not restarted, and stays filed.     *)
CompletedIsFinal ==
    [][\A a \in Here("completed") :
          /\ file'["completed"][a] # "absent"
          /\ proc'[a] = proc[a]]_vars

------------------------------------------------------------------------------
(* What makes the properties above inductive.                               *)

(* No application is in running_pid_port twice.                             *)
TrackedOnce ==
    \A i, j \in 1 .. Len(running_pid_port) :
        running_pid_port[i] = running_pid_port[j] => i = j

(* An application is in one place at most.                                  *)
OnePlace ==
    \A a \in Apps :
        /\ a \in Tracked => a \notin Here("queued") \cup Here("completed") \cup Here("noidea")
        /\ a \in Here("queued") => a \notin Here("completed") \cup Here("noidea")
        /\ a \in Here("completed") => a \notin Here("noidea")

(* An application the rules may be shown is in a place other than completed.*)
KnownHasPlace ==
    \A a \in Known \cup Here("running") : a \in Tracked \cup Here("queued") \cup Here("noidea")

(* A completed application has ended and was forgotten.                     *)
CompletedHasEnded ==
    \A a \in Here("completed") : proc[a] \in Ended /\ a \notin Known

KilledIsQueued == \A a \in Apps : proc[a] = "killed" => a \in Here("queued")

(* Before the loop nothing has been started; after it everything is known.  *)
Generation ==
    /\ pc \in {"generate", "IOError"} =>
         /\ running_pid_port = <<>>
         /\ Here("running") \cup Here("completed") \cup Here("noidea") = {}
         /\ \A a \in Apps : proc[a] = "none"
    /\ pc = "generate" => Apps = Known \cup todo
    /\ pc \notin {"generate", "IOError"} => Apps = Known \cup Here("completed")

(* A process that was sent KILL outlives the selection only.                *)
KilledIsOut ==
    \A a \in Apps : proc[a] = "killed" =>
        /\ pc \notin {"generate", "loop", "clean", "select", "refresh"}
        /\ pc \in {"stop", "bcwait", "kill", "start"} => a \notin next_runnable

(* What the loops over the two lists rely on.                               *)
LoopState ==
    /\ pc \notin {"loop", "clean", "exit", "OSError"} => timer < SliceTicks
    /\ pc \in {"bcwait", "kill"} =>
         idx <= Len(running_pid_port) /\ running_pid_port[idx] \notin next_runnable
    /\ pc = "refresh" => todo \subseteq Here("running")
    /\ pc \in {"stop", "bcwait", "kill", "start"} => next_runnable \subseteq Known
    /\ pc = "start" => todo \subseteq next_runnable /\ todo \cap Tracked = {}

IndInv ==
    /\ TypeOK /\ TrackedHasFile /\ TrackedOnce /\ OnePlace /\ KnownHasPlace
    /\ CompletedHasEnded /\ UnfollowedIsNoidea /\ KilledIsQueued /\ KilledIsOut
    /\ Generation /\ LoopState /\ OSErrorNeedsNoidea /\ ExitIsComplete

(* bin/parallel_dmtcp:3, "total memory usage of all processes should be <=  *)
(* total memory of the system", at the end of an iteration.                 *)
MemoryRespected == pc = "sleep" => RamOf(Tracked) <= TotalRam

------------------------------------------------------------------------------
(* The scheduler takes its next step; a process that was started comes up,  *)
(* a handler that opened its file closes it, a process sent KILL leaves.    *)
(* Strong fairness of Finish: every slice resumes from a checkpoint, so an  *)
(* application that is resumed again and again gets to its end.             *)
Fairness ==
    /\ WF_vars(Scheduler)
    /\ \A a \in Apps :
        /\ WF_vars(CoordinatorUp(a))
        /\ WF_vars(Resumed(a))
        /\ WF_vars(HandlerCloses(a))
        /\ WF_vars(Die(a))
        /\ SF_vars(Finish(a))

FairSpec == Spec /\ Fairness

(* Under rule1, rule2 and rule3 every application that fits on the machine  *)
(* at all gets to its end or is given up on, or an exception stops the      *)
(* script: main() is never stuck in a wait for dmtcp_command, and nobody is *)
(* passed over for ever.  One with more threads than the rule hands out, or *)
(* with all the memory, is never chosen, and then main() does not return;   *)
(* without such ones it does.  (rule4 and rule6 start nothing while no cpu  *)
(* is idle.)                                                                *)
Terminates ==
    rule \in {"twice", "once"} =>
        /\ <>(\/ Stopped
              \/ {a \in Apps : Fits({a}, Budget)} \subseteq Here("completed") \cup Here("noidea"))
        /\ (\A a \in Apps : Fits({a}, Budget)) => <>Stopped

==============================================================================
