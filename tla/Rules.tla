-------------------------------- MODULE Rules --------------------------------
(***************************************************************************)
(* The scheduling rules of common/imports/rules.py and the functions of    *)
(* common/imports/rules_utils.py that choose the next application to look  *)
(* at.  A behaviour is one call of one rule: the arguments are in the      *)
(* initial state, every iteration of the rule's loop is a step.            *)
(*                                                                         *)
(* app_stats_map is a Python dictionary.  The rules depend on the order in *)
(* which its keys are listed, which Python 2 leaves open, so the map is    *)
(* the sequence of its keys; pop keeps the order of the others.            *)
(***************************************************************************)
EXTENDS RuleSelection, SequencesExt

CONSTANTS
    Misses,       \* CACHE_MISSES of an application
    Cpus,         \* multiprocessing.cpu_count()
    IdleTenths    \* the idle percentages top may show, in tenths of a percent

(* get_app_with_min_threads begins its comparisons with this number.        *)
TooManyThreads == 1000000

ASSUME RulesAssumption ==
    /\ Misses \in [Apps -> Nat]
    /\ \A a \in Apps : 0 < Threads[a] /\ Threads[a] < TooManyThreads
    /\ Cpus \in Nat \ {0}
    /\ IdleTenths \subseteq 0 .. 1000

VARIABLES
    rule,            \* the rule that is called, a key of RULES
    app_stats_map,   \* the keys of the rule's own copy of the map
    runninglist,     \* the second argument, a set of applications
    idle,            \* what top shows at the call
    totalram,        \* memory left
    totalthreads,    \* threads left
    next_runnable,   \* the answer so far
    pc,              \* "called", "loop", "returned"
    known            \* the keys of the argument (deepcopy leaves it alone)

vars == <<rule, app_stats_map, runninglist, idle, totalram, totalthreads,
          next_runnable, pc, known>>

RULES == {"rule1", "rule2", "rule3", "rule4", "rule6"}

IdleRules == {"rule4", "rule6"}

----------------------------------------------------------------------------
(* rules_utils.py                                                           *)

(* The loop compares every application with the FIRST key's misses, which   *)
(* min_miss keeps: the answer is the last key below it, not the least.      *)
get_app_with_min_cache_misses(keys) ==
    LET below == {i \in 1 .. Len(keys) : Misses[keys[i]] < Misses[keys[1]]} IN
    keys[IF below = {} THEN 1 ELSE Max(below)]

(* Both loops compare strictly, so that the first of equal keys is kept.    *)
(* They begin with TooManyThreads and -1, beyond any number of threads.     *)
get_app_with_min_threads(keys) ==
    keys[Min({i \in 1 .. Len(keys) :
                \A j \in 1 .. Len(keys) : Threads[keys[i]] <= Threads[keys[j]]})]

get_app_with_max_threads(keys) ==
    keys[Min({i \in 1 .. Len(keys) :
                \A j \in 1 .. Len(keys) : Threads[keys[i]] >= Threads[keys[j]]})]

(* int(round(x) * cpus), or 0 when less than 7 per cent is idle.            *)
getcpuidleperc(tenths) ==
    IF tenths \div 10 < 7 THEN 0 ELSE ((tenths + 5) \div 10) * Cpus

(* The quotient of two integers is already whole, so math.ceil rounds       *)
(* nothing: 199 per cent of idle cpu time is one cpu.                       *)
IdleThreads(tenths) == getcpuidleperc(tenths) \div 100

----------------------------------------------------------------------------
Budget(r, tenths) ==
    CASE r \in {"rule1", "rule3"} -> Cpus * 2
      [] r = "rule2"              -> Cpus
      [] r \in IdleRules          -> IdleThreads(tenths)

(* Fault: rule3 and rule6 take each other's order.                          *)
NextAppSwapped(r, keys) ==
    CASE r \in {"rule1", "rule2"} -> get_app_with_min_cache_misses(keys)
      [] r = "rule6"              -> get_app_with_min_threads(keys)
      [] r \in {"rule3", "rule4"} -> get_app_with_max_threads(keys)

NextApp(r, keys) ==
    CASE r \in {"rule1", "rule2"} -> get_app_with_min_cache_misses(keys)
      [] r \in {"rule3", "rule4"} -> get_app_with_min_threads(keys)
      [] r = "rule6"              -> get_app_with_max_threads(keys)

(* rule4 and rule6 look at no application of runninglist; rule1 to rule3 do *)
(* not use the argument.                                                    *)
Skipped(r, app) == r \in IdleRules /\ app \in runninglist

(* Fault: the memory may be used up to the last page.                       *)
AdmissibleAllRam(app) ==
    totalram - Ram[app] >= 0 /\ totalthreads - Threads[app] >= 0

Admissible(app) == totalram - Ram[app] > 0 /\ totalthreads - Threads[app] >= 0

Pop(app) ==
    \E i \in 1 .. Len(app_stats_map) :
        app_stats_map[i] = app /\ app_stats_map' = RemoveAt(app_stats_map, i)

Init ==
    /\ rule \in RULES
    /\ app_stats_map \in SetToAllKPermutations(Apps)
    /\ runninglist \in IF rule \in IdleRules
                      THEN SUBSET Range(app_stats_map) ELSE {{}}
    /\ idle \in IF rule \in IdleRules THEN IdleTenths ELSE {0}
    /\ totalram = 0
    /\ totalthreads = 0
    /\ next_runnable = <<>>
    /\ pc = "called"
    /\ known = Range(app_stats_map)

(* The lines before the loop.  rule4 and rule6 return at once when no cpu   *)
(* is idle.                                                                 *)
Begin ==
    /\ pc = "called"
    /\ totalram' = TotalRam
    /\ totalthreads' = Budget(rule, idle)
    /\ pc' = IF rule \in IdleRules /\ totalthreads' = 0
             THEN "returned" ELSE "loop"
    /\ UNCHANGED <<rule, app_stats_map, runninglist, idle, next_runnable, known>>

(* Fault: the pop is indented under the test and skipped with it.           *)
IterateKeepsSkipped ==
    /\ pc = "loop"
    /\ app_stats_map # <<>>
    /\ LET app == NextApp(rule, app_stats_map) IN
          IF Skipped(rule, app)
          THEN UNCHANGED <<app_stats_map, totalram, totalthreads, next_runnable>>
          ELSE /\ IF Admissible(app)
                  THEN /\ totalram' = totalram - Ram[app]
                       /\ totalthreads' = totalthreads - Threads[app]
                       /\ next_runnable' = Append(next_runnable, app)
                  ELSE UNCHANGED <<totalram, totalthreads, next_runnable>>
               /\ Pop(app)
    /\ UNCHANGED <<rule, runninglist, idle, pc, known>>

Iterate ==
    /\ pc = "loop"
    /\ app_stats_map # <<>>
    /\ LET app == NextApp(rule, app_stats_map) IN
          /\ IF Skipped(rule, app) \/ ~Admissible(app)
             THEN UNCHANGED <<totalram, totalthreads, next_runnable>>
             ELSE /\ totalram' = totalram - Ram[app]
                  /\ totalthreads' = totalthreads - Threads[app]
                  /\ next_runnable' = Append(next_runnable, app)
          /\ Pop(app)
    /\ UNCHANGED <<rule, runninglist, idle, pc, known>>

Return ==
    /\ pc = "loop"
    /\ app_stats_map = <<>>
    /\ pc' = "returned"
    /\ UNCHANGED <<rule, app_stats_map, runninglist, idle, totalram,
                   totalthreads, next_runnable, known>>

Next == Begin \/ Iterate \/ Return

Spec == Init /\ [][Next]_vars

(* The call goes on until it returns.                                       *)
FairSpec == Spec /\ WF_vars(Next)

----------------------------------------------------------------------------
TypeOK ==
    /\ rule \in RULES
    /\ known \subseteq Apps
    /\ Range(app_stats_map) \subseteq known
    /\ runninglist \subseteq known
    /\ totalram \in Nat
    /\ totalthreads \in Nat
    /\ Range(next_runnable) \subseteq known
    /\ pc \in {"called", "loop", "returned"}

Answer == Range(next_runnable)

(* What may be in the answer at all.                                        *)
Candidates == IF rule \in IdleRules THEN known \ runninglist ELSE known

(* The loops keep the promise of module RuleSelection on which the          *)
(* scheduler's model rests: whatever the order of the keys, the list that a *)
(* rule of rules.py returns names no application twice, fits the threads    *)
(* and the memory, and leaves out nothing that would still fit.  What is    *)
(* left of both, during the loop, is never negative (TypeOK).               *)
AnswerIsPromised ==
    /\ TypeOK
    /\ pc = "returned" =>
          /\ Len(next_runnable) = Cardinality(Answer)
          /\ Answer \in
                IF rule \in IdleRules
                THEN IdleRuleChoices(known, runninglist, IdleThreads(idle))
                ELSE FixedRuleChoices(known, Budget(rule, idle))

(* The memory of the candidates is no constraint to the call.               *)
RamIsPlenty == RamOf(Candidates) < TotalRam

(* rule3 and rule4 (min threads first): when only the threads are short, no *)
(* set of applications that fits has more members than the answer.          *)
MinThreadsServesMost ==
    pc = "returned" /\ rule \in {"rule3", "rule4"} /\ RamIsPlenty =>
        \A S \in SUBSET Candidates :
            Fits(S, Budget(rule, idle)) => Cardinality(S) <= Cardinality(Answer)

(* rule6 (max threads first): when only the threads are short, the answer   *)
(* uses at least half of the idle threads that any set could use.           *)
MaxThreadsUsesHalf ==
    pc = "returned" /\ rule = "rule6" /\ RamIsPlenty =>
        \A S \in SUBSET Candidates :
            Fits(S, Budget(rule, idle)) => ThreadsOf(S) <= 2 * ThreadsOf(Answer)

(* What the two orders of rules.py are for: serving many, using much.       *)
GreedyServesWell == MinThreadsServesMost /\ MaxThreadsUsesHalf

(* Every call returns: each iteration of a rule's loop removes the key it   *)
(* looked at, the skipped and the refused ones too.                         *)
RuleReturns == <>(pc = "returned")

(* rules.py:3 and rules.py:65 "min cache misses": rule1 and rule2 look at   *)
(* the applications in the order of their cache misses, so one that is      *)
(* looked at has no more misses than those still in the map.                *)
MinMissesFirst ==
    [][(rule \in {"rule1", "rule2"}) =>
          \A a \in Range(app_stats_map) \ Range(app_stats_map') :
             \A b \in Range(app_stats_map') : Misses[a] <= Misses[b]]_vars

==============================================================================
