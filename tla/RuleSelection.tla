---------------------------- MODULE RuleSelection ----------------------------
(***************************************************************************)
(* What the scheduling rules of common/imports/rules.py promise to the     *)
(* scheduler that calls them, whatever order they visit the applications   *)
(* in: the set they return fits the thread budget and the machine's        *)
(* memory, and no application they left out would still have fitted.       *)
(* Module Rules models the loops themselves and shows that they return one *)
(* of these sets; module ParallelDmtcp uses them as the outcomes of a rule.*)
(***************************************************************************)
EXTENDS Naturals, FiniteSets, FiniteSetsExt

CONSTANTS
    Apps,       \* application instances (the NN in appdata/NN.xml)
    Threads,    \* THREADS element of an application's xml
    Ram,        \* VmRSS of an application, in the unit of MemTotal
    TotalRam    \* MemTotal of the machine

ASSUME RuleAssumption ==
    /\ IsFiniteSet(Apps)
    /\ Threads \in [Apps -> Nat]
    /\ Ram \in [Apps -> Nat]
    /\ TotalRam \in Nat \ {0}

ThreadsOf(S) == MapThenSumSet(LAMBDA a : Threads[a], S)

RamOf(S) == MapThenSumSet(LAMBDA a : Ram[a], S)

(* (totalram - ram) > 0 is strict and (totalthreads - thread) >= 0 is not,  *)
(* so a chosen set may use every thread but never all of the memory.        *)
Fits(S, budget) == ThreadsOf(S) <= budget /\ RamOf(S) < TotalRam

(* The sets a greedy pass over the candidates can end with, over all the    *)
(* orders in which it can visit them.                                       *)
MaximalFitting(candidates, budget) ==
    {S \in SUBSET candidates :
        /\ Fits(S, budget)
        /\ \A a \in candidates \ S : ~Fits(S \cup {a}, budget)}

(* rule1, rule2, rule3: a fixed thread budget, every known application is a *)
(* candidate, running or not.                                               *)
FixedRuleChoices(known, budget) == MaximalFitting(known, budget)

(* rule4, rule6: the budget is the number of idle cpus measured now, and an *)
(* application that is running is skipped, so it is never in the answer.    *)
IdleRuleChoices(known, running, idle) ==
    IF idle > 0 THEN MaximalFitting(known \ running, idle) ELSE {{}}

==============================================================================
