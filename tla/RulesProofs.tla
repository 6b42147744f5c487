----------------------------- MODULE RulesProofs -----------------------------
(***************************************************************************)
(* Proofs about the loops of rules.py, for any applications, in any order  *)
(* of the map, any numbers of threads and any amounts of memory.           *)
(***************************************************************************)
EXTENDS Rules, CollectionTheorems

Left == Range(app_stats_map)
Looked == Candidates \ Left
Refused == Looked \ Answer

Unique(s) == \A j, k \in 1 .. Len(s) : s[j] = s[k] => j = k

Lists ==
    /\ app_stats_map \in Seq(Apps) /\ Unique(app_stats_map)
    /\ next_runnable \in Seq(Apps) /\ Unique(next_runnable)
    /\ idle \in 0 .. 1000

(* What is left is what the applications in the answer do not use.          *)
Accounts ==
    /\ totalram = TotalRam - RamOf(Answer) /\ totalram > 0
    /\ totalthreads = Budget(rule, idle) - ThreadsOf(Answer)
    /\ Answer \subseteq Looked
    /\ rule \in IdleRules => Budget(rule, idle) > 0

(* Less and less is left, so one that was refused would still be.           *)
NothingFits == \A a \in Refused : totalram <= Ram[a] \/ totalthreads < Threads[a]

(* rule3, rule4 and rule6 look at the applications in the order of their    *)
(* threads.                                                                 *)
Sorted ==
    \A a \in known \ Left, b \in Left :
        /\ rule \in {"rule3", "rule4"} => Threads[a] <= Threads[b]
        /\ rule = "rule6" => Threads[a] >= Threads[b]

(* The smallest ones are served ...                                         *)
SmallestServed ==
    rule \in {"rule3", "rule4"} /\ RamIsPlenty =>
        \A a \in Answer, b \in Candidates \ Answer : Threads[a] <= Threads[b]

(* ... and the largest ones, except those that are too large.               *)
HalfUsed ==
    rule = "rule6" /\ RamIsPlenty =>
        \A b \in Refused : \/ Threads[b] > Budget(rule, idle)
                           \/ 2 * ThreadsOf(Answer) > Budget(rule, idle)

Served == Accounts /\ NothingFits /\ Sorted /\ SmallestServed /\ HalfUsed

IndInv ==
    /\ TypeOK /\ Lists
    /\ pc = "called" => Left = known /\ next_runnable = <<>>
    /\ pc = "loop" => Served
    /\ pc = "returned" => \/ Served /\ Left = {}
                          \/ rule \in IdleRules /\ Budget(rule, idle) = 0 /\ next_runnable = <<>>

------------------------------------------------------------------------------
(* No application has more threads than some number.                        *)
LEMMA Constants ==
    /\ Cpus \in Nat \ {0} /\ IdleTenths \subseteq 0 .. 1000
    /\ \E m \in Nat : \A a \in Apps : Threads[a] \in 1 .. m
<1>1. TooManyThreads \in Nat
  BY DEF TooManyThreads
<1>2. \A a \in Apps : Threads[a] \in 1 .. TooManyThreads
  BY <1>1, RuleAssumption, RulesAssumption
<1> QED BY <1>1, <1>2, RulesAssumption

(* The sums of RuleSelection are those of CollectionTheorems.               *)
LEMMA SumNames ==
    \A T : ThreadsOf(T) = SumOver(Threads, T) /\ RamOf(T) = SumOver(Ram, T)
BY DEF ThreadsOf, RamOf, SumOver

(* What they are.                                                           *)
LEMMA Sums ==
    ASSUME NEW S, S \subseteq Apps
    PROVE  /\ IsFiniteSet(S)
           /\ ThreadsOf(S) \in Nat /\ RamOf(S) \in Nat
           /\ \A a \in Apps \ S : /\ ThreadsOf(S \cup {a}) = ThreadsOf(S) + Threads[a]
                                  /\ RamOf(S \cup {a}) = RamOf(S) + Ram[a]
           /\ \A R \in SUBSET S : ThreadsOf(R) <= ThreadsOf(S) /\ RamOf(R) <= RamOf(S)
<1>1. Threads \in [Apps -> Nat] /\ Ram \in [Apps -> Nat] /\ IsFiniteSet(Apps)
  BY RuleAssumption
<1>3. IsFiniteSet(S)
  BY <1>1, FS_Subset
<1> QED BY <1>1, <1>3, SumNames, SumType, SumAdd, SumMonotone

(* One member of a set uses no more than all of them.                       *)
LEMMA OneOfMany ==
    ASSUME NEW S, S \subseteq Apps, NEW a \in S
    PROVE  Threads[a] <= ThreadsOf(S)
<1>1. PICK R : R = S \ {a}
  OBVIOUS
<1>2. R \cup {a} = S /\ a \in Apps \ R /\ R \subseteq Apps
  BY <1>1
<1>3. ThreadsOf(S) = ThreadsOf(R) + Threads[a] /\ ThreadsOf(R) \in Nat
  BY <1>2, Sums
<1>4. Threads[a] \in Nat
  BY RuleAssumption
<1> QED BY <1>3, <1>4

(* The threads a rule may give away are a natural number.                   *)
LEMMA BudgetType ==
    ASSUME NEW r \in RULES, NEW t \in Nat
    PROVE  /\ Budget(r, t) \in Nat
           /\ r \in IdleRules => Budget(r, t) = IdleThreads(t)
           /\ r \notin IdleRules => Budget(r, t) > 0
<1>1. Cpus \in Nat \ {0}
  BY Constants
<1>2. IdleThreads(t) \in Nat
  <2>1. PICK x \in Nat : x = (t + 5) \div 10
    OBVIOUS
  <2>2. x * Cpus \in Nat
    BY <1>1
  <2>3. getcpuidleperc(t) \in Nat
    BY <2>1, <2>2 DEF getcpuidleperc
  <2>4. PICK y \in Nat : y = getcpuidleperc(t)
    BY <2>3
  <2>5. y \div 100 \in Nat
    OBVIOUS
  <2> QED BY <2>4, <2>5 DEF IdleThreads
<1>3. CASE r \in {"rule1", "rule3"}
  BY <1>1, <1>3 DEF Budget, IdleRules
<1>4. CASE r = "rule2"
  BY <1>1, <1>4 DEF Budget, IdleRules
<1>5. CASE r \in IdleRules
  BY <1>2, <1>5 DEF Budget, IdleRules
<1> QED BY <1>3, <1>4, <1>5 DEF RULES, IdleRules

(* The same for the rule that is called.                                    *)
LEMMA BudgetNow ==
    ASSUME TypeOK, Lists
    PROVE  \E B \in Nat : /\ B = Budget(rule, idle)
                          /\ rule \in IdleRules => IdleThreads(idle) = B
                          /\ rule \notin IdleRules => B > 0
<1>1. rule \in RULES /\ idle \in Nat
  BY DEF TypeOK, Lists
<1>2. /\ Budget(rule, idle) \in Nat
      /\ rule \in IdleRules => Budget(rule, idle) = IdleThreads(idle)
      /\ rule \notin IdleRules => Budget(rule, idle) > 0
  BY <1>1, BudgetType, Zenon
<1> QED BY <1>2, Zenon

(* The application a rule looks at next is in the map, and for three of the *)
(* rules it is an extreme one.                                              *)
LEMMA NextAppFacts ==
    ASSUME NEW r \in RULES, NEW keys \in Seq(Apps), keys # <<>>
    PROVE  \E i \in 1 .. Len(keys) :
              /\ NextApp(r, keys) = keys[i]
              /\ r \in {"rule3", "rule4"} => \A j \in 1 .. Len(keys) : Threads[keys[i]] <= Threads[keys[j]]
              /\ r = "rule6" => \A j \in 1 .. Len(keys) : Threads[keys[i]] >= Threads[keys[j]]
<1>1. PICK n \in Nat : n = Len(keys) /\ n > 0
  BY EmptySeq, LenProperties
<1>0. PICK b \in Nat : \A a \in Apps : Threads[a] \in 1 .. b
  BY Constants
<1>2. \A i \in 1 .. n : keys[i] \in Apps /\ Threads[keys[i]] \in Nat /\ Threads[keys[i]] <= b
  BY <1>0, <1>1
<1>3. 1 \in 1 .. n
  BY <1>1
<1> DEFINE W == {Threads[keys[i]] : i \in 1 .. n}
<1>4. W \subseteq Nat /\ W # {} /\ \A x \in W : x <= b
  BY <1>2, <1>3
<1>5. CASE r \in {"rule1", "rule2"}
  <2> DEFINE below == {i \in 1 .. n : Misses[keys[i]] < Misses[keys[1]]}
             i == IF below = {} THEN 1 ELSE Max(below)
  <2>1. NextApp(r, keys) = keys[i]
    BY <1>1, <1>5 DEF NextApp, get_app_with_min_cache_misses
  <2>2. below # {} => Max(below) \in below
    <3>1. below \subseteq Nat /\ \A x \in below : x <= n
      OBVIOUS
    <3> HIDE DEF below
    <3>2. below # {} => \E m \in below : \A x \in below : m >= x
      BY <3>1, GreatestNumber
    <3> QED BY <3>2 DEF Max
  <2>3. i \in 1 .. n
    BY <1>3, <2>2
  <2> HIDE DEF i
  <2> QED BY <1>1, <1>5, <2>1, <2>3
<1>6. CASE r \in {"rule3", "rule4"}
  <2> DEFINE least == {i \in 1 .. n : \A j \in 1 .. n : Threads[keys[i]] <= Threads[keys[j]]}
  <2>1. NextApp(r, keys) = keys[Min(least)]
    BY <1>1, <1>6 DEF NextApp, get_app_with_min_threads
  <2>2. least # {}
    <3>1. PICK m \in W : \A x \in W : m <= x
      <4> HIDE DEF W
      <4> QED BY <1>4, LeastNumber
    <3>2. PICK i \in 1 .. n : m = Threads[keys[i]]
      OBVIOUS
    <3>3. \A j \in 1 .. n : Threads[keys[i]] <= Threads[keys[j]]
      BY <3>1, <3>2
    <3> QED BY <3>3
  <2>3. Min(least) \in least
    <3>1. least \subseteq Nat
      OBVIOUS
    <3> HIDE DEF least
    <3>2. \E m \in least : \A x \in least : m <= x
      BY <2>2, <3>1, LeastNumber
    <3> QED BY <3>2 DEF Min
  <2>4. PICK i \in least : i = Min(least)
    BY <2>3
  <2> QED BY <1>1, <1>6, <2>1, <2>4
<1>7. CASE r = "rule6"
  <2> DEFINE most == {i \in 1 .. n : \A j \in 1 .. n : Threads[keys[i]] >= Threads[keys[j]]}
  <2>1. NextApp(r, keys) = keys[Min(most)]
    BY <1>1, <1>7 DEF NextApp, get_app_with_max_threads
  <2>2. most # {}
    <3>1. PICK m \in W : \A x \in W : m >= x
      <4> HIDE DEF W
      <4> QED BY <1>4, GreatestNumber
    <3>2. PICK i \in 1 .. n : m = Threads[keys[i]]
      OBVIOUS
    <3>3. \A j \in 1 .. n : Threads[keys[i]] >= Threads[keys[j]]
      BY <3>1, <3>2
    <3> QED BY <3>3
  <2>3. Min(most) \in most
    <3>1. most \subseteq Nat
      OBVIOUS
    <3> HIDE DEF most
    <3>2. \E m \in most : \A x \in most : m <= x
      BY <2>2, <3>1, LeastNumber
    <3> QED BY <3>2 DEF Min
  <2>4. PICK i \in most : i = Min(most)
    BY <2>3
  <2> QED BY <1>1, <1>7, <2>1, <2>4
<1> QED BY <1>5, <1>6, <1>7 DEF RULES

------------------------------------------------------------------------------
(* The map may list its keys in any order, each of them once.               *)
LEMMA InitIndInv == Init => IndInv
<1> SUFFICES ASSUME Init PROVE IndInv
  OBVIOUS
<1>1. PICK S \in SUBSET Apps : app_stats_map \in SetToSeqs(S)
  BY DEF Init, SetToAllKPermutations
<1>2. PICK keys : keys = app_stats_map
  OBVIOUS
<1>3. PICK n \in Nat : n = Cardinality(S)
  BY RuleAssumption, FS_Subset, FS_CardinalityType
<1>4. /\ keys \in [1 .. n -> S]
      /\ \A j, k \in 1 .. n : j # k => keys[j] # keys[k]
  BY <1>1, <1>2, <1>3 DEF SetToSeqs
<1>5. keys \in Seq(Apps) /\ Len(keys) = n
  BY <1>4
<1>6. Unique(keys)
  BY <1>4, <1>5 DEF Unique
<1>7. Range(keys) \subseteq Apps
  BY <1>4 DEF Range
<1>8. idle \in 0 .. 1000
  BY Constants DEF Init
<1>9. TypeOK
  <2>1. Range(next_runnable) = {}
    BY DEF Init, Range
  <2> QED BY <1>2, <1>7, <2>1 DEF TypeOK, Init
<1>10. Lists
  <2>1. next_runnable \in Seq(Apps) /\ Unique(next_runnable)
    BY DEF Init, Unique
  <2> QED BY <1>2, <1>5, <1>6, <1>8, <2>1 DEF Lists
<1> QED BY <1>9, <1>10 DEF IndInv, Init, Left

(* Where the memory is plenty, it is never the reason to refuse.            *)
LEMMA PlentyFits ==
    ASSUME TypeOK, Accounts, RamIsPlenty, NEW b \in Candidates \ Answer
    PROVE  totalram > Ram[b]
<1>1. PICK A, C : A = Answer /\ C = Candidates
  OBVIOUS
<1>2. A \subseteq C /\ C \subseteq Apps
  BY <1>1 DEF Accounts, Looked, Candidates, TypeOK
<1>3. b \in C /\ b \in Apps \ A /\ A \cup {b} \in SUBSET C
  BY <1>1, <1>2
<1>4. /\ RamOf(A \cup {b}) = RamOf(A) + Ram[b] /\ RamOf(A \cup {b}) <= RamOf(C)
      /\ RamOf(A) \in Nat /\ RamOf(C) \in Nat
  BY <1>2, <1>3, Sums
<1>5. totalram = TotalRam - RamOf(A) /\ RamOf(C) < TotalRam
  BY <1>1 DEF Accounts, RamIsPlenty
<1>6. Ram[b] \in Nat /\ TotalRam \in Nat
  BY <1>3, RuleAssumption
<1> QED BY <1>4, <1>5, <1>6

(* The lines before the loop.                                               *)
LEMMA BeginStep == IndInv /\ Begin => IndInv'
<1> SUFFICES ASSUME IndInv, Begin PROVE IndInv'
  OBVIOUS
<1>1. TypeOK /\ Lists /\ Left = known /\ next_runnable = <<>>
  BY DEF IndInv, Begin
<1>2. PICK B \in Nat : B = Budget(rule, idle)
  BY <1>1, BudgetNow
<1>3. /\ UNCHANGED <<rule, app_stats_map, runninglist, idle, next_runnable, known>>
      /\ totalram' = TotalRam /\ totalthreads' = B
      /\ pc' = IF rule \in IdleRules /\ B = 0 THEN "returned" ELSE "loop"
  BY <1>2 DEF Begin
<1>4. TypeOK'
  BY <1>1, <1>3, RuleAssumption DEF TypeOK
<1>5. Lists'
  BY <1>1, <1>3 DEF Lists
<1>6. Budget(rule, idle)' = B
  BY <1>2, <1>3
<1>7. Answer' = {} /\ Left' = known'
  BY <1>1, <1>3 DEF Answer, Range, Left
<1>8. Looked' = {} /\ Refused' = {}
  BY <1>4, <1>7 DEF Looked, Refused, Candidates
<1>9. ThreadsOf({}) = 0 /\ RamOf({}) = 0
  BY SumEmpty, SumNames
<1>10. ASSUME pc' = "loop" PROVE Served'
  <2>1. Accounts'
    <3>1. totalram' = TotalRam - RamOf(Answer)' /\ totalram' > 0
      BY <1>3, <1>7, <1>9, RuleAssumption
    <3>2. totalthreads' = Budget(rule, idle)' - ThreadsOf(Answer)'
      BY <1>3, <1>6, <1>7, <1>9
    <3>3. rule' \in IdleRules => Budget(rule, idle)' > 0
      BY <1>3, <1>6, <1>10
    <3> QED BY <1>7, <3>1, <3>2, <3>3 DEF Accounts
  <2>2. NothingFits' /\ SmallestServed' /\ HalfUsed'
    BY <1>7, <1>8 DEF NothingFits, SmallestServed, HalfUsed
  <2>3. Sorted'
    BY <1>7 DEF Sorted
  <2> QED BY <2>1, <2>2, <2>3 DEF Served
<1>11. pc' = "returned" => rule' \in IdleRules /\ Budget(rule, idle)' = 0 /\ next_runnable' = <<>>
  BY <1>1, <1>3, <1>6
<1>12. pc' # "called"
  BY <1>3
<1> QED BY <1>4, <1>5, <1>10, <1>11, <1>12 DEF IndInv

(* One iteration: what it does to the map, whatever becomes of app.         *)
LEMMA IterateMap ==
    ASSUME IndInv, Iterate
    PROVE  \E app \in Left :
              /\ app = NextApp(rule, app_stats_map) /\ app \notin Answer
              /\ Left' = Left \ {app}
              /\ app_stats_map' \in Seq(Apps) /\ Unique(app_stats_map')
              /\ rule \in {"rule3", "rule4"} => \A b \in Left : Threads[app] <= Threads[b]
              /\ rule = "rule6" => \A b \in Left : Threads[app] >= Threads[b]
<1>1. PICK keys \in Seq(Apps) : keys = app_stats_map /\ keys # <<>> /\ Unique(keys)
  BY DEF IndInv, Lists, Iterate
<1>2. PICK r \in RULES : r = rule
  BY DEF IndInv, TypeOK
<1>3. PICK app : app = NextApp(r, keys)
  OBVIOUS
<1>4. PICK i \in 1 .. Len(keys) :
         /\ app = keys[i]
         /\ r \in {"rule3", "rule4"} => \A j \in 1 .. Len(keys) : Threads[keys[i]] <= Threads[keys[j]]
         /\ r = "rule6" => \A j \in 1 .. Len(keys) : Threads[keys[i]] >= Threads[keys[j]]
  BY <1>1, <1>3, NextAppFacts
<1>5. PICK k \in 1 .. Len(keys) : keys[k] = app /\ app_stats_map' = RemoveAt(keys, k)
  BY <1>1, <1>2, <1>3 DEF Iterate, Pop
<1>6. /\ RemoveAt(keys, k) \in Seq(Apps)
      /\ ToSet(RemoveAt(keys, k)) = ToSet(keys) \ {keys[k]}
      /\ Unique(RemoveAt(keys, k))
  BY <1>1, RemoveAtFacts DEF Unique
<1>7. Left = ToSet(keys) /\ Left' = ToSet(RemoveAt(keys, k))
  BY <1>1, <1>5 DEF Left, Range, ToSet
<1>8. Left = {keys[j] : j \in 1 .. Len(keys)}
  BY <1>7 DEF ToSet
<1>9. app \in Left
  BY <1>4, <1>8
<1>10. app \notin Answer
  BY <1>9 DEF IndInv, Iterate, Served, Accounts, Looked
<1>11. r \in {"rule3", "rule4"} => \A b \in Left : Threads[app] <= Threads[b]
  BY <1>4, <1>8
<1>12. r = "rule6" => \A b \in Left : Threads[app] >= Threads[b]
  BY <1>4, <1>8
<1> QED BY <1>1, <1>2, <1>3, <1>5, <1>6, <1>7, <1>9, <1>10, <1>11, <1>12

(* An iteration that leaves app out, because it runs or does not fit.       *)
LEMMA LeaveOut ==
    ASSUME IndInv, Iterate, NEW app \in Left, app \notin Answer, Left' = Left \ {app},
           rule = "rule6" => \A b \in Left : Threads[app] >= Threads[b],
           Skipped(rule, app) \/ ~Admissible(app),
           UNCHANGED <<totalram, totalthreads, next_runnable>>
    PROVE  Accounts' /\ NothingFits' /\ SmallestServed' /\ HalfUsed'
<1>1. TypeOK /\ Lists /\ Served /\ pc = "loop"
  BY DEF IndInv, Iterate
<1>2. UNCHANGED <<rule, runninglist, idle, known>>
  BY DEF Iterate
<1>3. Answer' = Answer /\ Candidates' = Candidates /\ (RamIsPlenty' <=> RamIsPlenty)
  BY <1>2 DEF Answer, Candidates, RamIsPlenty
<1>4. Budget(rule, idle)' = Budget(rule, idle)
  BY <1>2
<1>5. Looked \subseteq Looked' /\ Looked' \subseteq Looked \cup {app}
  BY <1>3 DEF Looked
<1>6. Accounts'
  <2>1. ThreadsOf(Answer)' = ThreadsOf(Answer) /\ RamOf(Answer)' = RamOf(Answer)
    BY <1>3
  <2> QED BY <1>1, <1>2, <1>3, <1>4, <1>5, <2>1 DEF Served, Accounts
<1>7. ASSUME app \in Candidates PROVE totalram <= Ram[app] \/ totalthreads < Threads[app]
  <2>1. ~Skipped(rule, app)
    BY <1>7 DEF Skipped, Candidates
  <2>2. totalram \in Nat /\ totalthreads \in Nat /\ Ram[app] \in Nat /\ Threads[app] \in Nat
    BY <1>1, <1>7, RuleAssumption DEF TypeOK, Candidates
  <2> QED BY <2>1, <2>2 DEF Admissible
<1>8. Refused' \subseteq Refused \cup ({app} \cap Candidates)
  BY <1>3, <1>5 DEF Refused, Looked
<1>9. NothingFits'
  BY <1>1, <1>7, <1>8 DEF Served, NothingFits
<1>10. SmallestServed'
  BY <1>1, <1>2, <1>3 DEF Served, SmallestServed
<1>11. HalfUsed'
  <2> SUFFICES ASSUME rule = "rule6", RamIsPlenty, NEW b \in Refused'
               PROVE  Threads[b] > Budget(rule, idle) \/ 2 * ThreadsOf(Answer) > Budget(rule, idle)
    <3>1. ThreadsOf(Answer)' = ThreadsOf(Answer)
      BY <1>3
    <3> QED BY <1>2, <1>3, <1>4, <3>1 DEF HalfUsed
  <2>1. CASE b \in Refused
    BY <1>1, <2>1 DEF Served, HalfUsed
  <2>2. CASE b = app /\ app \in Candidates
    <3>1. totalram > Ram[app]
      BY <1>1, <2>2, PlentyFits DEF Served
    <3>2. PICK A : A = Answer /\ A \subseteq Apps
      BY <1>1 DEF TypeOK, Answer
    <3>3. PICK t \in Nat : t = ThreadsOf(A)
      BY <3>2, Sums
    <3>4. PICK B \in Nat : B = Budget(rule, idle)
      BY <1>1, BudgetNow
    <3>5. totalthreads = B - t
      BY <1>1, <3>2, <3>3, <3>4 DEF Served, Accounts
    <3>6. app \in Apps /\ totalram \in Nat /\ Ram[app] \in Nat /\ Threads[app] \in Nat
      BY <1>1, <2>2, RuleAssumption DEF TypeOK, Candidates
    <3>7. B - t < Threads[app]
      BY <1>7, <2>2, <3>1, <3>5, <3>6
    <3>8. CASE A = {}
      <4>1. t = 0
        BY <3>3, <3>8, SumEmpty, SumNames
      <4> QED BY <2>2, <3>4, <3>6, <3>7, <4>1
    <3>9. CASE A # {}
      <4>1. PICK a \in A : TRUE
        BY <3>9
      <4>2. a \in known \ Left
        BY <1>1, <3>2, <4>1 DEF Served, Accounts, Looked, TypeOK, Answer
      <4>3. Threads[a] >= Threads[app]
        BY <1>1, <4>2 DEF Served, Sorted
      <4>4. Threads[a] <= t /\ Threads[a] \in Nat
        BY <3>2, <3>3, <4>1, OneOfMany, RuleAssumption
      <4>5. 2 * t > B
        BY <3>6, <3>7, <4>3, <4>4
      <4> QED BY <3>2, <3>3, <3>4, <4>5
    <3> QED BY <3>8, <3>9
  <2> QED BY <1>8, <2>1, <2>2
<1> QED BY <1>6, <1>9, <1>10, <1>11

(* An iteration that takes app.                                             *)
LEMMA TakeIn ==
    ASSUME IndInv, Iterate, NEW app \in Left, app \notin Answer, Left' = Left \ {app},
           rule \in {"rule3", "rule4"} => \A b \in Left : Threads[app] <= Threads[b],
           ~Skipped(rule, app), Admissible(app),
           totalram' = totalram - Ram[app], totalthreads' = totalthreads - Threads[app],
           Answer' = Answer \cup {app}
    PROVE  Accounts' /\ NothingFits' /\ SmallestServed' /\ HalfUsed'
<1>1. TypeOK /\ Lists /\ Served /\ pc = "loop"
  BY DEF IndInv, Iterate
<1>2. UNCHANGED <<rule, runninglist, idle, known>>
  BY DEF Iterate
<1>3. Candidates' = Candidates /\ (RamIsPlenty' <=> RamIsPlenty)
  BY <1>2 DEF Candidates, RamIsPlenty
<1>4. PICK B \in Nat : B = Budget(rule, idle) /\ Budget(rule, idle)' = B
  <2>1. PICK B \in Nat : B = Budget(rule, idle)
    BY <1>1, BudgetNow
  <2>2. Budget(rule, idle)' = Budget(rule, idle)
    BY <1>2 DEF Budget, IdleThreads, getcpuidleperc
  <2> QED BY <2>1, <2>2
<1>5. PICK A : A = Answer /\ A \subseteq Apps
  BY <1>1 DEF TypeOK, Answer
<1>6. app \in Candidates /\ app \in Apps \ A
  BY <1>1, <1>5 DEF Left, TypeOK, Skipped, Candidates
<1>7. /\ ThreadsOf(A \cup {app}) = ThreadsOf(A) + Threads[app]
      /\ RamOf(A \cup {app}) = RamOf(A) + Ram[app]
      /\ ThreadsOf(A) \in Nat /\ RamOf(A) \in Nat
      /\ Threads[app] \in Nat /\ Ram[app] \in Nat /\ TotalRam \in Nat
  BY <1>5, <1>6, Sums, RuleAssumption
<1>8. /\ totalram = TotalRam - RamOf(A) /\ totalthreads = B - ThreadsOf(A)
      /\ totalram - Ram[app] > 0 /\ totalthreads - Threads[app] >= 0
  BY <1>1, <1>4, <1>5 DEF Served, Accounts, Admissible
<1>9. Looked' = Looked \cup {app} /\ app \notin Looked
  BY <1>3, <1>6 DEF Looked
<1>10. Refused' = Refused
  BY <1>9 DEF Refused
<1>11. ThreadsOf(Answer)' = ThreadsOf(A) + Threads[app] /\ RamOf(Answer)' = RamOf(A) + Ram[app]
  BY <1>5, <1>7
<1>12. Accounts'
  <2>1. totalram' = TotalRam - RamOf(Answer)' /\ totalram' > 0
    BY <1>7, <1>8, <1>11
  <2>2. totalthreads' = B - ThreadsOf(Answer)'
    BY <1>7, <1>8, <1>11
  <2>3. Answer' \subseteq Looked'
    BY <1>1, <1>9 DEF Served, Accounts
  <2>4. rule' \in IdleRules => Budget(rule, idle)' > 0
    BY <1>1, <1>2, <1>4 DEF Served, Accounts
  <2> QED BY <1>4, <2>1, <2>2, <2>3, <2>4 DEF Accounts
<1>13. \A b \in Refused : Threads[b] \in Nat /\ Ram[b] \in Nat /\ b \in Candidates \ Answer
  BY <1>1, RuleAssumption DEF Refused, Looked, Candidates, TypeOK
<1>14. totalram \in Nat /\ totalthreads \in Nat
  BY <1>1 DEF TypeOK
<1>15. NothingFits'
  <2> SUFFICES ASSUME NEW b \in Refused PROVE totalram' <= Ram[b] \/ totalthreads' < Threads[b]
    BY <1>10 DEF NothingFits
  <2>1. totalram <= Ram[b] \/ totalthreads < Threads[b]
    BY <1>1 DEF Served, NothingFits
  <2> QED BY <1>7, <1>13, <1>14, <2>1
<1>16. SmallestServed'
  <2> SUFFICES ASSUME rule \in {"rule3", "rule4"}, RamIsPlenty,
                      NEW a \in Answer \cup {app}, NEW b \in Candidates \ (Answer \cup {app})
               PROVE  Threads[a] <= Threads[b]
    BY <1>2, <1>3 DEF SmallestServed
  <2>1. CASE a \in Answer
    BY <1>1, <2>1 DEF Served, SmallestServed
  <2>2. CASE a = app /\ b \in Left
    BY <2>2
  <2>3. CASE a = app /\ b \notin Left
    <3>1. b \in Refused
      BY <2>3 DEF Refused, Looked
    <3>2. totalram > Ram[b]
      BY <1>1, PlentyFits DEF Served
    <3>3. totalthreads < Threads[b]
      BY <1>1, <1>13, <1>14, <3>1, <3>2 DEF Served, NothingFits
    <3> QED BY <1>7, <1>8, <1>13, <1>14, <2>3, <3>1, <3>3
  <2> QED BY <2>1, <2>2, <2>3
<1>17. HalfUsed'
  <2> SUFFICES ASSUME rule = "rule6", RamIsPlenty, NEW b \in Refused
               PROVE  Threads[b] > B \/ 2 * ThreadsOf(Answer)' > B
    BY <1>2, <1>3, <1>4, <1>10 DEF HalfUsed
  <2>1. Threads[b] > B \/ 2 * ThreadsOf(A) > B
    BY <1>1, <1>4, <1>5 DEF Served, HalfUsed
  <2> QED BY <1>7, <1>11, <2>1
<1> QED BY <1>12, <1>15, <1>16, <1>17

(* One iteration of a rule's loop.                                          *)
LEMMA IterateStep == IndInv /\ Iterate => IndInv'
<1> SUFFICES ASSUME IndInv, Iterate PROVE IndInv'
  OBVIOUS
<1>1. TypeOK /\ Lists /\ Served /\ pc = "loop"
  BY DEF IndInv, Iterate
<1>2. UNCHANGED <<rule, runninglist, idle, known, pc>>
  BY DEF Iterate
<1>3. PICK app \in Left :
         /\ app = NextApp(rule, app_stats_map) /\ app \notin Answer
         /\ Left' = Left \ {app}
         /\ app_stats_map' \in Seq(Apps) /\ Unique(app_stats_map')
         /\ rule \in {"rule3", "rule4"} => \A b \in Left : Threads[app] <= Threads[b]
         /\ rule = "rule6" => \A b \in Left : Threads[app] >= Threads[b]
  BY IterateMap
<1>4. app \in known /\ app \in Apps /\ Left \subseteq known
  BY <1>1 DEF Left, TypeOK
<1>5. Sorted'
  <2> SUFFICES ASSUME NEW a \in known \ Left', NEW b \in Left'
               PROVE  /\ rule \in {"rule3", "rule4"} => Threads[a] <= Threads[b]
                      /\ rule = "rule6" => Threads[a] >= Threads[b]
    BY <1>2 DEF Sorted
  <2>1. CASE a = app
    BY <1>3, <2>1
  <2>2. CASE a \in known \ Left
    BY <1>1, <1>3, <2>2 DEF Served, Sorted
  <2> QED BY <1>3, <2>1, <2>2
<1>6. CASE Skipped(rule, app) \/ ~Admissible(app)
  <2>1. UNCHANGED <<totalram, totalthreads, next_runnable>>
    BY <1>3, <1>6 DEF Iterate
  <2>2. Accounts' /\ NothingFits' /\ SmallestServed' /\ HalfUsed'
    BY <1>3, <1>6, <2>1, LeaveOut
  <2>3. TypeOK'
    BY <1>1, <1>2, <1>3, <2>1 DEF TypeOK, Left
  <2>4. Lists'
    BY <1>1, <1>2, <1>3, <2>1 DEF Lists
  <2> QED BY <1>1, <1>2, <1>5, <2>2, <2>3, <2>4 DEF IndInv, Served
<1>7. CASE ~Skipped(rule, app) /\ Admissible(app)
  <2>1. /\ totalram' = totalram - Ram[app] /\ totalthreads' = totalthreads - Threads[app]
        /\ next_runnable' = Append(next_runnable, app)
    BY <1>3, <1>7 DEF Iterate
  <2>2. PICK ans \in Seq(Apps) : ans = next_runnable /\ Unique(ans)
    BY <1>1 DEF Lists
  <2>3. Answer = ToSet(ans) /\ Answer' = ToSet(Append(ans, app))
    BY <2>1, <2>2 DEF Answer, Range, ToSet
  <2>4. /\ Append(ans, app) \in Seq(Apps) /\ Unique(Append(ans, app))
        /\ ToSet(Append(ans, app)) = ToSet(ans) \cup {app}
    BY <1>3, <1>4, <2>2, <2>3, AppendFacts DEF Unique
  <2>5. Answer' = Answer \cup {app}
    BY <2>3, <2>4
  <2>6. Accounts' /\ NothingFits' /\ SmallestServed' /\ HalfUsed'
    BY <1>3, <1>7, <2>1, <2>5, TakeIn
  <2>7. TypeOK'
    <3>1. totalram' \in Nat /\ totalthreads' \in Nat
      BY <1>1, <1>4, <1>7, <2>1, RuleAssumption DEF TypeOK, Admissible
    <3>2. Range(next_runnable') \subseteq known'
      BY <1>1, <1>2, <1>4, <2>5 DEF TypeOK, Answer
    <3>3. Range(app_stats_map') \subseteq known'
      BY <1>2, <1>3, <1>4 DEF Left
    <3> QED BY <1>1, <1>2, <3>1, <3>2, <3>3 DEF TypeOK
  <2>8. Lists'
    BY <1>1, <1>2, <1>3, <2>1, <2>2, <2>4 DEF Lists
  <2> QED BY <1>1, <1>2, <1>5, <2>6, <2>7, <2>8 DEF IndInv, Served
<1> QED BY <1>6, <1>7

(* The map is empty and the rule returns.                                   *)
LEMMA ReturnStep == IndInv /\ Return => IndInv'
<1> SUFFICES ASSUME IndInv, Return PROVE IndInv'
  OBVIOUS
<1>1. TypeOK /\ Lists /\ Served
  BY DEF IndInv, Return
<1>2. UNCHANGED <<rule, app_stats_map, runninglist, idle, totalram, totalthreads, next_runnable, known>>
  BY DEF Return
<1>3. TypeOK' /\ Lists'
  BY <1>1, <1>2 DEF Return, TypeOK, Lists
<1>4. Left' = {} /\ pc' = "returned"
  BY DEF Return, Left, Range
<1>5. Served'
  BY <1>1, <1>2 DEF Served, Accounts, NothingFits, Sorted, SmallestServed, HalfUsed, Refused,
                    Looked, Left, Answer, Candidates, RamIsPlenty
<1> QED BY <1>3, <1>4, <1>5 DEF IndInv

(* IndInv holds in every state of every call.                               *)
THEOREM IndInvHolds == Spec => []IndInv
<1>1. Init => IndInv
  BY InitIndInv
<1>2. IndInv /\ [Next]_vars => IndInv'
  <2> SUFFICES ASSUME IndInv, [Next]_vars PROVE IndInv'
    OBVIOUS
  <2>1. CASE UNCHANGED vars
    BY <2>1 DEF vars, IndInv, TypeOK, Lists, Served, Accounts, NothingFits, Sorted, SmallestServed,
                HalfUsed, Refused, Looked, Left, Answer, Candidates, RamIsPlenty
  <2> QED BY <2>1, BeginStep, IterateStep, ReturnStep DEF Next
<1> QED BY <1>1, <1>2, PTL DEF Spec

------------------------------------------------------------------------------
(* A call that returns after its loop: nothing is left to look at.          *)
LEMMA AfterLoop ==
    ASSUME TypeOK, Lists, Served, Left = {}
    PROVE  /\ Answer \in MaximalFitting(Candidates, Budget(rule, idle))
           /\ Refused = Candidates \ Answer
<1>1. PICK A, C : A = Answer /\ C = Candidates
  OBVIOUS
<1>2. A \subseteq C /\ C \subseteq Apps
  BY <1>1 DEF Served, Accounts, Looked, Candidates, TypeOK
<1>3. PICK B \in Nat : B = Budget(rule, idle)
  BY BudgetNow
<1>4. /\ totalram = TotalRam - RamOf(A) /\ totalram > 0 /\ totalthreads = B - ThreadsOf(A)
      /\ totalthreads \in Nat /\ totalram \in Nat
  BY <1>1, <1>3 DEF Served, Accounts, TypeOK
<1>5. ThreadsOf(A) \in Nat /\ RamOf(A) \in Nat /\ TotalRam \in Nat
  BY <1>2, Sums, RuleAssumption
<1>6. Fits(A, B)
  BY <1>4, <1>5 DEF Fits
<1>7. Refused = C \ A
  BY <1>1 DEF Refused, Looked
<1>8. ASSUME NEW a \in C \ A PROVE ~Fits(A \cup {a}, B)
  <2>1. totalram <= Ram[a] \/ totalthreads < Threads[a]
    BY <1>7 DEF Served, NothingFits
  <2>2. /\ ThreadsOf(A \cup {a}) = ThreadsOf(A) + Threads[a]
        /\ RamOf(A \cup {a}) = RamOf(A) + Ram[a]
    BY <1>2, Sums
  <2>3. Threads[a] \in Nat /\ Ram[a] \in Nat
    BY <1>2, RuleAssumption
  <2> QED BY <1>4, <1>5, <2>1, <2>2, <2>3 DEF Fits
<1>9. A \in MaximalFitting(C, B)
  BY <1>2, <1>6, <1>8 DEF MaximalFitting
<1> QED BY <1>1, <1>3, <1>7, <1>9

(* Whatever the order of the keys, what a rule of rules.py returns names no *)
(* application twice, fits the threads and the memory, and leaves out       *)
(* nothing that would still fit.                                            *)
THEOREM AnswersArePromised == Spec => []AnswerIsPromised
<1>1. IndInv => AnswerIsPromised
  <2> SUFFICES ASSUME IndInv, pc = "returned"
               PROVE  /\ Len(next_runnable) = Cardinality(Answer)
                      /\ rule \in IdleRules =>
                            Answer \in IdleRuleChoices(known, runninglist, IdleThreads(idle))
                      /\ rule \notin IdleRules =>
                            Answer \in FixedRuleChoices(known, Budget(rule, idle))
    BY DEF IndInv, AnswerIsPromised
  <2>1. TypeOK /\ Lists
    BY DEF IndInv
  <2>2. Len(next_runnable) = Cardinality(Answer)
    <3>1. PICK ans \in Seq(Apps) : ans = next_runnable /\ Unique(ans)
      BY <2>1 DEF Lists
    <3>2. Cardinality(ToSet(ans)) = Len(ans)
      BY <3>1, ListCardinality DEF Unique
    <3>3. Answer = ToSet(ans)
      BY <3>1 DEF Answer, Range, ToSet
    <3> QED BY <3>1, <3>2, <3>3
  <2>3. PICK B \in Nat : B = Budget(rule, idle) /\ (rule \in IdleRules => IdleThreads(idle) = B)
    BY <2>1, BudgetNow
  <2>4. CASE Served /\ Left = {}
    <3>1. Answer \in MaximalFitting(Candidates, B)
      BY <2>1, <2>3, <2>4, AfterLoop
    <3>2. rule \in IdleRules => B > 0 /\ Candidates = known \ runninglist
      BY <2>3, <2>4 DEF Served, Accounts, Candidates
    <3>3. rule \notin IdleRules => Candidates = known
      BY DEF Candidates
    <3>4. rule \in IdleRules => Answer \in IdleRuleChoices(known, runninglist, B)
      BY <3>1, <3>2 DEF IdleRuleChoices
    <3> QED BY <2>2, <2>3, <3>1, <3>3, <3>4 DEF FixedRuleChoices
  <2>5. CASE rule \in IdleRules /\ B = 0 /\ next_runnable = <<>>
    <3>1. Answer = {}
      BY <2>5 DEF Answer, Range
    <3>2. Answer \in IdleRuleChoices(known, runninglist, B)
      BY <2>5, <3>1 DEF IdleRuleChoices
    <3> QED BY <2>2, <2>3, <2>5, <3>2
  <2> QED BY <2>3, <2>4, <2>5 DEF IndInv
<1> QED BY <1>1, IndInvHolds, PTL

(* Nothing fits where no cpu is idle.                                       *)
LEMMA NothingIdle ==
    ASSUME NEW S, S \subseteq Apps, Fits(S, 0) PROVE S = {}
<1> SUFFICES ASSUME NEW a \in S PROVE FALSE
  OBVIOUS
<1>1. Threads[a] <= ThreadsOf(S) /\ ThreadsOf(S) \in Nat /\ ThreadsOf(S) <= 0
  BY OneOfMany, Sums DEF Fits
<1>2. Threads[a] \in Nat /\ Threads[a] > 0
  BY Constants
<1> QED BY <1>1, <1>2

(* An exchange argument.  Had a set that fits more members than the answer, *)
(* it would have one that was refused, c, and the others, which are at      *)
(* least as many as the answer's and none smaller, would need the threads   *)
(* that left no room for c.                                                 *)
LEMMA ServesMost ==
    ASSUME TypeOK, Lists, Served, Left = {}, rule \in {"rule3", "rule4"}, RamIsPlenty,
           NEW S \in SUBSET Candidates, Fits(S, Budget(rule, idle))
    PROVE  Cardinality(S) <= Cardinality(Answer)
<1>1. PICK A, C : A = Answer /\ C = Candidates
  OBVIOUS
<1>2. A \subseteq C /\ S \subseteq C /\ C \subseteq Apps
  BY <1>1 DEF Served, Accounts, Looked, Candidates, TypeOK
<1>3. PICK B \in Nat : B = Budget(rule, idle)
  BY BudgetNow
<1>4. IsFiniteSet(A) /\ IsFiniteSet(S)
  BY <1>2, RuleAssumption, FS_Subset
<1>5. Cardinality(A) \in Nat /\ Cardinality(S) \in Nat
  BY <1>4, FS_CardinalityType
<1> SUFFICES ASSUME Cardinality(S) > Cardinality(A) PROVE FALSE
  BY <1>1, <1>5
<1>6. PICK c \in S : c \notin A
  <2>1. S \subseteq A => Cardinality(S) <= Cardinality(A)
    BY <1>4, FS_Subset
  <2> QED BY <1>5, <2>1
<1>7. PICK T : T = S \ {c}
  OBVIOUS
<1>8. IsFiniteSet(T) /\ Cardinality(T) = Cardinality(S) - 1 /\ T \subseteq Apps
  BY <1>2, <1>4, <1>7, FS_RemoveElement
<1>9. \A x \in T \ A, y \in A \ T : Threads[y] <= Threads[x]
  BY <1>1, <1>2, <1>7 DEF Served, SmallestServed
<1>10. ThreadsOf(A) <= ThreadsOf(T)
  <2>1. Threads \in [Apps -> Nat] /\ A \subseteq Apps /\ Cardinality(A) <= Cardinality(T)
    BY <1>2, <1>5, <1>8, RuleAssumption
  <2>2. SumOver(Threads, A) <= SumOver(Threads, T)
    BY <1>4, <1>8, <1>9, <2>1, SumDominated
  <2> QED BY <2>2, SumNames
<1>11. ThreadsOf(S) = ThreadsOf(T) + Threads[c]
  <2>1. T \cup {c} = S /\ c \in Apps \ T
    BY <1>2, <1>7
  <2> QED BY <1>8, <2>1, Sums
<1>12. ThreadsOf(A) \in Nat /\ ThreadsOf(T) \in Nat /\ Threads[c] \in Nat /\ Ram[c] \in Nat
  BY <1>2, <1>8, Sums, RuleAssumption
<1>13. totalthreads < Threads[c]
  <2>1. c \in Refused
    BY <1>1, <1>2, <1>6, AfterLoop
  <2>2. totalram > Ram[c] /\ totalram \in Nat
    BY <1>1, <1>2, <1>6, PlentyFits DEF Served, TypeOK
  <2> QED BY <1>12, <2>1, <2>2 DEF Served, NothingFits
<1>14. totalthreads = B - ThreadsOf(A) /\ ThreadsOf(S) <= B
  BY <1>1, <1>3 DEF Served, Accounts, Fits
<1> QED BY <1>10, <1>11, <1>12, <1>13, <1>14

(* Either the answer uses half of the budget, or only applications that are *)
(* too large for the whole of it were refused.                              *)
LEMMA UsesHalf ==
    ASSUME TypeOK, Lists, Served, Left = {}, rule = "rule6", RamIsPlenty,
           NEW S \in SUBSET Candidates, Fits(S, Budget(rule, idle))
    PROVE  ThreadsOf(S) <= 2 * ThreadsOf(Answer)
<1>1. PICK A, C : A = Answer /\ C = Candidates
  OBVIOUS
<1>2. A \subseteq Apps /\ S \subseteq C /\ C \subseteq Apps
  BY <1>1 DEF Served, Accounts, Looked, Candidates, TypeOK
<1>3. PICK B \in Nat : B = Budget(rule, idle)
  BY BudgetNow
<1>4. ThreadsOf(A) \in Nat /\ ThreadsOf(S) \in Nat /\ ThreadsOf(S) <= B
  BY <1>2, <1>3, Sums DEF Fits
<1>5. CASE S \subseteq A
  <2>1. ThreadsOf(S) <= ThreadsOf(A)
    BY <1>2, <1>5, Sums
  <2> QED BY <1>1, <1>4, <2>1
<1>6. CASE \E b \in S : b \notin A
  <2>1. PICK b \in S : b \notin A
    BY <1>6
  <2>2. b \in Refused
    BY <1>1, <1>2, <2>1, AfterLoop
  <2>3. Threads[b] > B \/ 2 * ThreadsOf(A) > B
    BY <1>1, <1>3, <2>2 DEF Served, HalfUsed
  <2>4. Threads[b] <= ThreadsOf(S) /\ Threads[b] \in Nat
    BY <1>2, <2>1, OneOfMany, RuleAssumption
  <2> QED BY <1>1, <1>4, <2>3, <2>4
<1> QED BY <1>5, <1>6

(* When only the threads are short, rule3 and rule4 serve as many           *)
(* applications as can be served, and rule6 uses at least half of the       *)
(* threads that can be used.                                                *)
THEOREM GreedyIsGood == Spec => []GreedyServesWell
<1>1. IndInv => GreedyServesWell
  <2> SUFFICES ASSUME IndInv, pc = "returned", RamIsPlenty,
                      NEW S \in SUBSET Candidates, Fits(S, Budget(rule, idle))
               PROVE  /\ rule \in {"rule3", "rule4"} => Cardinality(S) <= Cardinality(Answer)
                      /\ rule = "rule6" => ThreadsOf(S) <= 2 * ThreadsOf(Answer)
    BY DEF GreedyServesWell, MinThreadsServesMost, MaxThreadsUsesHalf
  <2>1. TypeOK /\ Lists
    BY DEF IndInv
  <2>2. CASE Served /\ Left = {}
    BY <2>1, <2>2, ServesMost, UsesHalf
  <2>3. CASE rule \in IdleRules /\ Budget(rule, idle) = 0 /\ next_runnable = <<>>
    <3>1. S \subseteq Apps
      BY <2>1 DEF TypeOK, Candidates
    <3>2. S = {}
      BY <2>3, <3>1, NothingIdle
    <3>3. Answer = {}
      BY <2>3 DEF Answer, Range
    <3>4. Cardinality({}) = 0 /\ ThreadsOf({}) = 0
      BY FS_EmptySet, SumEmpty, SumNames
    <3> QED BY <3>2, <3>3, <3>4
  <2> QED BY <2>2, <2>3 DEF IndInv
<1> QED BY <1>1, IndInvHolds, PTL

==============================================================================
