------------------------------ MODULE SeedProofs ------------------------------
(***************************************************************************)
(* Proofs about Seed, with Ordering and Menu, for any items, kitchens,     *)
(* recipes, orders and clients.                                            *)
(*                                                                         *)
(* The first half is about TaskBuilder.build and every input it can have.  *)
(* Its loops are recursive functions; induction over them is induction     *)
(* over the set of iterations after which a loop invariant holds.  The     *)
(* second half is about the script, the administrators and create_order.   *)
(***************************************************************************)
EXTENDS Seed, FiniteSetTheorems, SequenceTheorems, NaturalsInduction, WellFoundedInduction, TLAPS

-----------------------------------------------------------------------------
(* Induction and recursion over the iterations of a loop *)

\* What holds before a loop and is kept by its iterations holds all along.
LEMMA LoopInduction ==
  ASSUME NEW N \in Nat, NEW T, 0 \in T, \A n \in 1..N : n - 1 \in T => n \in T
  PROVE  0..N \subseteq T
<1> DEFINE Bad == {n \in 0..N : n \notin T}
<1> SUFFICES ASSUME Bad # {} PROVE FALSE
  OBVIOUS
<1> DEFINE R == OpToRel(<, Nat)
<1>1. IsWellFoundedOn(R, Nat)
  BY NatLessThanWellFounded
<1>2. Bad \subseteq Nat
  OBVIOUS
<1> HIDE DEF R, Bad
<1>3. PICK x \in Bad : \A y \in Bad : ~(<<y, x>> \in R)
  BY <1>1, <1>2, WFMin
<1>4. \A y \in Bad : ~(y < x)
  <2> TAKE y \in Bad
  <2>1. <<y, x>> \in Nat \X Nat
    BY <1>2
  <2>2. y < x => <<y, x>> \in R
    BY <2>1 DEF R, OpToRel
  <2>3. QED
    BY <1>3, <2>2
<1>5. x \in 1..N /\ x \notin T
  BY <1>3 DEF Bad
<1>6. x - 1 \in T
  <2>1. x - 1 \notin Bad
    BY <1>4, <1>5, <1>2
  <2>2. QED
    BY <2>1, <1>5 DEF Bad
<1>7. QED
  BY <1>5, <1>6

\* A loop of N iterations with the given body, and one run of it.
IsLoop(body, S, N) == N \in Nat /\ body \in [S \X (1..N) -> S]
IsRun(g, start, body, S, N) ==
  /\ g \in [0..N -> S]
  /\ g[0] = start /\ \A n \in 1..N : g[n] = body[<<g[n - 1], n>>]

\* A loop whose iterations stay within S has a run.
LEMMA LoopRuns ==
  ASSUME NEW S, NEW start \in S, NEW N, NEW body, IsLoop(body, S, N)
  PROVE  \E g : IsRun(g, start, body, S, N)
<1> DEFINE Runs(g, k) == IsRun(g, start, body, S, k)
           T == {k \in 0..N : \E g : Runs(g, k)}
<1> USE DEF IsLoop, IsRun
<1>1. 0 \in T
  <2>1. Runs([i \in 0..0 |-> start], 0)
    OBVIOUS
  <2>2. 0 \in 0..N
    OBVIOUS
  <2> HIDE DEF Runs
  <2>3. QED
    BY <2>1, <2>2
<1>2. ASSUME NEW k \in 1..N, k - 1 \in T PROVE k \in T
  <2>1. PICK g : Runs(g, k - 1)
    BY <1>2
  <2>2. <<g[k - 1], k>> \in S \X (1..N)
    BY <2>1
  <2> DEFINE h == [i \in 0..k |-> IF i = k THEN body[<<g[k - 1], k>>] ELSE g[i]]
  <2>3. h \in [0..k -> S]
    <3>1. \A i \in 0..k : i # k => i \in 0..(k - 1)
      OBVIOUS
    <3>2. QED
      BY <2>1, <2>2, <3>1
  <2>4. h[0] = start
    BY <2>1
  <2>5. ASSUME NEW n \in 1..k PROVE h[n] = body[<<h[n - 1], n>>]
    <3>1. n - 1 \in 0..k /\ n \in 0..k /\ n - 1 # k
      OBVIOUS
    <3>2. h[n - 1] = g[n - 1]
      BY <3>1
    <3>3. CASE n = k
      <4>1. h[k] = body[<<g[k - 1], k>>]
        OBVIOUS
      <4>2. QED
        BY <4>1, <3>2, <3>3
    <3>4. CASE n # k
      <4>1. n \in 1..(k - 1)
        BY <3>4
      <4>2. h[n] = g[n]
        BY <3>1, <3>4
      <4>3. QED
        BY <4>1, <4>2, <3>2, <2>1
    <3>5. QED
      BY <3>3, <3>4
  <2>6. Runs(h, k)
    BY <2>3, <2>4, <2>5
  <2> HIDE DEF Runs, h
  <2>7. QED
    BY <2>6, k \in 0..N
<1>3. N \in T
  <2> HIDE DEF T
  <2>1. 0..N \subseteq T
    BY <1>1, <1>2, LoopInduction
  <2>2. QED
    BY <2>1
<1>4. QED
  BY <1>3

-----------------------------------------------------------------------------
(* The loops of TaskBuilder.build *)

Built == [tasks : Seq(KitchenTask), dependencies : SUBSET (KitchenTask \X KitchenTask),
          previous : KitchenTask \union {NULL}]

LEMMA StepsAreNumbers == \A k \in KitchenTask : k.step \in Nat
<1>1. StepOrders \subseteq Nat
  BY StepOrdersType
<1>2. \A k \in KitchenTask : k.step \in StepOrders
  BY DEF KitchenTask
<1>3. QED
  BY <1>1, <1>2

LEMMA NewTaskType ==
  ASSUME NEW r \in Recipe, NEW n \in StepsOf(r), NEW line \in Nat, NEW unit \in Nat
  PROVE  NewTask(line, unit, n, r) \in KitchenTask
  BY DEF NewTask, KitchenTask, StepsOf, Recipe

LEMMA AddTaskType ==
  ASSUME NEW b \in Built, NEW t \in KitchenTask
  PROVE  AddTask(b, t) \in Built
<1>1. Append(b.tasks, t) \in Seq(KitchenTask)
  BY AppendProperties DEF Built
<1>2. b.previous # NULL => <<t, b.previous>> \in KitchenTask \X KitchenTask
  BY DEF Built
<1>3. QED
  BY <1>1, <1>2 DEF Built, AddTask

\* A run of the loop over the steps of a unit, and its result.
StepsRun(g, start, line, unit, r) ==
  /\ g \in [0..MaxStep -> Built]
  /\ g[0] = start
  /\ \A n \in 1..MaxStep :
       g[n] = IF n \in StepsOf(r) THEN AddTask(g[n - 1], NewTask(line, unit, n, r)) ELSE g[n - 1]
  /\ AddSteps(start, line, unit, r) = g[MaxStep]

LEMMA StepsLoop ==
  ASSUME NEW start \in Built, NEW line \in Nat, NEW unit \in Nat, NEW r \in Recipe
  PROVE  \E g : StepsRun(g, start, line, unit, r)
<1> USE StepOrdersType
<1> DEFINE Next1(b, n) == IF n \in StepsOf(r) THEN AddTask(b, NewTask(line, unit, n, r)) ELSE b
           Op == [x \in Built \X (1..MaxStep) |-> Next1(x[1], x[2])]
           h == CHOOSE upTo : upTo =
                  [n \in 0..MaxStep |->
                     IF n = 0 THEN start
                     ELSE IF n \in StepsOf(r) THEN AddTask(upTo[n - 1], NewTask(line, unit, n, r))
                     ELSE upTo[n - 1]]
<1>1. AddSteps(start, line, unit, r) = h[MaxStep]
  BY DEF AddSteps
<1>2. \A b \in Built, n \in 1..MaxStep : Next1(b, n) \in Built
  BY AddTaskType, NewTaskType
<1> HIDE DEF Next1
<1>3. Op \in [Built \X (1..MaxStep) -> Built]
  BY <1>2
<1>4. \A b \in Built, n \in 1..MaxStep : Op[<<b, n>>] = Next1(b, n)
  OBVIOUS
<1> HIDE DEF Op
<1>5. PICK g \in [0..MaxStep -> Built] :
        g[0] = start /\ \A n \in 1..MaxStep : g[n] = Op[<<g[n - 1], n>>]
  <2>1. IsLoop(Op, Built, MaxStep)
    BY <1>3 DEF IsLoop
  <2>2. PICK g : IsRun(g, start, Op, Built, MaxStep)
    BY <2>1, LoopRuns
  <2>3. QED
    BY <2>2 DEF IsRun
<1>6. \A n \in 1..MaxStep : g[n] = Next1(g[n - 1], n)
  <2> TAKE n \in 1..MaxStep
  <2>1. g[n - 1] \in Built
    BY n - 1 \in 0..MaxStep
  <2>2. QED
    BY <2>1, <1>4, <1>5
<1>7. g = [n \in 0..MaxStep |->
             IF n = 0 THEN start
             ELSE IF n \in StepsOf(r) THEN AddTask(g[n - 1], NewTask(line, unit, n, r))
             ELSE g[n - 1]]
  <2>1. \A n \in 0..MaxStep : n # 0 => n \in 1..MaxStep
    OBVIOUS
  <2>2. QED
    BY <1>5, <1>6, <2>1 DEF Next1
<1>8. h = [n \in 0..MaxStep |->
             IF n = 0 THEN start
             ELSE IF n \in StepsOf(r) THEN AddTask(h[n - 1], NewTask(line, unit, n, r))
             ELSE h[n - 1]]
  BY <1>7
<1> HIDE DEF h
<1>9. h[MaxStep] = g[MaxStep]
  <2> DEFINE T == {n \in 0..MaxStep : h[n] = g[n]}
  <2>1. 0 \in T
    BY <1>5, <1>8
  <2>2. ASSUME NEW n \in 1..MaxStep, n - 1 \in T PROVE n \in T
    BY <1>7, <1>8, <2>2
  <2>3. 0..MaxStep \subseteq T
    <3> HIDE DEF T
    <3>1. QED
      BY <2>1, <2>2, LoopInduction
  <2>4. QED
    BY <2>3
<1>10. StepsRun(g, start, line, unit, r)
  BY <1>1, <1>5, <1>6, <1>9 DEF Next1, StepsRun
<1>11. QED
  BY <1>10

LEMMA BuildUnitType ==
  ASSUME NEW b \in Built, NEW line \in Nat, NEW unit \in Nat, NEW r \in Recipe
  PROVE  BuildUnit(b, line, unit, r) \in Built
<1>1. [b EXCEPT !.previous = NULL] \in Built
  BY DEF Built
<1>2. QED
  BY <1>1, StepsLoop, StepOrdersType DEF BuildUnit, StepsRun

\* A run of the loop over the units of a line, and its result.
UnitsRun(g, b, line, quantity, r) ==
  /\ g \in [0..quantity -> Built]
  /\ g[0] = b
  /\ \A u \in 1..quantity : g[u] = BuildUnit(g[u - 1], line, u, r)
  /\ BuildLine(b, line, quantity, r) = g[quantity]

LEMMA UnitsLoop ==
  ASSUME NEW b \in Built, NEW line \in Nat, NEW quantity \in Nat, NEW r \in Recipe
  PROVE  \E g : UnitsRun(g, b, line, quantity, r)
<1> DEFINE Op == [x \in Built \X (1..quantity) |-> BuildUnit(x[1], line, x[2], r)]
           h == CHOOSE upTo : upTo =
                  [u \in 0..quantity |->
                     IF u = 0 THEN b ELSE BuildUnit(upTo[u - 1], line, u, r)]
<1>1. BuildLine(b, line, quantity, r) = h[quantity]
  BY DEF BuildLine
<1>2. Op \in [Built \X (1..quantity) -> Built]
  BY BuildUnitType
<1>3. \A x \in Built, u \in 1..quantity : Op[<<x, u>>] = BuildUnit(x, line, u, r)
  OBVIOUS
<1> HIDE DEF Op
<1>4. PICK g \in [0..quantity -> Built] :
        g[0] = b /\ \A n \in 1..quantity : g[n] = Op[<<g[n - 1], n>>]
  <2>1. IsLoop(Op, Built, quantity)
    BY <1>2 DEF IsLoop
  <2>2. PICK g : IsRun(g, b, Op, Built, quantity)
    BY <2>1, LoopRuns
  <2>3. QED
    BY <2>2 DEF IsRun
<1>5. \A u \in 1..quantity : g[u] = BuildUnit(g[u - 1], line, u, r)
  <2> TAKE u \in 1..quantity
  <2>1. g[u - 1] \in Built
    BY u - 1 \in 0..quantity
  <2>2. QED
    BY <2>1, <1>3, <1>4
<1>6. g = [u \in 0..quantity |-> IF u = 0 THEN b ELSE BuildUnit(g[u - 1], line, u, r)]
  <2>1. \A u \in 0..quantity : u # 0 => u \in 1..quantity
    OBVIOUS
  <2>2. QED
    BY <1>4, <1>5, <2>1
<1>7. h = [u \in 0..quantity |-> IF u = 0 THEN b ELSE BuildUnit(h[u - 1], line, u, r)]
  BY <1>6
<1> HIDE DEF h
<1>8. h[quantity] = g[quantity]
  <2> DEFINE T == {u \in 0..quantity : h[u] = g[u]}
  <2>1. 0 \in T
    BY <1>4, <1>7
  <2>2. ASSUME NEW u \in 1..quantity, u - 1 \in T PROVE u \in T
    BY <1>6, <1>7, <2>2
  <2>3. 0..quantity \subseteq T
    <3> HIDE DEF T
    <3>1. QED
      BY <2>1, <2>2, LoopInduction
  <2>4. QED
    BY <2>3
<1>9. UnitsRun(g, b, line, quantity, r)
  BY <1>1, <1>4, <1>5, <1>8 DEF UnitsRun
<1>10. QED
  BY <1>9

LEMMA BuildLineType ==
  ASSUME NEW b \in Built, NEW line \in Nat, NEW quantity \in Nat, NEW r \in Recipe
  PROVE  BuildLine(b, line, quantity, r) \in Built
  BY UnitsLoop DEF UnitsRun

Lines == Seq([item : Items, quantity : Nat \ {0}])
Recipes == [Items -> Recipe]

LEMMA LineTypes ==
  ASSUME NEW lines \in Lines, NEW recipes \in Recipes, NEW l \in 1..Len(lines)
  PROVE  /\ lines[l].item \in Items /\ lines[l].quantity \in Nat \ {0}
         /\ recipes[lines[l].item] \in Recipe
<1>1. lines[l] \in [item : Items, quantity : Nat \ {0}]
  BY ElementOfSeq DEF Lines
<1>2. QED
  BY <1>1 DEF Recipes

\* A run of the loop over the lines of an order, and its result.
LinesRun(g, lines, recipes) ==
  /\ g \in [0..Len(lines) -> Built]
  /\ g[0] = NoTasks
  /\ \A l \in 1..Len(lines) :
       g[l] = BuildLine(g[l - 1], l, lines[l].quantity, recipes[lines[l].item])
  /\ Build(lines, recipes) = g[Len(lines)]

LEMMA LinesLoop ==
  ASSUME NEW lines \in Lines, NEW recipes \in Recipes
  PROVE  \E g : LinesRun(g, lines, recipes)
<1> DEFINE N == Len(lines)
           Step1(b, l) == BuildLine(b, l, lines[l].quantity, recipes[lines[l].item])
           Op == [x \in Built \X (1..N) |-> Step1(x[1], x[2])]
           h == CHOOSE upTo : upTo =
                  [l \in 0..Len(lines) |->
                     IF l = 0 THEN NoTasks
                     ELSE BuildLine(upTo[l - 1], l, lines[l].quantity, recipes[lines[l].item])]
<1>1. Build(lines, recipes) = h[N]
  BY DEF Build
<1>2. N \in Nat /\ NoTasks \in Built
  BY DEF Lines, NoTasks, Built
<1>3. \A b \in Built, l \in 1..N : Step1(b, l) \in Built
  <2> TAKE b \in Built, l \in 1..N
  <2>1. l \in Nat /\ lines[l].quantity \in Nat /\ recipes[lines[l].item] \in Recipe
    BY <1>2, LineTypes
  <2>2. QED
    BY <2>1, BuildLineType
<1> HIDE DEF Step1, N
<1>4. Op \in [Built \X (1..N) -> Built]
  BY <1>3
<1>5. \A b \in Built, l \in 1..N : Op[<<b, l>>] = Step1(b, l)
  OBVIOUS
<1> HIDE DEF Op
<1>6. PICK g \in [0..N -> Built] :
        g[0] = NoTasks /\ \A n \in 1..N : g[n] = Op[<<g[n - 1], n>>]
  <2>1. IsLoop(Op, Built, N)
    BY <1>2, <1>4 DEF IsLoop
  <2>2. PICK g : IsRun(g, NoTasks, Op, Built, N)
    BY <1>2, <2>1, LoopRuns
  <2>3. QED
    BY <2>2 DEF IsRun
<1>7. \A l \in 1..N : g[l] = Step1(g[l - 1], l)
  <2> TAKE l \in 1..N
  <2>1. g[l - 1] \in Built
    BY <1>2, l - 1 \in 0..N
  <2>2. QED
    BY <2>1, <1>5, <1>6
<1>8. g = [l \in 0..N |-> IF l = 0 THEN NoTasks ELSE Step1(g[l - 1], l)]
  <2>1. \A l \in 0..N : l # 0 => l \in 1..N
    BY <1>2
  <2>2. QED
    BY <1>6, <1>7, <2>1
<1>9. h = [l \in 0..N |-> IF l = 0 THEN NoTasks ELSE Step1(h[l - 1], l)]
  BY <1>8 DEF Step1, N
<1> HIDE DEF h
<1>10. h[N] = g[N]
  <2> DEFINE T == {l \in 0..N : h[l] = g[l]}
  <2>1. 0 \in T
    BY <1>2, <1>6, <1>9
  <2>2. ASSUME NEW l \in 1..N, l - 1 \in T PROVE l \in T
    BY <1>2, <1>8, <1>9, <2>2
  <2>3. 0..N \subseteq T
    <3> HIDE DEF T
    <3>1. QED
      BY <1>2, <2>1, <2>2, LoopInduction
  <2>4. QED
    BY <1>2, <2>3
<1>11. LinesRun(g, lines, recipes)
  BY <1>1, <1>6, <1>7, <1>10 DEF Step1, N, LinesRun
<1>12. QED
  BY <1>11

-----------------------------------------------------------------------------
(* What the loops build *)

OfUnit(t, line, unit) == t.line = line /\ t.unit = unit

\* b lists the tasks of T, each once, with the dependencies they should have.
BuiltFor(b, T) ==
  /\ b \in Built
  /\ Range(b.tasks) = T
  /\ \A i, j \in 1..Len(b.tasks) : b.tasks[i] = b.tasks[j] => i = j
  /\ \A s, t \in T : OfUnit(s, t.line, t.unit) /\ s.step = t.step => s = t
  /\ b.dependencies = Chains(T)

\* previous_task is the last task of the unit so far.
PreviousIsLast(b, T, line, unit) ==
  /\ b.previous = NULL => \A t \in T : ~OfUnit(t, line, unit)
  /\ b.previous # NULL =>
       /\ b.previous \in T /\ OfUnit(b.previous, line, unit)
       /\ \A t \in T : OfUnit(t, line, unit) => t.step <= b.previous.step

\* A task that comes after all others of its unit makes its chain one longer.
LEMMA ChainGrows ==
  ASSUME NEW b, NEW T, BuiltFor(b, T), NEW t \in KitchenTask,
         PreviousIsLast(b, T, t.line, t.unit),
         \A u \in T : OfUnit(u, t.line, t.unit) => u.step < t.step
  PROVE  Chains(T \union {t}) =
           IF b.previous = NULL THEN Chains(T) ELSE Chains(T) \union {<<t, b.previous>>}
<1> DEFINE U == T \union {t}
           Between(u, d, V) == \E v \in V : /\ v.line = d.line /\ v.unit = d.unit
                                            /\ u.step < v.step /\ v.step < d.step
           Pair(d, u, V) == d.line = u.line /\ d.unit = u.unit /\ u.step < d.step /\ ~Between(u, d, V)
<1>1. \A u \in U : u \in KitchenTask /\ u.step \in Nat
  <2>1. T \subseteq KitchenTask
    BY DEF BuiltFor, Built, Range
  <2>2. \A k \in KitchenTask : k.step \in Nat
    BY StepsAreNumbers
  <2>3. QED
    BY <2>1, <2>2
<1>2. \A V : Chains(V) = {x \in V \X V : Pair(x[1], x[2], V)}
  BY DEF Chains
<1>3. ASSUME NEW d \in T, NEW u \in T PROVE Pair(d, u, U) <=> Pair(d, u, T)
  BY <1>1 DEF OfUnit
<1>4. ASSUME NEW d \in U PROVE ~Pair(d, t, U)
  BY <1>1 DEF OfUnit
<1>5. ASSUME NEW u \in T PROVE Pair(t, u, U) <=> b.previous # NULL /\ u = b.previous
  <2>1. CASE b.previous = NULL
    BY <2>1 DEF PreviousIsLast, OfUnit
  <2>2. CASE b.previous # NULL
    <3>1. b.previous \in T /\ OfUnit(b.previous, t.line, t.unit)
      BY <2>2 DEF PreviousIsLast
    <3>2. Pair(t, u, U) => u = b.previous
      <4> SUFFICES ASSUME Pair(t, u, U) PROVE u = b.previous
        OBVIOUS
      <4>1. OfUnit(u, t.line, t.unit) /\ u.step <= b.previous.step
        BY <2>2 DEF PreviousIsLast, OfUnit
      <4>2. b.previous.step < t.step
        BY <3>1
      <4>3. ~(u.step < b.previous.step)
        BY <3>1, <4>2 DEF OfUnit
      <4>4. u.step = b.previous.step
        BY <1>1, <3>1, <4>1, <4>3
      <4>5. QED
        BY <3>1, <4>1, <4>4 DEF BuiltFor, OfUnit
    <3>3. Pair(t, b.previous, U)
      BY <1>1, <2>2, <3>1 DEF PreviousIsLast, OfUnit
    <3>4. QED
      BY <2>2, <3>2, <3>3
  <2>3. QED
    BY <2>1, <2>2
<1> HIDE DEF Pair
<1>6. t \notin T
  BY <1>1 DEF OfUnit
<1>7. b.previous # NULL => b.previous \in T
  BY DEF PreviousIsLast
<1>8. ASSUME NEW x
      PROVE  x \in Chains(U) <=>
               x \in (IF b.previous = NULL THEN Chains(T) ELSE Chains(T) \union {<<t, b.previous>>})
  <2> HIDE DEF U
  <2>1. x \in Chains(U) <=> \E d, u \in U : x = <<d, u>> /\ Pair(d, u, U)
    BY <1>2
  <2>2. x \in Chains(T) <=> \E d, u \in T : x = <<d, u>> /\ Pair(d, u, T)
    BY <1>2
  <2>3. \A d : d \in U <=> d \in T \/ d = t
    BY DEF U
  <2>4. QED
    BY <2>1, <2>2, <2>3, <1>3, <1>4, <1>5, <1>7
<1>9. QED
  BY <1>8

LEMMA AddTaskBuilds ==
  ASSUME NEW b, NEW T, BuiltFor(b, T), NEW t \in KitchenTask,
         PreviousIsLast(b, T, t.line, t.unit),
         \A u \in T : OfUnit(u, t.line, t.unit) => u.step < t.step
  PROVE  /\ BuiltFor(AddTask(b, t), T \union {t})
         /\ PreviousIsLast(AddTask(b, t), T \union {t}, t.line, t.unit)
<1> DEFINE a == AddTask(b, t)
           U == T \union {t}
<1>1. b \in Built /\ a \in Built
  BY AddTaskType DEF BuiltFor
<1>2. a.tasks = Append(b.tasks, t) /\ a.previous = t
  BY DEF AddTask
<1>3. T \subseteq KitchenTask /\ \A k \in KitchenTask : k.step \in Nat
  <2>1. T \subseteq KitchenTask
    BY DEF BuiltFor, Built, Range
  <2>2. \A k \in KitchenTask : k.step \in Nat
    BY StepsAreNumbers
  <2>3. QED
    BY <2>1, <2>2
<1>4. t \notin T
  BY <1>3 DEF OfUnit
<1>5. b.tasks \in Seq(KitchenTask)
  BY <1>1 DEF Built
<1>6. /\ Len(a.tasks) = Len(b.tasks) + 1 /\ a.tasks[Len(b.tasks) + 1] = t
      /\ \A i \in 1..Len(b.tasks) : a.tasks[i] = b.tasks[i]
      /\ Len(b.tasks) \in Nat /\ DOMAIN a.tasks = 1..(Len(b.tasks) + 1)
      /\ DOMAIN b.tasks = 1..Len(b.tasks)
  BY <1>2, <1>5, AppendProperties
<1>7. \A i \in 1..(Len(b.tasks) + 1) : i \in 1..Len(b.tasks) \/ i = Len(b.tasks) + 1
  BY <1>6
<1>8. Range(b.tasks) = T
  BY DEF BuiltFor
<1>9. Range(a.tasks) = U
  <2>1. ASSUME NEW x \in Range(a.tasks) PROVE x \in U
    BY <1>6, <1>7, <1>8 DEF Range
  <2>2. ASSUME NEW x \in T PROVE x \in Range(a.tasks)
    BY <1>6, <1>8 DEF Range
  <2>3. t \in Range(a.tasks)
    BY <1>6 DEF Range
  <2>4. QED
    BY <2>1, <2>2, <2>3
<1>10. \A i, j \in 1..Len(a.tasks) : a.tasks[i] = a.tasks[j] => i = j
  <2>1. \A i \in 1..Len(b.tasks) : b.tasks[i] \in T
    BY <1>6, <1>8 DEF Range
  <2>2. \A i, j \in 1..Len(b.tasks) : b.tasks[i] = b.tasks[j] => i = j
    BY DEF BuiltFor
  <2>3. QED
    BY <1>4, <1>6, <1>7, <2>1, <2>2
<1>11. \A s, u \in U : OfUnit(s, u.line, u.unit) /\ s.step = u.step => s = u
  BY <1>3 DEF BuiltFor, OfUnit
<1>12. a.dependencies = Chains(U)
  <2>1. Chains(U) = IF b.previous = NULL THEN Chains(T) ELSE Chains(T) \union {<<t, b.previous>>}
    BY ChainGrows
  <2>2. b.dependencies = Chains(T)
    BY DEF BuiltFor
  <2>3. QED
    BY <2>1, <2>2 DEF AddTask
<1>13. PreviousIsLast(a, U, t.line, t.unit)
  <2>1. t # NULL
    BY NullIsNoTask
  <2>2. QED
    BY <1>2, <1>3, <2>1 DEF PreviousIsLast, OfUnit
<1>14. BuiltFor(a, U)
  BY <1>1, <1>9, <1>10, <1>11, <1>12 DEF BuiltFor
<1>15. QED
  BY <1>13, <1>14

UnitTasks(line, unit, r) == {NewTask(line, unit, n, r) : n \in StepsOf(r)}

\* One more unit is one more chain.
LEMMA UnitBuilds ==
  ASSUME NEW b, NEW T, BuiltFor(b, T), NEW line \in Nat, NEW unit \in Nat, NEW r \in Recipe,
         \A t \in T : ~OfUnit(t, line, unit)
  PROVE  BuiltFor(BuildUnit(b, line, unit, r), T \union UnitTasks(line, unit, r))
<1> DEFINE start == [b EXCEPT !.previous = NULL]
           Sofar(n) == {NewTask(line, unit, m, r) : m \in {k \in StepsOf(r) : k <= n}}
<1>1. start \in Built /\ BuiltFor(start, T)
  BY DEF BuiltFor, Built
<1>2. start.previous = NULL
  BY DEF BuiltFor, Built
<1>3. PICK g : StepsRun(g, start, line, unit, r)
  BY <1>1, StepsLoop
<1> HIDE DEF start
<1> DEFINE Q == {n \in 0..MaxStep : /\ BuiltFor(g[n], T \union Sofar(n))
                                    /\ PreviousIsLast(g[n], T \union Sofar(n), line, unit)}
<1>4. MaxStep \in Nat /\ \A n \in StepsOf(r) : n \in 1..MaxStep
  BY StepOrdersType DEF StepsOf
<1>5. 0 \in Q
  <2>1. Sofar(0) = {}
    BY <1>4
  <2>2. T \union Sofar(0) = T
    BY <2>1
  <2>3. g[0] = start
    BY <1>3 DEF StepsRun
  <2>4. PreviousIsLast(start, T, line, unit)
    BY <1>2 DEF PreviousIsLast
  <2>5. QED
    BY <1>1, <1>4, <2>2, <2>3, <2>4
<1>6. ASSUME NEW n \in 1..MaxStep, n - 1 \in Q PROVE n \in Q
  <2> DEFINE V == T \union Sofar(n - 1)
             t == NewTask(line, unit, n, r)
  <2>1. BuiltFor(g[n - 1], V) /\ PreviousIsLast(g[n - 1], V, line, unit)
    BY <1>6
  <2>2. n \in 0..MaxStep
    BY <1>4
  <2>3. CASE n \in StepsOf(r)
    <3>1. t \in KitchenTask /\ t.line = line /\ t.unit = unit /\ t.step = n
      BY <2>3, NewTaskType DEF NewTask
    <3>2. \A u \in V : OfUnit(u, t.line, t.unit) => u.step < t.step
      <4>1. \A m \in StepsOf(r) : m <= n - 1 => m < n
        BY <1>4, <2>2
      <4>2. \A u \in Sofar(n - 1) : u.step < n
        BY <4>1 DEF NewTask
      <4>3. QED
        BY <3>1, <4>2
    <3>3. g[n] = AddTask(g[n - 1], t)
      BY <1>3, <2>3 DEF StepsRun
    <3>4. T \union Sofar(n) = V \union {t}
      <4>1. \A m \in StepsOf(r) : m <= n <=> m <= n - 1 \/ m = n
        BY <1>4, <2>2
      <4>2. \A x : x \in Sofar(n) <=> x \in Sofar(n - 1) \/ x = t
        BY <2>3, <4>1
      <4>3. QED
        BY <4>2
    <3>5. BuiltFor(g[n], V \union {t}) /\ PreviousIsLast(g[n], V \union {t}, line, unit)
      <4> HIDE DEF V, t
      <4>1. QED
        BY <2>1, <3>1, <3>2, <3>3, AddTaskBuilds
    <3>6. QED
      BY <2>2, <3>4, <3>5
  <2>4. CASE n \notin StepsOf(r)
    <3>1. \A m \in StepsOf(r) : m <= n <=> m <= n - 1
      BY <1>4, <2>2, <2>4
    <3>2. Sofar(n) = Sofar(n - 1)
      BY <3>1
    <3>3. g[n] = g[n - 1]
      BY <1>3, <2>4 DEF StepsRun
    <3>4. QED
      BY <2>1, <2>2, <3>2, <3>3
  <2>5. QED
    BY <2>3, <2>4
<1>7. MaxStep \in Q
  <2> HIDE DEF Q
  <2>1. 0..MaxStep \subseteq Q
    BY <1>4, <1>5, <1>6, LoopInduction
  <2>2. QED
    BY <1>4, <2>1
<1>8. Sofar(MaxStep) = UnitTasks(line, unit, r)
  BY <1>4 DEF UnitTasks
<1>9. QED
  BY <1>3, <1>7, <1>8 DEF StepsRun, BuildUnit, start

UnitsTasks(line, n, r) == UNION {UnitTasks(line, u, r) : u \in 1..n}

LEMMA LineBuilds ==
  ASSUME NEW b, NEW T, BuiltFor(b, T), NEW line \in Nat, NEW quantity \in Nat, NEW r \in Recipe,
         \A t \in T : t.line # line
  PROVE  BuiltFor(BuildLine(b, line, quantity, r), T \union UnitsTasks(line, quantity, r))
<1> DEFINE V(u) == T \union UnitsTasks(line, u, r)
<1>1. PICK g : UnitsRun(g, b, line, quantity, r)
  BY UnitsLoop DEF BuiltFor
<1> DEFINE Q == {u \in 0..quantity : BuiltFor(g[u], V(u))}
<1>2. 0 \in Q
  <2>1. V(0) = T
    BY DEF UnitsTasks
  <2>2. g[0] = b
    BY <1>1 DEF UnitsRun
  <2> HIDE DEF V
  <2>3. QED
    BY <2>1, <2>2
<1>3. ASSUME NEW u \in 1..quantity, u - 1 \in Q PROVE u \in Q
  <2>1. BuiltFor(g[u - 1], V(u - 1)) /\ u \in Nat /\ u \in 0..quantity
    BY <1>3
  <2>2. \A t \in V(u - 1) : ~OfUnit(t, line, u)
    <3>1. \A w \in 1..(u - 1) : w # u
      OBVIOUS
    <3>2. QED
      BY <3>1 DEF UnitsTasks, UnitTasks, NewTask, OfUnit
  <2>3. V(u) = V(u - 1) \union UnitTasks(line, u, r)
    <3>1. \A w : w \in 1..u <=> w \in 1..(u - 1) \/ w = u
      OBVIOUS
    <3>2. QED
      BY <3>1 DEF UnitsTasks
  <2>4. g[u] = BuildUnit(g[u - 1], line, u, r)
    BY <1>1 DEF UnitsRun
  <2>5. BuiltFor(g[u], V(u - 1) \union UnitTasks(line, u, r))
    <3> HIDE DEF V
    <3>1. QED
      BY <2>1, <2>2, <2>4, UnitBuilds
  <2>6. QED
    BY <2>1, <2>3, <2>5
<1>4. quantity \in Q
  <2> HIDE DEF Q
  <2>1. 0..quantity \subseteq Q
    BY <1>2, <1>3, LoopInduction
  <2>2. QED
    BY <2>1
<1>5. QED
  BY <1>1, <1>4 DEF UnitsRun

LinesTasks(lines, recipes, n) ==
  UNION {UnitsTasks(l, lines[l].quantity, recipes[lines[l].item]) : l \in 1..n}

\* The tasks an order needs: for each unit of each line, one for each step.
OrderTasks(lines, recipes) == LinesTasks(lines, recipes, Len(lines))

\* TaskBuilder.build, for every order and every recipes: the tasks are those the
\* order needs, none comes twice, and a task depends on exactly the one that makes
\* the preceding step of its unit.
THEOREM BuildIsRight ==
  ASSUME NEW lines \in Lines, NEW recipes \in Recipes
  PROVE  BuiltFor(Build(lines, recipes), OrderTasks(lines, recipes))
<1> DEFINE V(l) == LinesTasks(lines, recipes, l)
           N == Len(lines)
<1>1. PICK g : LinesRun(g, lines, recipes)
  BY LinesLoop
<1> DEFINE Q == {l \in 0..N : BuiltFor(g[l], V(l))}
<1>2. N \in Nat
  BY DEF Lines
<1>3. 0 \in Q
  <2>1. V(0) = {}
    BY DEF LinesTasks
  <2>2. NoTasks \in Built /\ NoTasks.tasks = <<>> /\ NoTasks.dependencies = {}
    BY DEF NoTasks, Built
  <2>3. Range(<<>>) = {} /\ Len(<<>>) = 0 /\ Chains({}) = {}
    BY DEF Range, Chains
  <2>4. BuiltFor(NoTasks, {})
    BY <2>2, <2>3 DEF BuiltFor
  <2>5. QED
    BY <1>1, <1>2, <2>1, <2>4 DEF LinesRun
<1>4. ASSUME NEW l \in 1..N, l - 1 \in Q PROVE l \in Q
  <2> DEFINE q == lines[l].quantity
             r == recipes[lines[l].item]
  <2>1. BuiltFor(g[l - 1], V(l - 1)) /\ l \in Nat /\ l \in 0..N
    BY <1>2, <1>4
  <2>2. q \in Nat /\ r \in Recipe
    BY LineTypes
  <2>3. \A t \in V(l - 1) : t.line # l
    <3>1. \A m \in 1..(l - 1) : m # l
      BY <1>2
    <3>2. QED
      BY <3>1 DEF LinesTasks, UnitsTasks, UnitTasks, NewTask
  <2>4. V(l) = V(l - 1) \union UnitsTasks(l, q, r)
    <3>1. \A m : m \in 1..l <=> m \in 1..(l - 1) \/ m = l
      BY <1>2
    <3>2. QED
      BY <3>1 DEF LinesTasks
  <2>5. g[l] = BuildLine(g[l - 1], l, q, r)
    BY <1>1 DEF LinesRun
  <2>6. BuiltFor(g[l], V(l - 1) \union UnitsTasks(l, q, r))
    <3> HIDE DEF V, q, r
    <3>1. QED
      BY <2>1, <2>2, <2>3, <2>5, LineBuilds
  <2>7. QED
    BY <2>1, <2>4, <2>6
<1>5. N \in Q
  <2> HIDE DEF Q, N
  <2>1. 0..N \subseteq Q
    BY <1>2, <1>3, <1>4, LoopInduction
  <2>2. QED
    BY <1>2, <2>1
<1>6. QED
  BY <1>1, <1>5 DEF LinesRun, OrderTasks

-----------------------------------------------------------------------------
(* The invariant of the script, the administrators and the customers *)

DemoRecipe == [n \in StepOrders |-> IF n \in 1..Len(DemoSteps) THEN DemoSteps[n] ELSE NULL]

StationsThere(n) == \A m \in 1..n : <<DemoKitchen, DemoSteps[m]>> \in stations
StepsThere(n) == \A m \in 1..n : recipe[DemoItem][m] # NULL
Cookable == StationsThere(Len(DemoSteps)) /\ StepsThere(Len(DemoSteps))

\* Only the script adds steps to the demo recipe.
OnlyDemoSteps == \A n \in StepOrders : recipe[DemoItem][n] \in {NULL, DemoRecipe[n]}

\* What the script has done so far is there, and what it found missing is missing.
ScriptOK ==
  /\ seed.n \in 1..Len(DemoSteps) /\ seed.pc # "failed"
  /\ seed.pc # "kitchen" => DemoKitchen \in kitchens
  /\ seed.pc = "station" => StationsThere(seed.n - 1)
  /\ seed.pc \notin {"kitchen", "station"} => StationsThere(Len(DemoSteps))
  /\ seed.pc = "post_item" => item[DemoItem] = "absent"
  /\ seed.pc \in {"find_step", "post_step"} => item[DemoItem] # "absent" /\ StepsThere(seed.n - 1)
  /\ seed.pc = "post_step" => recipe[DemoItem][seed.n] = NULL
  /\ seed.pc \in {"availability", "upserting"} => item[DemoItem] # "absent" /\ Cookable
  /\ seed.pc = "upserting" =>
       /\ upsert[Seeder] # NULL
       /\ upsert[Seeder].kitchen = DemoKitchen /\ upsert[Seeder].item = DemoItem
       /\ upsert[Seeder].found = NULL => availability[DemoKitchen][DemoItem] = NULL

\* Upserts are about items that exist, an administrator's about demo items that
\* are offered already; the demo item is offered only where it can be cooked.
UpsertsOK ==
  /\ \A c \in Clients : upsert[c] # NULL => item[upsert[c].item] # "absent"
  /\ \A a \in Admins : upsert[a] # NULL /\ upsert[a].item = DemoItem =>
       availability[upsert[a].kitchen][DemoItem] # NULL
  /\ \A k \in Kitchens : availability[k][DemoItem] # NULL => k = DemoKitchen /\ Cookable

\* What create_order has read of the demo item is the whole recipe, of a kitchen
\* that has the stations for it.
WholeDemo(k, recipes) ==
  recipes[DemoItem] # NoSteps =>
    k = DemoKitchen /\ recipes[DemoItem] = DemoRecipe /\ StationsThere(Len(DemoSteps))

RecipesRead(lines, n, recipes) == \A l \in 1..n : recipes[lines[l].item] # NoSteps

Placing == [pc : {"new", "ended"}] \union [pc : {"menu"}, payload : Payloads] \union
           [pc : {"recipes"}, payload : Payloads, available : SUBSET Items,
            next : Nat \ {0}, recipes : Recipes]

PlacingOK(c) ==
  LET p == placing[c] IN
  p.pc = "recipes" =>
    /\ p.next <= Len(p.payload.lines) + 1
    /\ RecipesRead(p.payload.lines, p.next - 1, p.recipes)
    /\ WholeDemo(p.payload.kitchen, p.recipes)
    /\ DemoItem \in p.available => p.payload.kitchen = DemoKitchen /\ Cookable

PlacedOK(c) ==
  placed[c] # NULL =>
    /\ placed[c].payload \in Payloads
    /\ LET lines == placed[c].payload.lines IN
       \E recipes \in Recipes :
         /\ placed[c].built = Build(lines, recipes)
         /\ RecipesRead(lines, Len(lines), recipes)
         /\ WholeDemo(placed[c].payload.kitchen, recipes)

OrdersOK ==
  /\ placing \in [Customers -> Placing] /\ DOMAIN placed = Customers
  /\ \A c \in Customers : PlacingOK(c) /\ PlacedOK(c)

\* The inductive invariant.
SInv == SeedTypeOK /\ OnlyDemoSteps /\ ScriptOK /\ UpsertsOK /\ OrdersOK

-----------------------------------------------------------------------------
(* Steps of the script *)

LEMMA Numbers ==
  /\ StepOrders \subseteq Nat \ {0} /\ 1..Len(DemoSteps) \subseteq StepOrders
  /\ Len(DemoSteps) \in Nat \ {0}
  /\ \A n \in 1..Len(DemoSteps) : DemoSteps[n] \in StationTypes
  /\ \A n \in StepOrders : DemoRecipe[n] \in StationTypes \union {NULL}
  /\ \A n \in 1..Len(DemoSteps) : DemoRecipe[n] = DemoSteps[n] /\ DemoRecipe[n] # NULL
<1>1. /\ StepOrders \subseteq Nat \ {0} /\ 1..Len(DemoSteps) \subseteq StepOrders
      /\ Len(DemoSteps) \in Nat
  BY StepOrdersType, DemoType
<1>2. Len(DemoSteps) # 0
  BY DemoType
<1>3. \A n \in 1..Len(DemoSteps) : DemoSteps[n] \in StationTypes
  BY DemoType, ElementOfSeq
<1>4. QED
  BY <1>1, <1>2, <1>3, NullIsNoValue DEF DemoRecipe

\* Stations and steps that are there stay there, so what orders rely on stands.
LEMMA OrdersKept ==
  ASSUME OrdersOK, UNCHANGED orderVars, stations \subseteq stations',
         \A n \in StepOrders : recipe[DemoItem][n] # NULL => recipe'[DemoItem][n] # NULL
  PROVE  OrdersOK'
<1>1. StationsThere(Len(DemoSteps)) => StationsThere(Len(DemoSteps))'
  BY DEF StationsThere
<1>2. Cookable => Cookable'
  BY <1>1, Numbers DEF Cookable, StepsThere
<1>3. placing' = placing /\ placed' = placed
  BY DEF orderVars
<1>4. ASSUME NEW k, NEW recipes, WholeDemo(k, recipes) PROVE WholeDemo(k, recipes)'
  BY <1>1, <1>4 DEF WholeDemo
<1>5. ASSUME NEW c \in Customers PROVE PlacingOK(c)' /\ PlacedOK(c)'
  <2>1. PlacingOK(c) /\ PlacedOK(c)
    BY DEF OrdersOK
  <2>2. PlacingOK(c)'
    BY <1>2, <1>3, <1>4, <2>1 DEF PlacingOK, RecipesRead
  <2>3. PlacedOK(c)'
    BY <1>3, <1>4, <2>1 DEF PlacedOK, RecipesRead
  <2>4. QED
    BY <2>2, <2>3
<1>6. QED
  BY <1>3, <1>5 DEF OrdersOK

\* The script's position, when menu-service is not touched.
LEMMA SeedMoves ==
  ASSUME SInv, NEW pc \in SeedPc, NEW n \in 1..Len(DemoSteps), SeedTo(pc, n)
  PROVE  /\ seed' \in [pc : SeedPc, n : StepOrders, runs : 1..MaxRuns]
         /\ seed'.pc = pc /\ seed'.n = n
  BY Numbers DEF SInv, SeedTypeOK, SeedTo

LEMMA EnsureKitchenSInv ==
  ASSUME SInv, EnsureKitchen
  PROVE  SInv'
<1> USE Numbers DEF EnsureKitchen, CreateKitchen, menuVars
<1>1. 1 \in 1..Len(DemoSteps) /\ "station" \in SeedPc
  BY DEF SeedPc
<1>2. seed' \in [pc : SeedPc, n : StepOrders, runs : 1..MaxRuns] /\ seed'.pc = "station" /\ seed'.n = 1
  BY <1>1, SeedMoves
<1>3. OrdersOK'
  BY OrdersKept DEF SInv
<1>4. SeedTypeOK'
  BY <1>2, DemoType DEF SInv, SeedTypeOK, MenuTypeOK
<1>5. OnlyDemoSteps' /\ UpsertsOK'
  BY DEF SInv, OnlyDemoSteps, UpsertsOK, Cookable, StationsThere, StepsThere
<1>6. ScriptOK'
  BY <1>1, <1>2 DEF ScriptOK, StationsThere
<1>7. QED
  BY <1>3, <1>4, <1>5, <1>6 DEF SInv

LEMMA EnsureStationSInv ==
  ASSUME SInv, EnsureStation
  PROVE  SInv'
<1> USE Numbers DEF EnsureStation, CreateStation, menuVars, SeedAt
<1>0. PICK n \in 1..Len(DemoSteps) : n = seed.n
  BY DEF SInv, ScriptOK
<1>1. n \in 1..Len(DemoSteps) /\ n = seed.n /\ DemoKitchen \in kitchens /\ StationsThere(n - 1)
  BY <1>0 DEF SInv, ScriptOK
<1>2. stations' = stations \union {<<DemoKitchen, DemoSteps[n]>>}
  BY <1>1
<1>3. StationsThere(n)'
  <2> SUFFICES ASSUME NEW m \in 1..n PROVE <<DemoKitchen, DemoSteps[m]>> \in stations'
    BY DEF StationsThere
  <2>1. m \in 1..(n - 1) \/ m = n
    BY <1>1
  <2>2. QED
    BY <1>1, <1>2, <2>1 DEF StationsThere
<1>4. /\ seed' \in [pc : SeedPc, n : StepOrders, runs : 1..MaxRuns]
      /\ \/ seed'.pc = "station" /\ seed'.n = n + 1 /\ n + 1 \in 1..Len(DemoSteps)
         \/ seed'.pc = "find_item" /\ seed'.n = 1 /\ n = Len(DemoSteps)
  <2>1. CASE n < Len(DemoSteps)
    <3>1. n + 1 \in 1..Len(DemoSteps) /\ "station" \in SeedPc
      BY <1>1, <2>1 DEF SeedPc
    <3>2. QED
      BY <1>1, <2>1, <3>1, SeedMoves
  <2>2. CASE ~(n < Len(DemoSteps))
    <3>1. 1 \in 1..Len(DemoSteps) /\ "find_item" \in SeedPc /\ n = Len(DemoSteps)
      BY <1>1, <2>2 DEF SeedPc
    <3>2. QED
      BY <1>1, <2>2, <3>1, SeedMoves
  <2>3. QED
    BY <2>1, <2>2
<1>5. OrdersOK'
  BY <1>2, OrdersKept DEF SInv
<1>6. SeedTypeOK'
  <2>1. MenuTypeOK'
    BY DEF SInv, SeedTypeOK, MenuTypeOK
  <2>2. stations' \subseteq kitchens' \X StationTypes /\ kitchens' \subseteq Kitchens
    BY <1>1, <1>2 DEF SInv, SeedTypeOK
  <2>3. QED
    BY <1>4, <2>1, <2>2 DEF SeedTypeOK
<1>7. OnlyDemoSteps' /\ UpsertsOK'
  BY <1>2 DEF SInv, OnlyDemoSteps, UpsertsOK, Cookable, StationsThere, StepsThere
<1>8. ScriptOK'
  <2>1. CASE seed'.pc = "station"
    <3>1. seed'.n - 1 = n
      BY <1>1, <1>4, <2>1
    <3>2. QED
      BY <1>1, <1>3, <1>4, <2>1, <3>1 DEF ScriptOK
  <2>2. CASE seed'.pc = "find_item"
    BY <1>1, <1>3, <1>4, <2>2 DEF ScriptOK
  <2>3. QED
    BY <1>4, <2>1, <2>2
<1>9. QED
  BY <1>5, <1>6, <1>7, <1>8 DEF SInv

\* A step of the script that only reads.
LEMMA ReadSInv ==
  ASSUME SInv, UNCHANGED <<menuVars, kitchens, orderVars, stations>>,
         NEW pc \in SeedPc, NEW n \in 1..Len(DemoSteps), SeedTo(pc, n), ScriptOK'
  PROVE  SInv'
<1> USE DEF menuVars
<1>1. OrdersOK'
  BY OrdersKept DEF SInv
<1>2. SeedTypeOK'
  BY SeedMoves DEF SInv, SeedTypeOK, MenuTypeOK
<1>3. OnlyDemoSteps' /\ UpsertsOK'
  BY DEF SInv, OnlyDemoSteps, UpsertsOK, Cookable, StationsThere, StepsThere
<1>4. QED
  BY <1>1, <1>2, <1>3 DEF SInv

LEMMA FindItemSInv ==
  ASSUME SInv, FindItem
  PROVE  SInv'
<1> USE Numbers DEF FindItem, SeedAt
<1>1. PICK pc \in {"post_item", "find_step"} :
        SeedTo(pc, 1) /\ (pc = "post_item" <=> item[DemoItem] = "absent")
  OBVIOUS
<1>2. 1 \in 1..Len(DemoSteps) /\ pc \in SeedPc
  BY <1>1 DEF SeedPc
<1>3. seed'.pc = pc /\ seed'.n = 1
  BY <1>1, <1>2, SeedMoves
<1>4. DemoKitchen \in kitchens' /\ StationsThere(Len(DemoSteps))'
  BY DEF SInv, ScriptOK, StationsThere
<1>5. ScriptOK'
  BY <1>1, <1>2, <1>3, <1>4 DEF ScriptOK, menuVars, StepsThere
<1>6. QED
  BY <1>1, <1>2, <1>5, ReadSInv

\* Where the script goes when step n of the recipe is there.
LEMMA AfterStepOK ==
  ASSUME SInv, NEW n \in 1..Len(DemoSteps), AfterStep(n),
         stations' = stations, kitchens' = kitchens,
         StationsThere(Len(DemoSteps)), DemoKitchen \in kitchens,
         item'[DemoItem] # "absent", StepsThere(n)'
  PROVE  /\ ScriptOK'
         /\ \E pc \in SeedPc, m \in 1..Len(DemoSteps) : SeedTo(pc, m)
<1> USE Numbers
<1>1. StationsThere(Len(DemoSteps))'
  BY DEF StationsThere
<1>2. CASE n < Len(DemoSteps)
  <2>1. n + 1 \in 1..Len(DemoSteps) /\ "find_step" \in SeedPc /\ SeedTo("find_step", n + 1)
    BY <1>2 DEF AfterStep, SeedPc
  <2>2. seed'.pc = "find_step" /\ seed'.n = n + 1
    BY <2>1, SeedMoves
  <2>3. seed'.n - 1 = n
    BY <2>2
  <2>4. ScriptOK'
    BY <1>1, <2>1, <2>2, <2>3 DEF ScriptOK
  <2>5. QED
    BY <2>1, <2>4
<1>3. CASE ~(n < Len(DemoSteps))
  <2>1. n = Len(DemoSteps) /\ "availability" \in SeedPc /\ SeedTo("availability", n)
    BY <1>3 DEF AfterStep, SeedPc
  <2>2. seed'.pc = "availability" /\ seed'.n = n
    BY <2>1, SeedMoves
  <2>3. Cookable'
    BY <1>1, <2>1 DEF Cookable
  <2>4. ScriptOK'
    BY <1>1, <2>1, <2>2, <2>3 DEF ScriptOK
  <2>5. QED
    BY <2>1, <2>4
<1>4. QED
  BY <1>2, <1>3

\* The step before is there, and now this one.
LEMMA OneMoreStep ==
  ASSUME SInv, NEW n \in 1..Len(DemoSteps), StepsThere(n - 1),
         \A m \in StepOrders : recipe[DemoItem][m] # NULL => recipe'[DemoItem][m] # NULL,
         recipe'[DemoItem][n] # NULL
  PROVE  StepsThere(n)'
<1> SUFFICES ASSUME NEW m \in 1..n PROVE recipe'[DemoItem][m] # NULL
  BY DEF StepsThere
<1>1. m \in 1..(n - 1) \/ m = n
  BY Numbers
<1>2. m \in StepOrders
  BY Numbers
<1>3. QED
  BY <1>1, <1>2 DEF StepsThere

LEMMA FindStepSInv ==
  ASSUME SInv, FindStep
  PROVE  SInv'
<1> USE Numbers DEF SeedAt
<1>1. PICK n \in 1..Len(DemoSteps) : n = seed.n
  BY DEF SInv, ScriptOK
<1>2. /\ StepsThere(n - 1) /\ item[DemoItem] # "absent" /\ StationsThere(Len(DemoSteps))
      /\ DemoKitchen \in kitchens /\ UNCHANGED <<menuVars, kitchens, orderVars, stations>>
  BY <1>1 DEF FindStep, SInv, ScriptOK
<1>3. recipe' = recipe /\ item' = item /\ stations' = stations /\ kitchens' = kitchens
  BY <1>2 DEF menuVars
<1>4. CASE recipe[DemoItem][n] # NULL
  <2>1. AfterStep(n)
    BY <1>1, <1>4 DEF FindStep
  <2>2. StepsThere(n)'
    BY <1>2, <1>3, <1>4, OneMoreStep
  <2>3. ScriptOK' /\ \E pc \in SeedPc, m \in 1..Len(DemoSteps) : SeedTo(pc, m)
    BY <1>2, <1>3, <2>1, <2>2, AfterStepOK
  <2>4. QED
    BY <1>2, <2>3, ReadSInv
<1>5. CASE recipe[DemoItem][n] = NULL
  <2>1. SeedTo("post_step", n) /\ "post_step" \in SeedPc
    BY <1>1, <1>5 DEF FindStep, SeedPc
  <2>2. seed'.pc = "post_step" /\ seed'.n = n
    BY <2>1, SeedMoves
  <2>3. ScriptOK'
    BY <1>2, <1>3, <1>5, <2>2 DEF ScriptOK, StepsThere, StationsThere
  <2>4. QED
    BY <1>2, <2>1, <2>3, ReadSInv
<1>6. QED
  BY <1>4, <1>5

-----------------------------------------------------------------------------
(* Requests of menu-service *)

LEMMA CreateMenuItemType ==
  ASSUME MenuTypeOK, NEW i \in Items, NEW st \in MenuItemStatus, CreateMenuItem(i, st)
  PROVE  MenuTypeOK' /\ item'[i] = st /\ st # "absent" /\ \A j \in Items : j # i => item'[j] = item[j]
  BY DEF MenuTypeOK, CreateMenuItem, MenuItemStatus

LEMMA CreateRecipeStepType ==
  ASSUME MenuTypeOK, NEW i \in Items, NEW n \in StepOrders, NEW type \in StationTypes,
         CreateRecipeStep(i, n, type)
  PROVE  /\ MenuTypeOK'
         /\ recipe'[i][n] = type /\ recipe[i][n] = NULL
         /\ \A m \in StepOrders : m # n => recipe'[i][m] = recipe[i][m]
         /\ \A j \in Items : j # i => recipe'[j] = recipe[j]
<1> USE DEF CreateRecipeStep, MayCreateStep
<1>1. recipe[i] \in Recipe /\ [recipe[i] EXCEPT ![n] = type] \in Recipe
  BY DEF MenuTypeOK, Recipe
<1>2. recipe' = [recipe EXCEPT ![i] = [recipe[i] EXCEPT ![n] = type]]
  BY DEF MenuTypeOK
<1>3. recipe' \in [Items -> Recipe] /\ \A j \in Items : j # i => recipe'[j] = recipe[j]
  BY <1>1, <1>2 DEF MenuTypeOK
<1>4. MenuTypeOK'
  BY <1>3 DEF MenuTypeOK
<1>5. recipe'[i] = [recipe[i] EXCEPT ![n] = type]
  BY <1>2 DEF MenuTypeOK
<1>6. QED
  BY <1>1, <1>3, <1>4, <1>5 DEF Recipe

LEMMA UpsertLookupType ==
  ASSUME MenuTypeOK, NEW c \in Clients, NEW k \in Kitchens, NEW i \in Items,
         NEW is_available \in BOOLEAN, UpsertLookup(c, k, i, is_available)
  PROVE  /\ MenuTypeOK'
         /\ upsert'[c].kitchen = k /\ upsert'[c].item = i
         /\ upsert'[c].found = availability[k][i] /\ upsert'[c] \in Upsert
         /\ \A d \in Clients : d # c => upsert'[d] = upsert[d]
<1> DEFINE u == [kitchen |-> k, item |-> i, is_available |-> is_available, found |-> availability[k][i]]
<1>1. u \in Upsert
  BY DEF MenuTypeOK, Upsert
<1>2. upsert' = [upsert EXCEPT ![c] = u]
  BY DEF UpsertLookup
<1>3. u.kitchen = k /\ u.item = i /\ u.found = availability[k][i]
  OBVIOUS
<1> HIDE DEF u
<1>4. upsert' \in [Clients -> Upsert \union {NULL}]
  BY <1>1, <1>2 DEF MenuTypeOK
<1>5. MenuTypeOK'
  BY <1>4 DEF MenuTypeOK, UpsertLookup
<1>6. QED
  BY <1>1, <1>2, <1>3, <1>5 DEF MenuTypeOK

\* An upsert changes only the row it is about, and never removes one.
LEMMA UpsertWriteType ==
  ASSUME MenuTypeOK, NEW c \in Clients, UpsertWrite(c), item[upsert[c].item] # "absent"
  PROVE  /\ MenuTypeOK'
         /\ upsert[c] \in Upsert /\ upsert'[c] = NULL
         /\ \A d \in Clients : d # c => upsert'[d] = upsert[d]
         /\ \A k \in Kitchens, i \in Items :
              /\ availability[k][i] # NULL => availability'[k][i] # NULL
              /\ availability[k][i] = NULL /\ availability'[k][i] # NULL =>
                   k = upsert[c].kitchen /\ i = upsert[c].item
<1> DEFINE u == upsert[c]
           row == [availability[u.kitchen] EXCEPT ![u.item] = u.is_available]
<1>1. u \in Upsert
  BY DEF MenuTypeOK, UpsertWrite
<1>2. u.kitchen \in Kitchens /\ u.item \in Items /\ u.is_available \in BOOLEAN /\ u.is_available # NULL
  BY <1>1, NullIsNoValue DEF Upsert
<1>3. availability' = availability \/ availability' = [availability EXCEPT ![u.kitchen] = row]
  <2>1. availability' = IF UpsertCollides(c) \/ u.found = u.is_available THEN availability
                        ELSE [availability EXCEPT ![u.kitchen] = [@ EXCEPT ![u.item] = u.is_available]]
    BY DEF UpsertWrite
  <2>2. QED
    BY <1>2, <2>1 DEF MenuTypeOK
<1>4. row \in [Items -> BOOLEAN \union {NULL}] /\ row[u.item] = u.is_available
      /\ \A i \in Items : i # u.item => row[i] = availability[u.kitchen][i]
  BY <1>2 DEF MenuTypeOK
<1> HIDE DEF row
<1>5. availability' \in [Kitchens -> [Items -> BOOLEAN \union {NULL}]]
  BY <1>2, <1>3, <1>4 DEF MenuTypeOK
<1>6. \A k \in Kitchens, i \in Items :
        \/ availability'[k][i] = availability[k][i]
        \/ k = u.kitchen /\ i = u.item /\ availability'[k][i] # NULL
  BY <1>2, <1>3, <1>4 DEF MenuTypeOK
<1>7. upsert' = [upsert EXCEPT ![c] = NULL] /\ item' = item /\ recipe' = recipe
  BY DEF UpsertWrite
<1>8. upsert' \in [Clients -> Upsert \union {NULL}]
  BY <1>7 DEF MenuTypeOK
<1>9. MenuTypeOK'
  BY <1>2, <1>5, <1>6, <1>7, <1>8 DEF MenuTypeOK
<1>10. QED
  BY <1>1, <1>6, <1>7, <1>9 DEF MenuTypeOK

-----------------------------------------------------------------------------
(* Steps of the script that write to menu-service *)

LEMMA PostItemSInv ==
  ASSUME SInv, PostItem
  PROVE  SInv'
<1> USE Numbers DEF SeedAt
<1>1. item[DemoItem] = "absent" /\ DemoKitchen \in kitchens /\ StationsThere(Len(DemoSteps))
  BY DEF PostItem, SInv, ScriptOK
<1>2. CreateMenuItem(DemoItem, "active") /\ SeedTo("find_step", 1)
      /\ UNCHANGED <<kitchens, orderVars, stations>>
  BY <1>1 DEF PostItem
<1>3. "active" \in MenuItemStatus /\ DemoItem \in Items /\ MenuTypeOK
  BY DemoType DEF MenuItemStatus, SInv, SeedTypeOK
<1>4. /\ MenuTypeOK' /\ item'[DemoItem] # "absent"
      /\ \A j \in Items : j # DemoItem => item'[j] = item[j]
  BY <1>2, <1>3, CreateMenuItemType
<1>5. recipe' = recipe /\ availability' = availability /\ upsert' = upsert
  BY <1>2 DEF CreateMenuItem
<1>6. 1 \in 1..Len(DemoSteps) /\ "find_step" \in SeedPc
  BY DEF SeedPc
<1>7. /\ seed' \in [pc : SeedPc, n : StepOrders, runs : 1..MaxRuns]
      /\ seed'.pc = "find_step" /\ seed'.n = 1
  BY <1>2, <1>6, SeedMoves
<1>8. OrdersOK'
  BY <1>2, <1>5, OrdersKept DEF SInv
<1>9. SeedTypeOK'
  BY <1>2, <1>4, <1>7 DEF SInv, SeedTypeOK
<1>10. OnlyDemoSteps' /\ UpsertsOK'
  <2>1. OnlyDemoSteps'
    BY <1>5 DEF SInv, OnlyDemoSteps
  <2>2. \A c \in Clients : upsert[c] # NULL => upsert[c].item \in Items
    BY <1>3 DEF MenuTypeOK, Upsert
  <2>3. UpsertsOK'
    BY <1>2, <1>4, <1>5, <2>2 DEF SInv, UpsertsOK, Cookable, StationsThere, StepsThere
  <2>4. QED
    BY <2>1, <2>3
<1>11. ScriptOK'
  BY <1>1, <1>2, <1>4, <1>6, <1>7 DEF ScriptOK, StepsThere, StationsThere
<1>12. QED
  BY <1>8, <1>9, <1>10, <1>11 DEF SInv

LEMMA PostStepSInv ==
  ASSUME SInv, PostStep
  PROVE  SInv'
<1> USE Numbers DEF SeedAt
<1>1. PICK n \in 1..Len(DemoSteps) : n = seed.n
  BY DEF SInv, ScriptOK
<1>2. /\ StepsThere(n - 1) /\ item[DemoItem] # "absent" /\ StationsThere(Len(DemoSteps))
      /\ DemoKitchen \in kitchens /\ recipe[DemoItem][n] = NULL
  BY <1>1 DEF PostStep, SInv, ScriptOK
<1>3. CreateRecipeStep(DemoItem, n, DemoSteps[n]) /\ AfterStep(n)
      /\ UNCHANGED <<kitchens, orderVars, stations>>
  BY <1>1, <1>2 DEF PostStep, MayCreateStep
<1>4. DemoItem \in Items /\ n \in StepOrders /\ DemoSteps[n] \in StationTypes /\ MenuTypeOK
  BY DemoType DEF SInv, SeedTypeOK
<1>5. /\ MenuTypeOK'
      /\ recipe'[DemoItem][n] = DemoSteps[n] /\ recipe[DemoItem][n] = NULL
      /\ \A m \in StepOrders : m # n => recipe'[DemoItem][m] = recipe[DemoItem][m]
      /\ \A j \in Items : j # DemoItem => recipe'[j] = recipe[j]
  BY <1>3, <1>4, CreateRecipeStepType
<1>6. \A m \in StepOrders : recipe[DemoItem][m] # NULL => recipe'[DemoItem][m] # NULL
  BY <1>5
<1>7. recipe'[DemoItem][n] # NULL
  BY <1>4, <1>5, NullIsNoValue
<1>8. item' = item /\ availability' = availability /\ upsert' = upsert
      /\ kitchens' = kitchens /\ stations' = stations
  BY <1>3 DEF CreateRecipeStep
<1>9. StepsThere(n)'
  BY <1>2, <1>6, <1>7, OneMoreStep
<1>10. ScriptOK' /\ \E pc \in SeedPc, m \in 1..Len(DemoSteps) : SeedTo(pc, m)
  BY <1>2, <1>3, <1>8, <1>9, AfterStepOK
<1>11. SeedTypeOK'
  BY <1>5, <1>8, <1>10, SeedMoves DEF SInv, SeedTypeOK
<1>12. OnlyDemoSteps'
  BY <1>5 DEF SInv, OnlyDemoSteps
<1>13. UpsertsOK'
  <2>1. Cookable => Cookable'
    BY <1>6, <1>8 DEF Cookable, StationsThere, StepsThere
  <2>2. QED
    BY <1>8, <2>1 DEF SInv, UpsertsOK
<1>14. OrdersOK'
  BY <1>3, <1>6, OrdersKept DEF SInv
<1>15. QED
  BY <1>10, <1>11, <1>12, <1>13, <1>14 DEF SInv

LEMMA PostAvailabilitySInv ==
  ASSUME SInv, PostAvailability
  PROVE  SInv'
<1> USE Numbers DEF SeedAt
<1>1. PICK n \in 1..Len(DemoSteps) : n = seed.n
  BY DEF SInv, ScriptOK
<1>2. /\ item[DemoItem] # "absent" /\ Cookable /\ DemoKitchen \in kitchens
      /\ UpsertLookup(Seeder, DemoKitchen, DemoItem, TRUE) /\ SeedTo("upserting", n)
      /\ UNCHANGED <<kitchens, orderVars, stations>>
  BY <1>1 DEF PostAvailability, SInv, ScriptOK
<1>3. MenuTypeOK /\ DemoKitchen \in Kitchens /\ DemoItem \in Items /\ Seeder \in Clients
  BY DemoType, SeederIsClient DEF SInv, SeedTypeOK
<1>4. /\ MenuTypeOK'
      /\ upsert'[Seeder].kitchen = DemoKitchen /\ upsert'[Seeder].item = DemoItem
      /\ upsert'[Seeder].found = availability[DemoKitchen][DemoItem] /\ upsert'[Seeder] \in Upsert
      /\ \A d \in Clients : d # Seeder => upsert'[d] = upsert[d]
  BY <1>2, <1>3, UpsertLookupType
<1>5. item' = item /\ recipe' = recipe /\ availability' = availability
      /\ kitchens' = kitchens /\ stations' = stations
  BY <1>2 DEF UpsertLookup
<1>6. "upserting" \in SeedPc
  BY DEF SeedPc
<1>7. /\ seed' \in [pc : SeedPc, n : StepOrders, runs : 1..MaxRuns]
      /\ seed'.pc = "upserting" /\ seed'.n = n
  BY <1>2, <1>6, SeedMoves
<1>8. Cookable'
  BY <1>2, <1>5 DEF Cookable, StationsThere, StepsThere
<1>9. ScriptOK'
  BY <1>2, <1>4, <1>5, <1>7, <1>8, NullIsNoUpsert DEF ScriptOK, Cookable
<1>10. UpsertsOK'
  BY <1>2, <1>4, <1>5, <1>8 DEF SInv, UpsertsOK, Admins
<1>11. SeedTypeOK'
  BY <1>4, <1>5, <1>7 DEF SInv, SeedTypeOK
<1>12. OnlyDemoSteps' /\ OrdersOK'
  BY <1>2, <1>5, OrdersKept DEF SInv, OnlyDemoSteps
<1>13. QED
  BY <1>9, <1>10, <1>11, <1>12 DEF SInv

LEMMA AvailabilityAnsweredSInv ==
  ASSUME SInv, AvailabilityAnswered
  PROVE  SInv'
<1> USE Numbers DEF SeedAt
<1>1. PICK n \in 1..Len(DemoSteps) : n = seed.n
  BY DEF SInv, ScriptOK
<1>2. /\ Cookable /\ DemoKitchen \in kitchens /\ item[DemoItem] # "absent"
      /\ upsert[Seeder].kitchen = DemoKitchen /\ upsert[Seeder].item = DemoItem
      /\ upsert[Seeder].found = NULL => availability[DemoKitchen][DemoItem] = NULL
  BY DEF AvailabilityAnswered, SInv, ScriptOK
<1>3. ~UpsertCollides(Seeder)
  BY <1>2 DEF UpsertCollides
<1>4. UpsertWrite(Seeder) /\ SeedTo("done", n) /\ UNCHANGED <<kitchens, orderVars, stations>>
  BY <1>1, <1>3 DEF AvailabilityAnswered
<1>5. MenuTypeOK /\ DemoKitchen \in Kitchens /\ DemoItem \in Items /\ Seeder \in Clients
  BY DemoType, SeederIsClient DEF SInv, SeedTypeOK
<1>6. /\ MenuTypeOK' /\ upsert'[Seeder] = NULL
      /\ \A d \in Clients : d # Seeder => upsert'[d] = upsert[d]
      /\ \A k \in Kitchens, i \in Items :
           /\ availability[k][i] # NULL => availability'[k][i] # NULL
           /\ availability[k][i] = NULL /\ availability'[k][i] # NULL =>
                k = upsert[Seeder].kitchen /\ i = upsert[Seeder].item
  BY <1>2, <1>4, <1>5, UpsertWriteType
<1>7. item' = item /\ recipe' = recipe /\ kitchens' = kitchens /\ stations' = stations
  BY <1>4 DEF UpsertWrite
<1>8. "done" \in SeedPc
  BY DEF SeedPc
<1>9. /\ seed' \in [pc : SeedPc, n : StepOrders, runs : 1..MaxRuns]
      /\ seed'.pc = "done" /\ seed'.n = n
  BY <1>4, <1>8, SeedMoves
<1>10. Cookable'
  BY <1>2, <1>7 DEF Cookable, StationsThere, StepsThere
<1>11. ScriptOK'
  BY <1>2, <1>7, <1>9, <1>10 DEF ScriptOK, Cookable
<1>12. UpsertsOK'
  <2>1. \A c \in Clients : upsert'[c] # NULL => item'[upsert'[c].item] # "absent"
    BY <1>6, <1>7 DEF SInv, UpsertsOK
  <2>2. ASSUME NEW a \in Admins, upsert'[a] # NULL, upsert'[a].item = DemoItem
        PROVE  availability'[upsert'[a].kitchen][DemoItem] # NULL
    <3>1. a \in Clients /\ upsert'[a] = upsert[a]
      BY <1>6 DEF Admins
    <3>2. upsert[a].kitchen \in Kitchens
      BY <1>5, <2>2, <3>1 DEF MenuTypeOK, Upsert
    <3>3. QED
      BY <1>5, <1>6, <2>2, <3>1, <3>2 DEF SInv, UpsertsOK
  <2>3. ASSUME NEW k \in Kitchens, availability'[k][DemoItem] # NULL
        PROVE  k = DemoKitchen
    BY <1>2, <1>5, <1>6, <2>3 DEF SInv, UpsertsOK
  <2>4. QED
    BY <1>10, <2>1, <2>2, <2>3 DEF UpsertsOK
<1>13. SeedTypeOK'
  BY <1>6, <1>7, <1>9 DEF SInv, SeedTypeOK
<1>14. OnlyDemoSteps' /\ OrdersOK'
  BY <1>4, <1>7, OrdersKept DEF SInv, OnlyDemoSteps
<1>15. QED
  BY <1>11, <1>12, <1>13, <1>14 DEF SInv

LEMMA RunAgainSInv ==
  ASSUME SInv, RunAgain
  PROVE  SInv'
<1> USE Numbers DEF RunAgain
<1>1. MenuTypeOK'
  BY SeederIsClient DEF SInv, SeedTypeOK, MenuTypeOK
<1>2. seed' \in [pc : SeedPc, n : StepOrders, runs : 1..MaxRuns]
  BY MaxRunsType DEF SInv, SeedTypeOK, SeedPc
<1>3. SeedTypeOK'
  BY <1>1, <1>2 DEF SInv, SeedTypeOK
<1>4. \A c \in Clients : upsert'[c] = upsert[c] \/ upsert'[c] = NULL
  BY DEF SInv, SeedTypeOK, MenuTypeOK
<1>5. UpsertsOK'
  BY <1>4 DEF SInv, UpsertsOK, Admins, Cookable, StationsThere, StepsThere
<1>6. ScriptOK'
  BY DEF ScriptOK
<1>7. OnlyDemoSteps' /\ OrdersOK'
  BY OrdersKept DEF SInv, OnlyDemoSteps
<1>8. QED
  BY <1>3, <1>5, <1>6, <1>7 DEF SInv

-----------------------------------------------------------------------------
(* Steps of administrators *)

\* What an administrator leaves alone of the demo item.
DemoKept ==
  /\ UNCHANGED <<kitchens, orderVars, stations, seed>>
  /\ item'[DemoItem] = item[DemoItem] /\ recipe'[DemoItem] = recipe[DemoItem]
  /\ upsert'[Seeder] = upsert[Seeder]
  /\ \A k \in Kitchens : availability'[k][DemoItem] = NULL <=> availability[k][DemoItem] = NULL

LEMMA DemoKeptSInv ==
  ASSUME SInv, DemoKept, MenuTypeOK',
         \A c \in Clients : upsert'[c] # NULL => item'[upsert'[c].item] # "absent",
         \A a \in Admins : upsert'[a] # NULL /\ upsert'[a].item = DemoItem =>
           availability'[upsert'[a].kitchen][DemoItem] # NULL
  PROVE  SInv'
<1>1. kitchens' = kitchens /\ stations' = stations /\ seed' = seed /\ UNCHANGED orderVars
  BY DEF DemoKept
<1>2. recipe'[DemoItem] = recipe[DemoItem] /\ item'[DemoItem] = item[DemoItem]
      /\ upsert'[Seeder] = upsert[Seeder] /\ DemoKitchen \in Kitchens
  BY DemoType DEF DemoKept
<1>3. \A k \in Kitchens : availability'[k][DemoItem] = NULL <=> availability[k][DemoItem] = NULL
  BY DEF DemoKept
<1>4. SeedTypeOK'
  BY <1>1 DEF SInv, SeedTypeOK
<1>5. OnlyDemoSteps'
  BY <1>2 DEF SInv, OnlyDemoSteps
<1>6. /\ Cookable => Cookable'
      /\ \A n : (StationsThere(n) => StationsThere(n)') /\ (StepsThere(n) => StepsThere(n)')
  BY <1>1, <1>2 DEF Cookable, StationsThere, StepsThere
<1>7. ScriptOK'
  BY <1>1, <1>2, <1>3, <1>6 DEF SInv, ScriptOK
<1>8. UpsertsOK'
  BY <1>3, <1>6 DEF SInv, UpsertsOK
<1>9. OrdersOK'
  BY <1>1, <1>2, OrdersKept DEF SInv
<1>10. QED
  BY <1>4, <1>5, <1>7, <1>8, <1>9 DEF SInv

LEMMA AdminSInv ==
  ASSUME SInv, NEW a \in Admins, AdminStep(a), UNCHANGED <<kitchens, orderVars, stations, seed>>
  PROVE  SInv'
<1>1. MenuTypeOK /\ DemoItem \in Items /\ DemoKitchen \in Kitchens /\ a \in Clients /\ a # Seeder
      /\ Seeder \in Clients
  BY DemoType, SeederIsClient DEF SInv, SeedTypeOK, Admins
<1>2. \A c \in Clients : upsert[c] # NULL => upsert[c] \in Upsert /\ upsert[c].item \in Items
                                             /\ upsert[c].kitchen \in Kitchens
  BY <1>1 DEF MenuTypeOK, Upsert
<1>3. UpsertsOK
  BY DEF SInv
<1>4. ASSUME NEW i \in Items \ {DemoItem}, NEW st \in MenuItemStatus, CreateMenuItem(i, st)
      PROVE  SInv'
  <2>1. MenuTypeOK' /\ item'[i] # "absent" /\ \A j \in Items : j # i => item'[j] = item[j]
    BY <1>1, <1>4, CreateMenuItemType
  <2>2. recipe' = recipe /\ availability' = availability /\ upsert' = upsert
    BY <1>4 DEF CreateMenuItem
  <2>3. DemoKept
    BY <1>1, <2>1, <2>2 DEF DemoKept
  <2>4. \A c \in Clients : upsert'[c] # NULL => item'[upsert'[c].item] # "absent"
    BY <1>2, <1>3, <2>1, <2>2 DEF UpsertsOK
  <2>5. QED
    BY <1>3, <2>1, <2>2, <2>3, <2>4, DemoKeptSInv DEF UpsertsOK
<1>5. ASSUME NEW i \in Items \ {DemoItem}, NEW n \in StepOrders, NEW type \in StationTypes,
             CreateRecipeStep(i, n, type)
      PROVE  SInv'
  <2>1. MenuTypeOK' /\ \A j \in Items : j # i => recipe'[j] = recipe[j]
    BY <1>1, <1>5, CreateRecipeStepType
  <2>2. item' = item /\ availability' = availability /\ upsert' = upsert
    BY <1>5 DEF CreateRecipeStep
  <2>3. DemoKept
    BY <1>1, <2>1, <2>2 DEF DemoKept
  <2>4. QED
    BY <1>3, <2>1, <2>2, <2>3, DemoKeptSInv DEF UpsertsOK
<1>6. ASSUME NEW i \in Items, NEW k \in Kitchens, NEW available \in BOOLEAN,
             i = DemoItem => availability[k][i] # NULL, UpsertLookup(a, k, i, available)
      PROVE  SInv'
  <2>1. /\ MenuTypeOK' /\ upsert'[a].kitchen = k /\ upsert'[a].item = i
        /\ \A d \in Clients : d # a => upsert'[d] = upsert[d]
    BY <1>1, <1>6, UpsertLookupType
  <2>2. item' = item /\ recipe' = recipe /\ availability' = availability /\ item[i] # "absent"
    BY <1>6 DEF UpsertLookup
  <2>3. DemoKept
    BY <1>1, <2>1, <2>2 DEF DemoKept
  <2>4. \A c \in Clients : upsert'[c] # NULL => item'[upsert'[c].item] # "absent"
    BY <1>3, <2>1, <2>2 DEF UpsertsOK
  <2>5. ASSUME NEW b \in Admins, upsert'[b] # NULL, upsert'[b].item = DemoItem
        PROVE  availability'[upsert'[b].kitchen][DemoItem] # NULL
    BY <1>3, <1>6, <2>1, <2>2, <2>5 DEF UpsertsOK, Admins
  <2>6. QED
    BY <2>1, <2>3, <2>4, <2>5, DemoKeptSInv
<1>7. CASE UpsertWrite(a)
  <2>1. upsert[a] # NULL /\ item[upsert[a].item] # "absent"
    BY <1>1, <1>3, <1>7 DEF UpsertsOK, UpsertWrite
  <2>2. /\ MenuTypeOK' /\ upsert'[a] = NULL
        /\ \A d \in Clients : d # a => upsert'[d] = upsert[d]
        /\ \A k \in Kitchens, i \in Items :
             /\ availability[k][i] # NULL => availability'[k][i] # NULL
             /\ availability[k][i] = NULL /\ availability'[k][i] # NULL =>
                  k = upsert[a].kitchen /\ i = upsert[a].item
    BY <1>1, <1>7, <2>1, UpsertWriteType
  <2>3. item' = item /\ recipe' = recipe
    BY <1>7 DEF UpsertWrite
  <2>4. \A k \in Kitchens : availability'[k][DemoItem] = NULL <=> availability[k][DemoItem] = NULL
    BY <1>1, <1>3, <2>1, <2>2 DEF UpsertsOK
  <2>5. DemoKept
    BY <1>1, <2>2, <2>3, <2>4 DEF DemoKept
  <2>6. \A c \in Clients : upsert'[c] # NULL => item'[upsert'[c].item] # "absent"
    BY <1>3, <2>2, <2>3 DEF UpsertsOK
  <2>7. ASSUME NEW b \in Admins, upsert'[b] # NULL, upsert'[b].item = DemoItem
        PROVE  availability'[upsert'[b].kitchen][DemoItem] # NULL
    <3>1. upsert'[b] = upsert[b] /\ upsert[b].kitchen \in Kitchens
      BY <1>2, <2>2, <2>7 DEF Admins
    <3>2. QED
      BY <1>3, <2>4, <2>7, <3>1 DEF UpsertsOK
  <2>8. QED
    BY <2>2, <2>5, <2>6, <2>7, DemoKeptSInv
<1>8. QED
  BY <1>4, <1>5, <1>6, <1>7 DEF AdminStep

-----------------------------------------------------------------------------
(* Steps of customers *)

LEMMA OrderStepSInv ==
  ASSUME SInv, UNCHANGED <<menuVars, kitchens, stations, seed>>, NEW c \in Customers,
         placing' \in [Customers -> Placing], DOMAIN placed' = Customers,
         \A d \in Customers : d # c => placing'[d] = placing[d] /\ placed'[d] = placed[d],
         PlacingOK(c)', PlacedOK(c)'
  PROVE  SInv'
<1>1. /\ item' = item /\ recipe' = recipe /\ availability' = availability /\ upsert' = upsert
      /\ kitchens' = kitchens /\ stations' = stations /\ seed' = seed
  BY DEF menuVars
<1>2. /\ Cookable' <=> Cookable
      /\ \A n : (StationsThere(n)' <=> StationsThere(n)) /\ (StepsThere(n)' <=> StepsThere(n))
  BY <1>1 DEF Cookable, StationsThere, StepsThere
<1>3. SeedTypeOK' /\ OnlyDemoSteps'
  BY <1>1 DEF SInv, SeedTypeOK, MenuTypeOK, OnlyDemoSteps
<1>4. ScriptOK' /\ UpsertsOK'
  BY <1>1, <1>2 DEF SInv, ScriptOK, UpsertsOK
<1>5. ASSUME NEW k, NEW recipes, WholeDemo(k, recipes) PROVE WholeDemo(k, recipes)'
  BY <1>2, <1>5 DEF WholeDemo
<1>6. ASSUME NEW d \in Customers PROVE PlacingOK(d)' /\ PlacedOK(d)'
  <2>1. CASE d = c
    BY <2>1
  <2>2. CASE d # c
    <3>1. PlacingOK(d) /\ PlacedOK(d) /\ placing'[d] = placing[d] /\ placed'[d] = placed[d]
      BY <2>2 DEF SInv, OrdersOK
    <3>2. PlacingOK(d)'
      BY <1>2, <1>5, <3>1 DEF PlacingOK, RecipesRead
    <3>3. PlacedOK(d)'
      BY <1>5, <3>1 DEF PlacedOK, RecipesRead
    <3>4. QED
      BY <3>2, <3>3
  <2>3. QED
    BY <2>1, <2>2
<1>7. OrdersOK'
  BY <1>6 DEF OrdersOK
<1>8. QED
  BY <1>3, <1>4, <1>7 DEF SInv

\* A session that moves on without committing its order.
LEMMA SessionSInv ==
  ASSUME SInv, UNCHANGED <<menuVars, kitchens, stations, seed>>, NEW c \in Customers,
         NEW q \in Placing, placing' = [placing EXCEPT ![c] = q], UNCHANGED placed, PlacingOK(c)'
  PROVE  SInv'
<1>1. placing \in [Customers -> Placing] /\ DOMAIN placed = Customers /\ PlacedOK(c)
  BY DEF SInv, OrdersOK
<1>2. placing' \in [Customers -> Placing] /\ placed' = placed
  BY <1>1
<1>3. \A d \in Customers : d # c => placing'[d] = placing[d] /\ placed'[d] = placed[d]
  BY <1>1
<1>4. stations' = stations
  OBVIOUS
<1>5. PlacedOK(c)'
  <2>1. ASSUME NEW k, NEW recipes PROVE WholeDemo(k, recipes)' <=> WholeDemo(k, recipes)
    BY <1>4 DEF WholeDemo, StationsThere
  <2>2. QED
    BY <1>1, <1>2, <2>1 DEF PlacedOK, RecipesRead
<1>6. QED
  BY <1>1, <1>2, <1>3, <1>5, OrderStepSInv

LEMMA RefuseSInv ==
  ASSUME SInv, UNCHANGED <<menuVars, kitchens, stations, seed>>, NEW c \in Customers, Refuse(c)
  PROVE  SInv'
<1>1. Ended \in Placing /\ Ended.pc = "ended"
  BY DEF Ended, Placing
<1>2. placing' = [placing EXCEPT ![c] = Ended] /\ UNCHANGED placed /\ placing \in [Customers -> Placing]
  BY DEF Refuse, SInv, OrdersOK
<1>3. placing'[c].pc = "ended"
  BY <1>1, <1>2
<1>4. PlacingOK(c)'
  BY <1>3 DEF PlacingOK
<1>5. QED
  BY <1>1, <1>2, <1>4, SessionSInv

LEMMA PayloadType ==
  ASSUME NEW p \in Payloads
  PROVE  p.kitchen \in Kitchens /\ p.lines \in Lines
  BY PayloadsType DEF Lines

\* A session that reads recipes has all its fields.
LEMMA ReadingType ==
  ASSUME NEW p \in Placing, p.pc = "recipes"
  PROVE  /\ p.payload \in Payloads /\ p.available \subseteq Items
         /\ p.next \in Nat \ {0} /\ p.recipes \in Recipes
         /\ p \in [pc : {"recipes"}, payload : Payloads, available : SUBSET Items,
                   next : Nat \ {0}, recipes : Recipes]
  BY DEF Placing

LEMMA GetKitchenSInv ==
  ASSUME SInv, UNCHANGED <<stations, seed>>, NEW c \in Customers, NEW p \in Payloads, GetKitchen(c, p)
  PROVE  SInv'
<1> DEFINE q == [pc |-> "menu", payload |-> p]
<1>1. UNCHANGED <<menuVars, kitchens, stations, seed>>
  BY DEF GetKitchen
<1>2. CASE placing' = [placing EXCEPT ![c] = q] /\ UNCHANGED placed
  <2>1. q \in Placing /\ q.pc = "menu"
    BY DEF Placing
  <2> HIDE DEF q
  <2>2. placing'[c] = q
    BY <1>2 DEF SInv, OrdersOK
  <2>3. PlacingOK(c)'
    BY <2>1, <2>2 DEF PlacingOK
  <2>4. QED
    BY <1>1, <1>2, <2>1, <2>3, SessionSInv
<1>3. CASE Refuse(c)
  BY <1>1, <1>3, RefuseSInv
<1>4. QED
  BY <1>2, <1>3 DEF GetKitchen

LEMMA GetKitchenMenuSInv ==
  ASSUME SInv, UNCHANGED <<stations, seed>>, NEW c \in Customers, GetKitchenMenu(c)
  PROVE  SInv'
<1>1. UNCHANGED <<menuVars, kitchens, stations, seed>> /\ UNCHANGED placed
  BY DEF GetKitchenMenu
<1>2. placing[c] \in Placing /\ placing[c].pc = "menu" /\ placing \in [Customers -> Placing]
  BY DEF SInv, OrdersOK, GetKitchenMenu
<1>3. placing[c].payload \in Payloads
  BY <1>2 DEF Placing
<1>4. KitchenMenu(placing[c].payload.kitchen) \subseteq Items /\ [i \in Items |-> NoSteps] \in Recipes
  BY DEF KitchenMenu, Recipes, Recipe, NoSteps
<1>5. PICK q \in Placing :
        q = [pc |-> "recipes", payload |-> placing[c].payload,
             available |-> KitchenMenu(placing[c].payload.kitchen),
             next |-> 1, recipes |-> [i \in Items |-> NoSteps]]
  <2> DEFINE s == [pc |-> "recipes", payload |-> placing[c].payload,
                   available |-> KitchenMenu(placing[c].payload.kitchen),
                   next |-> 1, recipes |-> [i \in Items |-> NoSteps]]
  <2>1. s \in Placing
    BY <1>3, <1>4 DEF Placing
  <2> HIDE DEF s
  <2>2. \E q \in Placing : q = s
    BY <2>1
  <2>3. QED
    BY <2>2 DEF s
<1>6. placing' = [placing EXCEPT ![c] = q]
  BY <1>5 DEF GetKitchenMenu
<1>7. placing'[c] = q
  BY <1>2, <1>6
<1>8. PlacingOK(c)'
  <2>1. /\ q.payload \in Payloads /\ q.available = KitchenMenu(q.payload.kitchen)
        /\ q.next = 1 /\ q.recipes = [i \in Items |-> NoSteps]
    BY <1>3, <1>5
  <2>2. Len(q.payload.lines) \in Nat /\ q.payload.kitchen \in Kitchens /\ DemoItem \in Items
    BY <2>1, PayloadType, DemoType DEF Lines
  <2>3. q.next <= Len(q.payload.lines) + 1
    BY <2>1, <2>2
  <2>4. RecipesRead(q.payload.lines, q.next - 1, q.recipes)'
    BY <2>1 DEF RecipesRead
  <2>5. WholeDemo(q.payload.kitchen, q.recipes)'
    BY <2>1, <2>2 DEF WholeDemo
  <2>6. DemoItem \in q.available => q.payload.kitchen = DemoKitchen /\ Cookable
    BY <2>1, <2>2, NullIsNoValue DEF KitchenMenu, SInv, UpsertsOK
  <2>7. Cookable => Cookable'
    BY <1>1 DEF Cookable, StationsThere, StepsThere, menuVars
  <2>8. QED
    BY <1>7, <2>3, <2>4, <2>5, <2>6, <2>7 DEF PlacingOK
<1>9. QED
  BY <1>1, <1>5, <1>6, <1>8, SessionSInv

\* A demo recipe that has all its steps is the whole demo recipe.
LEMMA DemoIsWhole ==
  ASSUME SInv, Cookable
  PROVE  recipe[DemoItem] = DemoRecipe
<1>1. recipe[DemoItem] \in Recipe
  BY DemoType DEF SInv, SeedTypeOK, MenuTypeOK
<1>2. \A n \in StepOrders : recipe[DemoItem][n] = DemoRecipe[n]
  <2> TAKE n \in StepOrders
  <2>1. recipe[DemoItem][n] \in {NULL, DemoRecipe[n]}
    BY DEF SInv, OnlyDemoSteps
  <2>2. CASE n \in 1..Len(DemoSteps)
    BY <2>1, <2>2 DEF Cookable, StepsThere
  <2>3. CASE n \notin 1..Len(DemoSteps)
    BY <2>1, <2>3 DEF DemoRecipe
  <2>4. QED
    BY <2>2, <2>3
<1>3. QED
  BY <1>1, <1>2 DEF Recipe, DemoRecipe

LEMMA GetRecipeSInv ==
  ASSUME SInv, UNCHANGED <<stations, seed>>, NEW c \in Customers, GetRecipe(c)
  PROVE  SInv'
<1>0. PICK p \in Placing : p = placing[c]
  BY DEF SInv, OrdersOK
<1> DEFINE i == p.payload.lines[p.next].item
<1>1. UNCHANGED <<menuVars, kitchens, stations, seed>>
  BY DEF GetRecipe
<1>2. p.pc = "recipes" /\ p.next <= Len(p.payload.lines)
  BY <1>0 DEF GetRecipe
<1>3. /\ p.payload \in Payloads /\ p.available \subseteq Items
      /\ p.next \in Nat \ {0} /\ p.recipes \in Recipes
      /\ p \in [pc : {"recipes"}, payload : Payloads, available : SUBSET Items,
                next : Nat \ {0}, recipes : Recipes]
  BY <1>2, ReadingType
<1>4. Len(p.payload.lines) \in Nat /\ i \in Items /\ p.payload.lines \in Lines
      /\ \A l \in 1..Len(p.payload.lines) : p.payload.lines[l].item \in Items
  <2>1. p.payload.lines \in Lines
    BY <1>3, PayloadType
  <2>2. \A l \in 1..Len(p.payload.lines) : p.payload.lines[l].item \in Items
    BY <1>3, <2>1, LineTypes
  <2>3. Len(p.payload.lines) \in Nat /\ p.next \in 1..Len(p.payload.lines)
    BY <1>2, <1>3, <2>1 DEF Lines
  <2>4. QED
    BY <2>1, <2>2, <2>3
<1>5. recipe[i] \in Recipe
  BY <1>4 DEF SInv, SeedTypeOK, MenuTypeOK
<1> DEFINE After(rs) == [pc |-> "recipes", payload |-> p.payload, available |-> p.available,
                         next |-> p.next + 1, recipes |-> rs]
<1>6. CASE /\ Offered(c, i) /\ HasRecipe(i) /\ UNCHANGED placed
           /\ placing' = [placing EXCEPT ![c] = After([p.recipes EXCEPT ![i] = recipe[i]])]
  <2>1. PICK rs \in Recipes : rs = [p.recipes EXCEPT ![i] = recipe[i]]
    BY <1>3, <1>4, <1>5 DEF Recipes
  <2>2. rs[i] = recipe[i] /\ \A j \in Items : j # i => rs[j] = p.recipes[j]
    BY <1>3, <1>4, <2>1 DEF Recipes
  <2>3. PICK q : q = After(rs)
    OBVIOUS
  <2>4. /\ q.pc = "recipes" /\ q.payload = p.payload /\ q.available = p.available
        /\ q.next = p.next + 1 /\ q.recipes = rs
    BY <2>3
  <2>5. q \in Placing
    BY <1>3, <2>3 DEF Placing
  <2>6. placing' = [placing EXCEPT ![c] = q] /\ placing'[c] = q
    BY <1>6, <2>1, <2>3 DEF SInv, OrdersOK
  <2>7. /\ RecipesRead(p.payload.lines, p.next - 1, p.recipes)
        /\ WholeDemo(p.payload.kitchen, p.recipes)
        /\ DemoItem \in p.available => p.payload.kitchen = DemoKitchen /\ Cookable
    BY <1>0, <1>2 DEF SInv, OrdersOK, PlacingOK
  <2>8. RecipesRead(p.payload.lines, p.next, rs)
    <3> SUFFICES ASSUME NEW l \in 1..p.next PROVE rs[p.payload.lines[l].item] # NoSteps
      BY DEF RecipesRead
    <3>1. CASE p.payload.lines[l].item = i
      BY <1>6, <2>2, <3>1 DEF HasRecipe
    <3>2. CASE p.payload.lines[l].item # i
      <4>1. l \in 1..(p.next - 1) /\ l \in 1..Len(p.payload.lines)
        BY <1>2, <1>3, <1>4, <3>2
      <4>2. QED
        BY <1>4, <2>2, <2>7, <3>2, <4>1 DEF RecipesRead
    <3>3. QED
      BY <3>1, <3>2
  <2>9. WholeDemo(p.payload.kitchen, rs)
    <3>1. CASE i = DemoItem
      <4>1. DemoItem \in p.available
        BY <1>0, <1>6, <3>1 DEF Offered
      <4>2. p.payload.kitchen = DemoKitchen /\ Cookable
        BY <2>7, <4>1
      <4>3. QED
        BY <2>2, <3>1, <4>2, DemoIsWhole DEF WholeDemo, Cookable
    <3>2. CASE i # DemoItem
      BY <2>2, <2>7, <3>2, DemoType DEF WholeDemo
    <3>3. QED
      BY <3>1, <3>2
  <2>10. Cookable => Cookable'
    BY <1>1 DEF Cookable, StationsThere, StepsThere, menuVars
  <2>11. WholeDemo(q.payload.kitchen, q.recipes)'
    BY <1>1, <2>4, <2>9 DEF WholeDemo, StationsThere
  <2>12. q.next <= Len(q.payload.lines) + 1 /\ q.next - 1 = p.next
    BY <1>2, <1>3, <1>4, <2>4
  <2>13. RecipesRead(q.payload.lines, q.next - 1, q.recipes)'
    BY <2>4, <2>8, <2>12 DEF RecipesRead
  <2>14. DemoItem \in q.available => q.payload.kitchen = DemoKitchen /\ Cookable'
    BY <2>4, <2>7, <2>10
  <2>15. PlacingOK(c)'
    BY <2>6, <2>11, <2>12, <2>13, <2>14 DEF PlacingOK
  <2>16. QED
    BY <1>1, <1>6, <2>5, <2>6, <2>15, SessionSInv
<1>7. CASE Refuse(c)
  BY <1>1, <1>7, RefuseSInv
<1>8. QED
  BY <1>0, <1>6, <1>7 DEF GetRecipe

LEMMA CommitOrderSInv ==
  ASSUME SInv, UNCHANGED <<stations, seed>>, NEW c \in Customers, CommitOrder(c)
  PROVE  SInv'
<1>0. PICK p \in Placing : p = placing[c]
  BY DEF SInv, OrdersOK
<1> DEFINE o == [payload |-> p.payload, built |-> Build(p.payload.lines, p.recipes)]
<1>1. UNCHANGED <<menuVars, kitchens, stations, seed>>
  BY DEF CommitOrder
<1>2. /\ p.pc = "recipes" /\ p.next > Len(p.payload.lines)
      /\ placed' = [placed EXCEPT ![c] = o] /\ placing' = [placing EXCEPT ![c] = Ended]
  BY <1>0 DEF CommitOrder
<1>3. p.payload \in Payloads /\ p.next \in Nat /\ p.recipes \in Recipes
  BY <1>2, ReadingType
<1>4. Len(p.payload.lines) \in Nat
  BY <1>3, PayloadType DEF Lines
<1>5. /\ p.next <= Len(p.payload.lines) + 1
      /\ RecipesRead(p.payload.lines, p.next - 1, p.recipes)
      /\ WholeDemo(p.payload.kitchen, p.recipes)
  BY <1>0, <1>2 DEF SInv, OrdersOK, PlacingOK
<1>6. p.next - 1 = Len(p.payload.lines)
  BY <1>2, <1>3, <1>4, <1>5
<1>7. o.payload = p.payload /\ o.built = Build(p.payload.lines, p.recipes)
  OBVIOUS
<1> HIDE DEF o
<1>8. Ended \in Placing /\ Ended.pc = "ended"
  BY DEF Ended, Placing
<1>9. placing \in [Customers -> Placing] /\ DOMAIN placed = Customers
  BY DEF SInv, OrdersOK
<1>10. /\ placing' \in [Customers -> Placing] /\ DOMAIN placed' = Customers
       /\ placing'[c] = Ended /\ placed'[c] = o
       /\ \A d \in Customers : d # c => placing'[d] = placing[d] /\ placed'[d] = placed[d]
  BY <1>2, <1>8, <1>9
<1>11. PlacingOK(c)'
  BY <1>8, <1>10 DEF PlacingOK
<1>12. RecipesRead(p.payload.lines, Len(p.payload.lines), p.recipes)'
  BY <1>5, <1>6 DEF RecipesRead
<1>13. WholeDemo(p.payload.kitchen, p.recipes)'
  BY <1>1, <1>5 DEF WholeDemo, StationsThere
<1>14. PlacedOK(c)'
  BY <1>3, <1>7, <1>10, <1>12, <1>13 DEF PlacedOK
<1>15. QED
  BY <1>1, <1>10, <1>11, <1>14, OrderStepSInv

-----------------------------------------------------------------------------
(* The invariant holds *)

LEMMA InitSInv == SeedInit => SInv
<1> SUFFICES ASSUME SeedInit PROVE SInv
  OBVIOUS
<1> USE Numbers DEF SeedInit, MenuInit, OrderInit
<1>1. NoSteps \in Recipe /\ DemoItem \in Items /\ Seeder \in Clients
  BY DemoType, SeederIsClient DEF NoSteps, Recipe
<1>2. MenuTypeOK
  BY <1>1 DEF MenuTypeOK
<1>3. seed \in [pc : SeedPc, n : StepOrders, runs : 1..MaxRuns] /\ seed.pc = "kitchen" /\ seed.n = 1
  BY MaxRunsType DEF SeedPc
<1>4. SeedTypeOK
  BY <1>2, <1>3 DEF SeedTypeOK
<1>5. OnlyDemoSteps
  BY <1>1 DEF OnlyDemoSteps, NoSteps
<1>6. ScriptOK
  BY <1>3 DEF ScriptOK
<1>7. UpsertsOK
  BY <1>1 DEF UpsertsOK, Admins
<1>8. OrdersOK
  <2>1. [pc |-> "new"] \in Placing
    BY DEF Placing
  <2>2. placing \in [Customers -> Placing] /\ DOMAIN placed = Customers
    BY <2>1
  <2>3. \A c \in Customers : placing[c].pc = "new" /\ placed[c] = NULL
    OBVIOUS
  <2>4. QED
    BY <2>2, <2>3 DEF OrdersOK, PlacingOK, PlacedOK
<1>9. QED
  BY <1>4, <1>5, <1>6, <1>7, <1>8 DEF SInv

LEMMA NextSInv == SInv /\ [SeedNext]_seedVars => SInv'
<1> SUFFICES ASSUME SInv, [SeedNext]_seedVars PROVE SInv'
  OBVIOUS
<1>1. CASE SeedStep
  BY <1>1, EnsureKitchenSInv, EnsureStationSInv, FindItemSInv, PostItemSInv, FindStepSInv,
     PostStepSInv, PostAvailabilitySInv, AvailabilityAnsweredSInv, RunAgainSInv DEF SeedStep
<1>2. ASSUME NEW a \in Admins, AdminStep(a), UNCHANGED <<kitchens, orderVars, stations, seed>>
      PROVE  SInv'
  BY <1>2, AdminSInv
<1>3. ASSUME NEW c \in Customers, Ordering(c), UNCHANGED <<stations, seed>>
      PROVE  SInv'
  <2>1. CASE \E p \in Payloads : GetKitchen(c, p)
    BY <1>3, <2>1, GetKitchenSInv
  <2>2. CASE GetKitchenMenu(c)
    BY <1>3, <2>2, GetKitchenMenuSInv
  <2>3. CASE GetRecipe(c)
    BY <1>3, <2>3, GetRecipeSInv
  <2>4. CASE CommitOrder(c)
    BY <1>3, <2>4, CommitOrderSInv
  <2>5. CASE OrderFails(c)
    BY <1>3, <2>5, RefuseSInv DEF OrderFails
  <2>6. QED
    BY <1>3, <2>1, <2>2, <2>3, <2>4, <2>5 DEF Ordering
<1>4. CASE UNCHANGED seedVars
  <2>1. DemoKept /\ UNCHANGED menuVars
    BY <1>4 DEF DemoKept, seedVars, menuVars
  <2>2. MenuTypeOK'
    BY <2>1 DEF menuVars, SInv, SeedTypeOK, MenuTypeOK
  <2>3. QED
    BY <2>1, <2>2, DemoKeptSInv DEF menuVars, SInv, UpsertsOK
<1>5. QED
  BY <1>1, <1>2, <1>3, <1>4 DEF SeedNext

\* The rows, the script, the upserts and the orders stay in step.
THEOREM SeedInvariance == SeedSpec => []SInv
  BY InitSInv, NextSInv, PTL DEF SeedSpec

\* The rows of menu-service and the script's state keep their shape, whatever the
\* script, the administrators and the customers do.
THEOREM SeedTypeCorrect == SeedSpec => []SeedTypeOK
<1>1. SInv => SeedTypeOK
  BY DEF SInv
<1>2. QED
  BY <1>1, SeedInvariance, PTL

\* The demo seed can be killed after any of its requests and run again any number
\* of times: what it finds missing is still missing when it creates it.
THEOREM SeedRepeats == SeedSpec => []SeedIsRepeatable
<1>1. SInv => SeedIsRepeatable
  BY DEF SInv, ScriptOK, SeedIsRepeatable
<1>2. QED
  BY <1>1, SeedInvariance, PTL

-----------------------------------------------------------------------------
(* What the invariant says of committed orders *)

\* An order that is there was built from recipes, none of them empty.
OrderBuilt(c, recipes) ==
  LET lines == placed[c].payload.lines IN
  /\ placed[c].payload \in Payloads /\ lines \in Lines /\ recipes \in Recipes
  /\ BuiltFor(placed[c].built, OrderTasks(lines, recipes))
  /\ RecipesRead(lines, Len(lines), recipes)
  /\ WholeDemo(placed[c].payload.kitchen, recipes)

LEMMA PlacedIsBuilt ==
  ASSUME SInv, NEW c \in Customers, placed[c] # NULL
  PROVE  \E recipes : OrderBuilt(c, recipes)
<1> DEFINE lines == placed[c].payload.lines
<1>1. placed[c].payload \in Payloads
  BY DEF SInv, OrdersOK, PlacedOK
<1>2. PICK recipes \in Recipes : /\ placed[c].built = Build(lines, recipes)
                                 /\ RecipesRead(lines, Len(lines), recipes)
                                 /\ WholeDemo(placed[c].payload.kitchen, recipes)
  BY DEF SInv, OrdersOK, PlacedOK
<1>3. lines \in Lines
  BY <1>1, PayloadType
<1>4. BuiltFor(Build(lines, recipes), OrderTasks(lines, recipes))
  BY <1>3, BuildIsRight
<1>5. QED
  BY <1>1, <1>2, <1>3, <1>4 DEF OrderBuilt

\* The tasks of a committed order, in terms of its lines and recipes.
LEMMA PlacedTasks ==
  ASSUME NEW c, NEW recipes, OrderBuilt(c, recipes)
  PROVE  \A t : t \in TasksIn(c) <=>
           \E l \in 1..Len(placed[c].payload.lines) :
             \E u \in 1..placed[c].payload.lines[l].quantity :
               \E n \in StepsOf(recipes[placed[c].payload.lines[l].item]) :
                 t = NewTask(l, u, n, recipes[placed[c].payload.lines[l].item])
<1> DEFINE lines == placed[c].payload.lines
<1>1. TasksIn(c) = OrderTasks(lines, recipes)
  BY DEF OrderBuilt, BuiltFor, TasksIn
<1> HIDE DEF lines
<1>2. \A t : t \in OrderTasks(lines, recipes) <=>
        \E l \in 1..Len(lines) : \E u \in 1..lines[l].quantity :
          \E n \in StepsOf(recipes[lines[l].item]) : t = NewTask(l, u, n, recipes[lines[l].item])
  <2>1. \A t, l, u, r : t \in UnitTasks(l, u, r) <=> \E n \in StepsOf(r) : t = NewTask(l, u, n, r)
    BY DEF UnitTasks
  <2>2. \A t, l, q, r : t \in UnitsTasks(l, q, r) <=> \E u \in 1..q : t \in UnitTasks(l, u, r)
    BY DEF UnitsTasks
  <2>3. \A t : t \in OrderTasks(lines, recipes) <=>
          \E l \in 1..Len(lines) : t \in UnitsTasks(l, lines[l].quantity, recipes[lines[l].item])
    BY DEF OrderTasks, LinesTasks
  <2>4. \A t, l : t \in UnitsTasks(l, lines[l].quantity, recipes[lines[l].item]) <=>
          \E u \in 1..lines[l].quantity :
            \E n \in StepsOf(recipes[lines[l].item]) : t = NewTask(l, u, n, recipes[lines[l].item])
    <3> TAKE t, l
    <3> DEFINE q == lines[l].quantity
               r == recipes[lines[l].item]
    <3> HIDE DEF q, r
    <3>1. t \in UnitsTasks(l, q, r) <=> \E u \in 1..q : \E n \in StepsOf(r) : t = NewTask(l, u, n, r)
      BY <2>1, <2>2
    <3>2. QED
      BY <3>1 DEF q, r
  <2>5. QED
    BY <2>3, <2>4
<1>3. QED
  BY <1>1, <1>2 DEF lines

\* The steps of a unit are those of the recipe of its item.
LEMMA UnitStepsAreTheRecipe ==
  ASSUME NEW c, NEW recipes, OrderBuilt(c, recipes), NEW l \in 1..Len(placed[c].payload.lines),
         NEW u \in 1..placed[c].payload.lines[l].quantity
  PROVE  UnitSteps(c, l, u) = StepsOf(recipes[placed[c].payload.lines[l].item])
<1> DEFINE S(m) == StepsOf(recipes[placed[c].payload.lines[m].item])
           New(m, v, n) == NewTask(m, v, n, recipes[placed[c].payload.lines[m].item])
<1>1. \A t : t \in TasksIn(c) <=>
        \E m \in 1..Len(placed[c].payload.lines) : \E v \in 1..placed[c].payload.lines[m].quantity :
          \E n \in S(m) : t = New(m, v, n)
  BY PlacedTasks
<1>2. \A m, v, n : New(m, v, n).line = m /\ New(m, v, n).unit = v /\ New(m, v, n).step = n
  BY DEF NewTask
<1> HIDE DEF S, New
<1>3. ASSUME NEW n PROVE n \in UnitSteps(c, l, u) <=> n \in S(l)
  <2>1. n \in UnitSteps(c, l, u) <=> \E t \in TasksIn(c) : t.line = l /\ t.unit = u /\ t.step = n
    BY DEF UnitSteps
  <2>2. QED
    BY <1>1, <1>2, <2>1
<1>4. QED
  BY <1>3 DEF S

\* TaskBuilder gives the committed orders the dependencies they should have: a
\* task waits for exactly the one that makes the preceding step of its unit.
THEOREM OrdersAreChains == SeedSpec => []DependenciesAreChains
<1>1. SInv => DependenciesAreChains
  <2> SUFFICES ASSUME SInv, NEW c \in Customers, placed[c] # NULL
               PROVE  placed[c].built.dependencies = Chains(TasksIn(c))
    BY DEF DependenciesAreChains
  <2>1. PICK recipes : OrderBuilt(c, recipes)
    BY PlacedIsBuilt
  <2>2. QED
    BY <2>1 DEF OrderBuilt, BuiltFor, TasksIn
<1>2. QED
  BY <1>1, SeedInvariance, PTL

\* A list without repetitions is as long as the set of what it lists.
LEMMA ListedOnce ==
  ASSUME NEW S, NEW s \in Seq(S), \A i, j \in 1..Len(s) : s[i] = s[j] => i = j
  PROVE  Len(s) = Cardinality(Range(s))
<1>1. Len(s) \in Nat /\ DOMAIN s = 1..Len(s) /\ s \in [1..Len(s) -> Range(s)]
  BY DEF Range
<1>2. s \in Bijection(1..Len(s), Range(s))
  BY <1>1 DEF Bijection, Injection, IsInjective, Surjection, Range
<1>3. QED
  BY <1>1, <1>2, FS_CountingElements DEF ExistsBijection

\* Every unit of an item is made by the same, and by some, steps; no unit is
\* missing and no task comes twice, although the recipe may have been extended
\* between two reads of the same POST /orders.
THEOREM SameDishSameTasks == SeedSpec => []SameDishSameSteps
<1>1. SInv => SameDishSameSteps
  <2> SUFFICES ASSUME SInv, NEW c \in Customers, placed[c] # NULL
               PROVE  LET lines == placed[c].payload.lines IN
                      /\ Len(placed[c].built.tasks) = Cardinality(TasksIn(c))
                      /\ \A l, m \in DOMAIN lines :
                           \A u \in 1..lines[l].quantity, v \in 1..lines[m].quantity :
                             lines[l].item = lines[m].item =>
                               /\ UnitSteps(c, l, u) = UnitSteps(c, m, v)
                               /\ UnitSteps(c, l, u) # {}
    BY DEF SameDishSameSteps
  <2> DEFINE lines == placed[c].payload.lines
  <2>1. PICK recipes : OrderBuilt(c, recipes)
    BY PlacedIsBuilt
  <2>2. lines \in Lines /\ recipes \in Recipes /\ RecipesRead(lines, Len(lines), recipes)
    BY <2>1 DEF OrderBuilt
  <2>3. DOMAIN lines = 1..Len(lines)
    BY <2>2 DEF Lines
  <2>4. Len(placed[c].built.tasks) = Cardinality(TasksIn(c))
    <3>1. placed[c].built.tasks \in Seq(KitchenTask)
      BY <2>1 DEF OrderBuilt, BuiltFor, Built
    <3>2. \A i, j \in 1..Len(placed[c].built.tasks) :
            placed[c].built.tasks[i] = placed[c].built.tasks[j] => i = j
      BY <2>1 DEF OrderBuilt, BuiltFor
    <3>3. QED
      BY <3>1, <3>2, ListedOnce DEF TasksIn
  <2>5. ASSUME NEW l \in DOMAIN lines, NEW m \in DOMAIN lines,
               NEW u \in 1..lines[l].quantity, NEW v \in 1..lines[m].quantity,
               lines[l].item = lines[m].item
        PROVE  UnitSteps(c, l, u) = UnitSteps(c, m, v) /\ UnitSteps(c, l, u) # {}
    <3>1. UnitSteps(c, l, u) = StepsOf(recipes[lines[l].item])
      BY <2>1, <2>3, UnitStepsAreTheRecipe
    <3>2. UnitSteps(c, m, v) = StepsOf(recipes[lines[m].item])
      BY <2>1, <2>3, UnitStepsAreTheRecipe
    <3>3. recipes[lines[l].item] # NoSteps /\ recipes[lines[l].item] \in Recipe
      BY <2>2, <2>3, LineTypes DEF RecipesRead
    <3>4. \A r \in Recipe : r # NoSteps => StepsOf(r) # {}
      BY DEF Recipe, NoSteps, StepsOf
    <3>5. QED
      BY <2>5, <3>1, <3>2, <3>3, <3>4
  <2>6. QED
    BY <2>4, <2>5
<1>2. QED
  BY <1>1, SeedInvariance, PTL

\* An order for the demo item that is accepted can be cooked: it has every step of
\* the recipe and the kitchen a station for each, at whatever moment between the
\* requests of the seed create_order read the menu and the recipe.
THEOREM DemoOrdersCook == SeedSpec => []DemoOrderIsCookable
<1>1. SInv => DemoOrderIsCookable
  <2> SUFFICES ASSUME SInv, NEW c \in Customers, placed[c] # NULL, NEW t \in TasksIn(c),
                      placed[c].payload.lines[t.line].item = DemoItem
               PROVE  /\ UnitSteps(c, t.line, t.unit) = 1..Len(DemoSteps)
                      /\ <<placed[c].payload.kitchen, t.station_type>> \in stations
    BY DEF DemoOrderIsCookable
  <2> DEFINE lines == placed[c].payload.lines
  <2>1. PICK recipes : OrderBuilt(c, recipes)
    BY PlacedIsBuilt
  <2>2. PICK l \in 1..Len(lines) : \E u \in 1..lines[l].quantity :
          \E n \in StepsOf(recipes[lines[l].item]) : t = NewTask(l, u, n, recipes[lines[l].item])
    <3>1. \A s : s \in TasksIn(c) <=>
            \E l \in 1..Len(lines) : \E u \in 1..lines[l].quantity :
              \E n \in StepsOf(recipes[lines[l].item]) : s = NewTask(l, u, n, recipes[lines[l].item])
      BY <2>1, PlacedTasks
    <3> HIDE DEF lines
    <3>2. QED
      BY <3>1
  <2>3. PICK u \in 1..lines[l].quantity, n \in StepsOf(recipes[lines[l].item]) :
          t = NewTask(l, u, n, recipes[lines[l].item])
    BY <2>2
  <2>4. t.line = l /\ t.unit = u /\ t.station_type = recipes[lines[l].item][n]
    BY <2>3 DEF NewTask
  <2>5. lines[l].item = DemoItem
    BY <2>4
  <2>6. recipes[DemoItem] # NoSteps /\ WholeDemo(placed[c].payload.kitchen, recipes)
    BY <2>1, <2>5 DEF OrderBuilt, RecipesRead
  <2>7. /\ placed[c].payload.kitchen = DemoKitchen /\ recipes[DemoItem] = DemoRecipe
        /\ StationsThere(Len(DemoSteps))
    BY <2>6 DEF WholeDemo
  <2>8. StepsOf(DemoRecipe) = 1..Len(DemoSteps)
    BY Numbers DEF StepsOf, DemoRecipe
  <2>9. UnitSteps(c, l, u) = 1..Len(DemoSteps)
    BY <2>1, <2>5, <2>7, <2>8, UnitStepsAreTheRecipe
  <2>10. n \in 1..Len(DemoSteps) /\ t.station_type = DemoSteps[n]
    BY <2>4, <2>5, <2>7, <2>8, Numbers
  <2>11. QED
    BY <2>4, <2>7, <2>9, <2>10 DEF StationsThere
<1>2. QED
  BY <1>1, SeedInvariance, PTL
=============================================================================
