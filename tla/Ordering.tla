------------------------------ MODULE Ordering ------------------------------
(***************************************************************************)
(* fulfillment-service's POST /orders up to its first commit, against      *)
(* kitchen-service and menu-service.                                       *)
(*                                                                         *)
(* create_order asks for the kitchen, for the kitchen's menu and then, one *)
(* order line after the other, for the recipes, each with a call of its    *)
(* own: the menu may change between any two of them.  TaskBuilder turns    *)
(* what was read into kitchen tasks and dependencies.                      *)
(***************************************************************************)
EXTENDS Menu, Sequences, FiniteSets, Functions

CONSTANTS
  Customers,  \* clients of POST /orders, each with one request
  Payloads    \* what they may order: a kitchen and a sequence of lines

ASSUME PayloadsType ==
  Payloads \subseteq [kitchen : Kitchens,
                      lines : Seq([item : Items, quantity : Nat \ {0}])]

VARIABLES
  kitchens,   \* the kitchens that exist; every one of them is active
  placing,    \* sessions of create_order
  placed      \* the committed order of each customer, with its tasks

orderVars == <<placing, placed>>

-----------------------------------------------------------------------------
(* TaskBuilder *)

StepsOf(r) == {n \in StepOrders : r[n] # NULL}

KitchenTask == [line : Nat, unit : Nat, step : StepOrders, station_type : StationTypes]
NewTask(line, unit, n, r) == [line |-> line, unit |-> unit, step |-> n, station_type |-> r[n]]

ASSUME NullIsNoTask == NULL \notin KitchenTask

NoTasks == [tasks |-> <<>>, dependencies |-> {}, previous |-> NULL]

\* One iteration of the innermost loop.
AddTask(built, t) ==
  [tasks        |-> Append(built.tasks, t),
   dependencies |-> IF built.previous = NULL THEN built.dependencies
                    ELSE built.dependencies \union {<<t, built.previous>>},
   previous     |-> t]

\* The loop over sorted(recipe.steps): upwards through the step orders, passing
\* over those the recipe does not have.
AddSteps(start, line, unit, r) ==
  LET upTo[n \in 0..MaxStep] ==
        IF n = 0 THEN start
        ELSE IF n \in StepsOf(r) THEN AddTask(upTo[n - 1], NewTask(line, unit, n, r))
        ELSE upTo[n - 1]
  IN upTo[MaxStep]

\* Faulty: previous_task is not reset for the next unit.
BuildUnitChained(built, line, unit, r) == AddSteps(built, line, unit, r)

\* The tasks of one unit of one line: a chain through the sorted steps.
BuildUnit(built, line, unit, r) == AddSteps([built EXCEPT !.previous = NULL], line, unit, r)

\* Faulty: the range of the units ends one too early.
BuildLineShort(built, line, quantity, r) ==
  LET upTo[u \in 0..quantity] == IF u = 0 THEN built ELSE BuildUnit(upTo[u - 1], line, u, r)
  IN upTo[quantity - 1]

\* The loop over the units of one line.
BuildLine(built, line, quantity, r) ==
  LET upTo[u \in 0..quantity] == IF u = 0 THEN built ELSE BuildUnit(upTo[u - 1], line, u, r)
  IN upTo[quantity]

\* build: recipes are looked up by menu item, not by line.
Build(lines, recipes) ==
  LET upTo[l \in 0..Len(lines)] ==
        IF l = 0 THEN NoTasks
        ELSE BuildLine(upTo[l - 1], l, lines[l].quantity, recipes[lines[l].item])
  IN upTo[Len(lines)]

-----------------------------------------------------------------------------
(* create_order *)

Ended == [pc |-> "ended"]

\* Every error answer (404, 409, 503) leaves nothing behind.
Refuse(c) == placing' = [placing EXCEPT ![c] = Ended] /\ UNCHANGED placed

\* KitchenServiceClient.get_kitchen; 404 for a kitchen that does not exist.
GetKitchen(c, p) ==
  /\ placing[c].pc = "new"
  /\ \/ /\ p.kitchen \in kitchens
        /\ placing' = [placing EXCEPT ![c] = [pc |-> "menu", payload |-> p]]
        /\ UNCHANGED placed
     \/ p.kitchen \notin kitchens /\ Refuse(c)
  /\ UNCHANGED <<menuVars, kitchens>>

\* MenuServiceClient.get_kitchen_menu
GetKitchenMenu(c) ==
  /\ placing[c].pc = "menu"
  /\ LET p == placing[c].payload IN
     placing' = [placing EXCEPT ![c] =
                   [pc |-> "recipes", payload |-> p, available |-> KitchenMenu(p.kitchen),
                    next |-> 1, recipes |-> [i \in Items |-> NoSteps]]]
  /\ UNCHANGED <<menuVars, kitchens, placed>>

\* Faulty: the line is not checked against the menu.
OfferedAnyway(c, i) == TRUE

\* The line's item was on the menu that was read.
Offered(c, i) == i \in placing[c].available

\* MenuServiceClient.get_recipe: an item without steps is a 409.
HasRecipe(i) == recipe[i] # NoSteps

\* The loop over the lines: the item must have been offered and its recipe, as it
\* is now, must have steps.  A recipe read again for a later line of the same item
\* replaces the earlier one.
GetRecipe(c) ==
  /\ placing[c].pc = "recipes"
  /\ LET p == placing[c]
         i == p.payload.lines[p.next].item IN
     /\ p.next <= Len(p.payload.lines)
     /\ \/ /\ Offered(c, i) /\ HasRecipe(i)
           /\ placing' = [placing EXCEPT ![c] =
                            [pc |-> "recipes", payload |-> p.payload, available |-> p.available,
                             next |-> p.next + 1, recipes |-> [p.recipes EXCEPT ![i] = recipe[i]]]]
           /\ UNCHANGED placed
        \/ ~(Offered(c, i) /\ HasRecipe(i)) /\ Refuse(c)
  /\ UNCHANGED <<menuVars, kitchens>>

\* The order, its items, tasks and dependencies are inserted and committed.
CommitOrder(c) ==
  /\ placing[c].pc = "recipes"
  /\ LET p == placing[c] IN
     /\ p.next > Len(p.payload.lines)
     /\ placed' = [placed EXCEPT ![c] =
                     [payload |-> p.payload, built |-> Build(p.payload.lines, p.recipes)]]
  /\ placing' = [placing EXCEPT ![c] = Ended]
  /\ UNCHANGED <<menuVars, kitchens>>

\* A service does not answer (503), the database fails or the process dies.
OrderFails(c) ==
  /\ placing[c].pc \in {"menu", "recipes"}
  /\ Refuse(c)
  /\ UNCHANGED <<menuVars, kitchens>>

-----------------------------------------------------------------------------
OrderInit ==
  /\ placing = [c \in Customers |-> [pc |-> "new"]]
  /\ placed = [c \in Customers |-> NULL]

Ordering(c) ==
  \/ \E p \in Payloads : GetKitchen(c, p)
  \/ GetKitchenMenu(c) \/ GetRecipe(c) \/ CommitOrder(c) \/ OrderFails(c)

-----------------------------------------------------------------------------
(* Properties *)

TasksIn(c) == Range(placed[c].built.tasks)

\* The steps of one unit of one line.
UnitSteps(c, line, unit) ==
  {t.step : t \in {u \in TasksIn(c) : u.line = line /\ u.unit = unit}}

\* Pairs of tasks that make consecutive steps of one unit.
Chains(tasks) ==
  {d \in tasks \X tasks :
     /\ d[1].line = d[2].line /\ d[1].unit = d[2].unit
     /\ d[2].step < d[1].step
     /\ ~\E t \in tasks : /\ t.line = d[1].line /\ t.unit = d[1].unit
                          /\ d[2].step < t.step /\ t.step < d[1].step}

\* TaskBuilder against its meaning: a task waits for exactly the task that makes
\* the preceding step of the same unit, so the units of an order are cooked
\* independently, no dependency leaves the order, and there is no cycle.
DependenciesAreChains ==
  \A c \in Customers : placed[c] # NULL => placed[c].built.dependencies = Chains(TasksIn(c))

\* Every unit of an item is made by the same steps, on whatever line it was
\* ordered and however often the recipe was extended between the reads; no unit is
\* missing and no task comes twice.
SameDishSameSteps ==
  \A c \in Customers : placed[c] # NULL =>
    LET lines == placed[c].payload.lines IN
    /\ Len(placed[c].built.tasks) = Cardinality(TasksIn(c))
    /\ \A l, m \in DOMAIN lines :
         \A u \in 1..lines[l].quantity, v \in 1..lines[m].quantity :
           lines[l].item = lines[m].item =>
             /\ UnitSteps(c, l, u) = UnitSteps(c, m, v)
             /\ UnitSteps(c, l, u) # {}
=============================================================================
