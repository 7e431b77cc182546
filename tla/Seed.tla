-------------------------------- MODULE Seed --------------------------------
(***************************************************************************)
(* The demo seed (scripts/demo/seed_demo_data.py) at work on               *)
(* kitchen-service and menu-service while customers order and the menu is  *)
(* administered: kitchens and stations are created, then the demo item,    *)
(* its recipe steps and, last, its availability.                           *)
(*                                                                         *)
(* The script may be killed, or die of an unanswered request, anywhere and *)
(* be run again; a new run starts when the requests of the one before have *)
(* ended.  Administrators do what they like with other items, but of the   *)
(* demo item only switch an availability that is already there.            *)
(***************************************************************************)
EXTENDS Ordering

CONSTANTS
  Seeder,       \* the script as a client of menu-service
  DemoKitchen,
  DemoItem,
  DemoSteps,    \* the station types of the demo recipe, in step order
  MaxRuns       \* how often the script is started

ASSUME SeederIsClient == Seeder \in Clients
ASSUME DemoType ==
  /\ DemoKitchen \in Kitchens /\ DemoItem \in Items
  /\ DemoSteps \in Seq(StationTypes) /\ DemoSteps # <<>> /\ 1..Len(DemoSteps) \subseteq StepOrders
ASSUME MaxRunsType == MaxRuns \in Nat \ {0}

VARIABLES
  stations,     \* kitchens and station types for which there is a station
  seed          \* the script: where it is, in which step, in which run

seedVars == <<menuVars, kitchens, orderVars, stations, seed>>

Admins == Clients \ {Seeder}

-----------------------------------------------------------------------------
(* KitchenService *)

\* create_kitchen: a known id or name is a 409 and changes nothing.
CreateKitchen(k) == kitchens' = kitchens \union {k}

\* create_station: 404 without the kitchen, 409 for a name it already has.
CreateStation(k, type) ==
  stations' = IF k \in kitchens THEN stations \union {<<k, type>>} ELSE stations

-----------------------------------------------------------------------------
(* The script *)

SeedPc == {"kitchen", "station", "find_item", "post_item", "find_step", "post_step",
           "availability", "upserting", "done", "failed"}
SeedAt(pc) == seed.pc = pc
SeedTo(pc, n) == seed' = [seed EXCEPT !.pc = pc, !.n = n]

\* ensure_kitchen takes a 409 for an answer and looks the kitchen up by its name.
EnsureKitchen ==
  /\ SeedAt("kitchen")
  /\ CreateKitchen(DemoKitchen)
  /\ SeedTo("station", 1)
  /\ UNCHANGED <<menuVars, orderVars, stations>>

EnsureStation ==
  /\ SeedAt("station")
  /\ CreateStation(DemoKitchen, DemoSteps[seed.n])
  /\ IF seed.n < Len(DemoSteps) THEN SeedTo("station", seed.n + 1) ELSE SeedTo("find_item", 1)
  /\ UNCHANGED <<menuVars, kitchens, orderVars>>

\* ensure_menu_item: list, then create what was not found; a 409 ends the script.
FindItem ==
  /\ SeedAt("find_item")
  /\ SeedTo(IF item[DemoItem] = "absent" THEN "post_item" ELSE "find_step", 1)
  /\ UNCHANGED <<menuVars, kitchens, orderVars, stations>>

PostItem ==
  /\ SeedAt("post_item")
  /\ \/ CreateMenuItem(DemoItem, "active") /\ SeedTo("find_step", 1)
     \/ item[DemoItem] # "absent" /\ SeedTo("failed", 1) /\ UNCHANGED menuVars
  /\ UNCHANGED <<kitchens, orderVars, stations>>

\* The next step of the recipe or, after the last, the availability.
AfterStep(n) == IF n < Len(DemoSteps) THEN SeedTo("find_step", n + 1) ELSE SeedTo("availability", n)

\* Faulty: the recipe is not read, the step is posted in any case.
PostAnyStep ==
  /\ SeedAt("find_step")
  /\ SeedTo("post_step", seed.n)
  /\ UNCHANGED <<menuVars, kitchens, orderVars, stations>>

\* ensure_recipe_step: read the recipe and post the step that is missing.
FindStep ==
  /\ SeedAt("find_step")
  /\ IF recipe[DemoItem][seed.n] # NULL THEN AfterStep(seed.n) ELSE SeedTo("post_step", seed.n)
  /\ UNCHANGED <<menuVars, kitchens, orderVars, stations>>

PostStep ==
  /\ SeedAt("post_step")
  /\ \/ CreateRecipeStep(DemoItem, seed.n, DemoSteps[seed.n]) /\ AfterStep(seed.n)
     \/ ~MayCreateStep(DemoItem, seed.n) /\ SeedTo("failed", seed.n) /\ UNCHANGED menuVars
  /\ UNCHANGED <<kitchens, orderVars, stations>>

PostAvailability ==
  /\ SeedAt("availability")
  /\ UpsertLookup(Seeder, DemoKitchen, DemoItem, TRUE)
  /\ SeedTo("upserting", seed.n)
  /\ UNCHANGED <<kitchens, orderVars, stations>>

\* Any answer but 200 or 201 raises a RuntimeError; otherwise the script writes
\* its state file and is done.
AvailabilityAnswered ==
  /\ SeedAt("upserting")
  /\ UpsertWrite(Seeder)
  /\ SeedTo(IF UpsertCollides(Seeder) THEN "failed" ELSE "done", seed.n)
  /\ UNCHANGED <<kitchens, orderVars, stations>>

\* The script is killed or has ended and is started again.
RunAgain ==
  /\ seed.runs < MaxRuns
  /\ seed' = [pc |-> "kitchen", n |-> 1, runs |-> seed.runs + 1]
  /\ upsert' = [upsert EXCEPT ![Seeder] = NULL]
  /\ UNCHANGED <<item, recipe, availability, kitchens, orderVars, stations>>

SeedStep ==
  \/ EnsureKitchen \/ EnsureStation \/ FindItem \/ PostItem \/ FindStep \/ PostStep
  \/ PostAvailability \/ AvailabilityAnswered \/ RunAgain

-----------------------------------------------------------------------------
(* Administrators *)

AdminStep(a) ==
  \/ \E i \in Items \ {DemoItem} :
       \/ \E st \in MenuItemStatus : CreateMenuItem(i, st)
       \/ \E n \in StepOrders, type \in StationTypes : CreateRecipeStep(i, n, type)
  \/ \E i \in Items, k \in Kitchens, available \in BOOLEAN :
       /\ i = DemoItem => availability[k][i] # NULL
       /\ UpsertLookup(a, k, i, available)
  \/ UpsertWrite(a)

-----------------------------------------------------------------------------
SeedInit ==
  /\ MenuInit /\ OrderInit
  /\ kitchens = {} /\ stations = {}
  /\ seed = [pc |-> "kitchen", n |-> 1, runs |-> 1]

SeedNext ==
  \/ SeedStep
  \/ \E a \in Admins : AdminStep(a) /\ UNCHANGED <<kitchens, orderVars, stations, seed>>
  \/ \E c \in Customers : Ordering(c) /\ UNCHANGED <<stations, seed>>

SeedSpec == SeedInit /\ [][SeedNext]_seedVars

-----------------------------------------------------------------------------
(* Properties *)

\* The rows of menu-service and the script's state have their shape.
SeedTypeOK ==
  /\ MenuTypeOK
  /\ kitchens \subseteq Kitchens /\ stations \subseteq kitchens \X StationTypes
  /\ seed \in [pc : SeedPc, n : StepOrders, runs : 1..MaxRuns]

\* The script can be killed after any of its requests and run again: none of its
\* check-then-create steps ever meets a conflict it does not expect, whatever is
\* done meanwhile to other items and to the availability of the demo item.
SeedIsRepeatable == seed.pc # "failed"

\* An order for the demo item is accepted only when it can be cooked: it has every
\* step of the recipe, although create_order reads menu and recipe at different
\* times and the seed is at work, and for each task the kitchen has a station.
DemoOrderIsCookable ==
  \A c \in Customers : placed[c] # NULL =>
    LET p == placed[c].payload IN
    \A t \in TasksIn(c) : p.lines[t.line].item = DemoItem =>
      /\ UnitSteps(c, t.line, t.unit) = 1..Len(DemoSteps)
      /\ <<p.kitchen, t.station_type>> \in stations
=============================================================================
