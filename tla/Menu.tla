-------------------------------- MODULE Menu --------------------------------
(***************************************************************************)
(* menu-service: menu items, their recipe steps and the availability of an *)
(* item in a kitchen, at the grain of database transactions.               *)
(*                                                                         *)
(* No endpoint deletes or renames anything and no two items share a name,  *)
(* so an item is identified with its name.  A request that reads before it *)
(* writes is one step wherever what it reads can never change back; only   *)
(* the upsert of an availability, which looks for the row and then inserts *)
(* or updates it, is two.                                                  *)
(***************************************************************************)
EXTENDS Naturals

CONSTANTS
  Items,         \* names of menu items, as the unique index compares them
  Kitchens,      \* kitchen ids
  StationTypes,  \* recipe_steps.station_type
  StepOrders,    \* recipe_steps.step_order
  MaxStep,       \* the largest of them
  Clients,       \* clients with an upsert in progress
  NULL           \* no row

ASSUME StepOrdersType == MaxStep \in Nat /\ StepOrders \subseteq 1..MaxStep
ASSUME NullIsNoValue == NULL \notin StationTypes /\ NULL \notin BOOLEAN

VARIABLES
  item,          \* menu_items.status, "absent" if there is no row
  recipe,        \* recipe_steps: the station type of each step of an item
  availability,  \* kitchen_menu_availability.is_available
  upsert         \* sessions of the upserts in progress

menuVars == <<item, recipe, availability, upsert>>

-----------------------------------------------------------------------------
(* Rows and sessions *)

MenuItemStatus == {"active", "disabled"}

\* The steps of one item, at most one for each step_order.
Recipe == [StepOrders -> StationTypes \union {NULL}]
NoSteps == [n \in StepOrders |-> NULL]

\* The row the session found, and what it is to become.
Upsert == [kitchen : Kitchens, item : Items, is_available : BOOLEAN,
           found : BOOLEAN \union {NULL}]

ASSUME NullIsNoUpsert == NULL \notin Upsert

-----------------------------------------------------------------------------
(* MenuService *)

CreateMenuItem(i, st) ==
  /\ item[i] = "absent"    \* otherwise 409 menu_item_already_exists
  /\ item' = [item EXCEPT ![i] = st]
  /\ UNCHANGED <<recipe, availability, upsert>>

\* Faulty: the item is not looked up.
MayCreateOrphan(i, n) == recipe[i][n] = NULL

\* Whether POST /menu-items/{id}/recipe-steps is answered 201.
MayCreateStep(i, n) == item[i] # "absent" /\ recipe[i][n] = NULL

CreateRecipeStep(i, n, type) ==
  /\ MayCreateStep(i, n)   \* otherwise 404 or 409 recipe_step_order_already_exists
  /\ recipe' = [recipe EXCEPT ![i] = [@ EXCEPT ![n] = type]]
  /\ UNCHANGED <<item, availability, upsert>>

\* upsert_availability as far as the lookup of the row; 404 without the item.
UpsertLookup(c, k, i, is_available) ==
  /\ upsert[c] = NULL
  /\ item[i] # "absent"
  /\ upsert' = [upsert EXCEPT ![c] = [kitchen |-> k, item |-> i,
                                      is_available |-> is_available,
                                      found |-> availability[k][i]]]
  /\ UNCHANGED <<item, recipe, availability>>

\* The session found no row and inserts one, but another has committed it since:
\* the unique key refuses the insert, and nothing catches the IntegrityError.
UpsertCollides(c) ==
  /\ upsert[c].found = NULL
  /\ availability[upsert[c].kitchen][upsert[c].item] # NULL

\* Insert or update and commit.  The ORM writes is_available only if it differs
\* from what the session found.
UpsertWrite(c) ==
  /\ upsert[c] # NULL
  /\ LET u == upsert[c] IN
     availability' =
       IF UpsertCollides(c) \/ u.found = u.is_available THEN availability
       ELSE [availability EXCEPT ![u.kitchen] = [@ EXCEPT ![u.item] = u.is_available]]
  /\ upsert' = [upsert EXCEPT ![c] = NULL]
  /\ UNCHANGED <<item, recipe>>

\* list_kitchen_menu: the active items of a kitchen that are available now.
KitchenMenu(k) == {i \in Items : item[i] = "active" /\ availability[k][i] = TRUE}

-----------------------------------------------------------------------------
MenuInit ==
  /\ item = [i \in Items |-> "absent"]
  /\ recipe = [i \in Items |-> NoSteps]
  /\ availability = [k \in Kitchens |-> [i \in Items |-> NULL]]
  /\ upsert = [c \in Clients |-> NULL]

\* Only what exists has steps or can be offered; sessions have their shape.
MenuTypeOK ==
  /\ item \in [Items -> MenuItemStatus \union {"absent"}]
  /\ recipe \in [Items -> Recipe]
  /\ availability \in [Kitchens -> [Items -> BOOLEAN \union {NULL}]]
  /\ upsert \in [Clients -> Upsert \union {NULL}]
  /\ \A i \in Items : item[i] = "absent" =>
       recipe[i] = NoSteps /\ \A k \in Kitchens : availability[k][i] = NULL
=============================================================================
