\* The seed killed and rerun, two administrators, one customer.
CONSTANTS
  burger = burger
  soup = soup
  k1 = k1
  Items = {burger, soup}
  Kitchens = {k1}
  StationTypes = {"grill", "packaging"}
  StepOrders = {1, 2}
  MaxStep = 2
  Clients = {seeder, a1, a2}
  Seeder = seeder
  Customers = {c1}
  Payloads <- MCPayloads
  DemoKitchen = k1
  DemoItem = burger
  DemoSteps <- MCDemoSteps
  MaxRuns = 2
  NULL = NULL
SPECIFICATION SeedSpec
SYMMETRY Symmetry
INVARIANTS SeedTypeOK SeedIsRepeatable DemoOrderIsCookable DependenciesAreChains SameDishSameSteps
CHECK_DEADLOCK FALSE
