SPECIFICATION StoreSpec
CONSTANTS
  Users = {"a", "b"}
  ShopPacks = {"p1"}
  MaxPurchases = 2
  MaxSignOuts = 1
  Workloads = {{"ios", "switch"}}
  MaxInFlight = 2
  MaxLost = 1
INVARIANT ObservedAsBuyer
CHECK_DEADLOCK FALSE
