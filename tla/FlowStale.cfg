SPECIFICATION Spec
CONSTANTS
  Services = {"a", "b", "c", "d", "x"}
  Known = {"a", "b", "c", "d"}
  Keys = {"k", "l"}
  MaxRuns = 4
  Setups <- StaleSetups
INVARIANTS RecallIsTheNodes
