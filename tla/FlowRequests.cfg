SPECIFICATION Spec
CONSTANTS
  Services = {"a", "b", "c", "d", "x"}
  Known = {"a", "b", "c", "d"}
  Keys = {"k", "l"}
  MaxRuns = 4
  Setups <- PassSetups
INVARIANTS TypeOK ResponseIsWhole RecallIsTheNodes 
PROPERTIES BackendKept CalledOnce RequestEnds
