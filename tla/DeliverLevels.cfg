SPECIFICATION Spec
CONSTANTS
  Services = {"c", "d", "x", "y", "z"}
  Setups <- PassSetups
INVARIANTS TypeOK  ResultsKept
PROPERTIES RequestEnds
