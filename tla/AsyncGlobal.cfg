SPECIFICATION Spec
CONSTANTS
  N = 5
  Dynamic = {5}
  Subs = {d1, d2}
  SubOwner <- SubsOf5
  Root = root
  Nodes = {"start", "left", "right"}
  Start = "start"
  Setups <- GlobalSetups
  d1 = d1
  d2 = d2
  root = root
INVARIANTS TypeOK QuitHasReason QuitNotMissed ResultsKept
PROPERTIES LatchSpec QuitDrains RecallReturns
