SPECIFICATION Spec
CONSTANTS
  N = 4
  Dynamic = {3}
  Subs = {d1, d2}
  SubOwner <- SubsOf3
  Root = root
  Nodes = {"start", "more"}
  Start = "start"
  Setups <- LocalSetups
  d1 = d1
  d2 = d2
  root = root
INVARIANTS CancelJustified DynamicHeard FramesOutliveCalls ResultsKept
