SPECIFICATION Spec
CONSTANTS
  N = 3
  Dynamic = {3}
  Subs = {d1, d2}
  SubOwner <- SubsOf3
  Root = root
  Nodes = {"start"}
  Start = "start"
  Setups <- LateSetups
  d1 = d1
  d2 = d2
  root = root
INVARIANTS FramesOutliveCalls
