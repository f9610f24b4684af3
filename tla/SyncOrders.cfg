SPECIFICATION Spec
CONSTANTS
  N = 3
  Known = {1, 2, 3}
  Dynamic = {2}
  Bare = {}
  Subs = {d1, d2}
  SubOwner <- SubsOf2
  Priorities <- TwoPriorities
  Orders = {"ALL", "PRIORITY", "HIERACHY", "NONE"}
  d1 = d1
  d2 = d2
INVARIANTS TypeOK CancelJustified SweptAreStopped JoinedBeforeParse RecalledAnswered
PROPERTIES OutcomesFrozen RecallReturns
