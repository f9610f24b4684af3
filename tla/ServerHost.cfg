SPECIFICATION Spec
CONSTANTS
  Requests = {r1, r2}
  Data = {d1, d2}
  NoData = nodata
  Kinds <- HostKinds
  Setups <- HostSetups
  r1 = r1
  r2 = r2
  d1 = d1
  d2 = d2
  nodata = nodata
INVARIANTS HostIsOwn
