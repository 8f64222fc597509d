SPECIFICATION Spec
CONSTANTS
  b1 = b1  b2 = b2  n1 = n1  n2 = n2  d1 = d1  d2 = d2  d3 = d3
  o1 = o1  o2 = o2  o3 = o3  s1 = s1  s2 = s2
  Builds = {b1}
  Nonces = {n1, n2}
  Digests = {d1, d2, d3}
  Assignments <- OneAssignment
  Owners = {o1, o2, o3}
  NoOwner = NoOwner
  NoAssignment = NoAssignment
  Servers = {s1, s2}
  MaxAttempts = 2
  DefaultMaxAttempts = 3
  MaxReservations = 3
  MaxRecords = 3
  MaxFaults = 0
SYMMETRY SharedSymmetry
CONSTRAINT SharedBound
INVARIANTS AttemptExclusive FreshAttempt
PROPERTIES KeepsOutcome
