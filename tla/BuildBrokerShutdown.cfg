SPECIFICATION Spec
CHECK_DEADLOCK FALSE
CONSTANTS
  b1 = b1  n1 = n1  n2 = n2  n3 = n3  d1 = d1  d2 = d2  c1 = c1  c2 = c2
  Builds = {b1}
  Digests = {d1, d2}
  Requests <- OneRequest
  Nonces = {n1, n2}
  NoNonce = NoNonce
  Calls = {c1}
  MaxRuns = 2
  MaxAttempts = 2
  MaxFaults = 1
PROPERTIES ShutdownPreservesRun
