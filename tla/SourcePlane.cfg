SPECIFICATION FairSpec
CHECK_DEADLOCK FALSE
CONSTANTS
  straight = straight  reversed = reversed  partial = partial  rebuilt = rebuilt
  u1 = u1  f1 = f1  c1 = c1  c2 = c2  g1 = g1  g2 = g2
  Root = Root  UnsafePath = UnsafePath  None = None
  Policy <- MCPolicy
  Uploads = {u1}
  Fetches = {f1}
  Granted <- MCGranted
  Trees <- MCTrees
  Metadata <- MCMetadata
  Archives = {straight, reversed, partial, rebuilt}
  Content <- MCContent
  Parts = 2
  Earlier = {straight, reversed}
  Together <- MCTogether
  Calls = {c1, c2}
  Gateways = {g1, g2}
  MaxPartBytes = 2
  TokenMinutes = {5, 60, 121}
  MaxConcurrent = 1
  MaxFaults = 1
INVARIANTS AnswersAgree ReceiptIsBacked
PROPERTIES PartsKeptForRetry RequestsEnd
