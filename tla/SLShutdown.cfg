SPECIFICATION FairSpec
CONSTANTS
  s1 = s1
  s2 = s2
  Session = {s1, s2}
  Key = {k1, k2}
  Closer = {c1}
  Nil = Nil
  size = 5
  maxPeerID = 1
  Faults = {}
  Causes = {"Embedder"}
  Slow = {}
  dataCiphers <- supportedDataCiphers
  Offers <- Modern
  Answers <- AnswersPool
  OnSessionSet = TRUE
  OnClosedSet = TRUE
INVARIANTS
  OwnershipInv
  CallbackAfterTeardown
PROPERTIES
  CloseWaitsForCallbacks
  ServerCloseReturns
