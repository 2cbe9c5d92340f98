SPECIFICATION Spec
CONSTANTS
  s1 = s1
  s2 = s2
  Session = {s1}
  Key = {k1}
  Closer = {c1}
  Nil = Nil
  size = 4
  maxPeerID = 1
  Faults = {}
  Causes = {}
  Slow = {}
  dataCiphers <- supportedDataCiphers
  Offers <- Modern
  Answers <- AnswersPool
  OnSessionSet = TRUE
  OnClosedSet = TRUE
INVARIANT CloseReachesEverySession
