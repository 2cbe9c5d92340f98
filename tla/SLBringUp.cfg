SPECIFICATION FairSpec
CONSTANTS
  s1 = s1
  s2 = s2
  Session = {s1, s2}
  Key = {k1, k2}
  Closer = {}
  Nil = Nil
  size = 4
  maxPeerID = 1
  Faults = {"negotiate", "auth", "wrapper", "reply"}
  Causes = {"ClientExitNotify", "IdleReap", "AuthFailed"}
  Slow = {s1, s2}
  dataCiphers <- supportedDataCiphers
  Offers <- Clients
  Answers <- AnswersCompete
  OnSessionSet = FALSE
  OnClosedSet = TRUE
INVARIANTS
  RoutingExact
  SessionReachable
  CiphersAgree
PROPERTIES
  LeasesImplemented
  HandshakeSettles
  TeardownIsFinal
