CONSTANTS
  ctl = ctl
  wa = wa
  wb = wb
  f1 = f1
  f2 = f2
  s1 = s1
  s2 = s2
  Replica <- RelayReplicas
  Fact <- TwoFacts
  Session <- BothSessions
  Client <- RelayClient
  Server <- RelayServer
  Prunable <- NoFact
  PageSize = 1
  MaxDrops = 1
SPECIFICATION FairSpec
PROPERTIES
  Converges
  ImplementsFactReplication
