CONSTANTS
  ctl = ctl
  wa = wa
  wb = wb
  f1 = f1
  f2 = f2
  s1 = s1
  s2 = s2
  Replica <- TwinReplicas
  Fact <- TwoFacts
  Session <- BothSessions
  Client <- TwinClient
  Server <- TwinServer
  Prunable <- OneFact
  PageSize = 1
  MaxDrops = 1
SPECIFICATION TakeoverSpec
INVARIANTS
  TypeOK
  ReceiptCovers
  AcknowledgedIsReceived
  DeliveredOnce
  NoSpuriousRefusal
PROPERTIES
  EventuallyAcknowledged
  TombstoneIsPermanent
  EmptyPageProvesDrained
