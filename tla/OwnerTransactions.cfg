SPECIFICATION FairSpec
CONSTANTS
  P = P
  Q = Q
  T = T
  S = S
  None = None
  Proc <- Both
  Client <- Clients
  Single <- Statements1
  LockFile = {1, 2}
  SocketFile = {1, 2}
  MaxExits = 1
INVARIANTS
  TypeOK
  WritersTakeTurns
PROPERTY ImplementsTransactions
