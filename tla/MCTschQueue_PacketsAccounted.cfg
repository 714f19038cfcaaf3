CONSTANTS
  NoLink = NoLink
  Bcast = 0
  Nbrs = {1, 2}
  NbrOrder <- MCNbrOrder
  UcNbrs = {1}
  TxSfNbrs = {1}
  UnicastPeriod = 3
  BaseLinks <- MCBaseLinks
  TxSfLinkId <- MCTxSfLinkId
  TxSfHandle <- MCTxSfHandle
  TxSfOffset <- MCTxSfOffset
  SfSizes <- MCSfSizes
  AsnPeriod = 6
  QueueCap = 2
  PoolSize = 2
  DequeuedCap = 1
  MaxFrameRetries = 1
  MinBE = 1
  MaxBE = 1
  FlushNbrs = {1}
  MaxPackets = 3
  MaxSchedChanges = 2
SPECIFICATION Spec
INVARIANT
  PacketsAccounted
