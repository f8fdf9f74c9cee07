SPECIFICATION FairSpec
CONSTANTS
  i1 = i1
  i2 = i2
  t1 = t1
  t2 = t2
  Channels = {"ntfy", "discord"}
  NoEndpoint = {}
  Targets = {t1}
  Items = {i1}
  Owner <- OneOnly
  BatchLimit = 1
  MaxBatches = 1
  SentKeep = 1
  FailedKeep = 1
  Horizon = 1
  MaxDay = 0
  MaxId = 1
  MaxEpoch = 1
  MaxMishaps = 1
INVARIANTS
  LedgerMatchesRow
  QueuedHasRow
  SendOnce
  NoLostWakeup
PROPERTIES
  RowsEnd
