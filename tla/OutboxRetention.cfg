SPECIFICATION Spec
CONSTANTS
  i1 = i1
  i2 = i2
  t1 = t1
  t2 = t2
  Channels = {"ntfy"}
  NoEndpoint = {}
  Targets = {t1}
  Items = {i1}
  Owner <- OneOnly
  BatchLimit = 2
  MaxBatches = 1
  SentKeep = 0
  FailedKeep = 1
  Horizon = 1
  MaxDay = 4
  MaxId = 2
  MaxEpoch = 1
  MaxMishaps = 0
INVARIANTS
  LedgerMatchesRow
PROPERTIES
  FreshMatchNotified
  NoRepeatWithinHorizon
