\* Two models; a chain of five blocks that grows by four, on two blocks with
\* events; batches of three, longer than the window of two; one fork of any
\* depth; one receipt with two attempts; one failed or lagging read, crash or
\* reset of the indexer, two crashes, stalls or failed calls of the anchoring.
CONSTANTS
  m1 = m1  m2 = m2  w1 = w1  w2 = w2  i1 = i1
  IndexedModels = {m1, m2}
  Confirmations = 0
  Window = 2
  BatchSize = 3
  Existing = 5
  MaxBlocks = 9
  MaxLogged = 2
  Workers = {w1, w2}
  Instances = {i1}
  Attempts = 2
  MaxForks = 1
  MaxEvents = 2
  MaxIndexerEvents = 1
SPECIFICATION WorkerSpec
INVARIANTS  FailedOnlyIfReverted
PROPERTIES IndexConverges ReceiptsSettle
CHECK_DEADLOCK FALSE
