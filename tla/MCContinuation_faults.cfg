\* Crashes, outages and a meddled-with tracker.  In the
\* contested behaviours the lease may be taken from a running worker at any time.
CONSTANTS
  w1 = w1
  w2 = w2
  c1 = c1
  c2 = c2
  i1 = i1
  i2 = i2
  Workers = {w1, w2}
  NoWorker = NoWorker
  Contracts = {c1, c2}
  Ids = {i1, i2}
  NoId = NoId
  NoRecord = NoRecord
  NoTicket = NoTicket
  NoJob = NoJob
  MaxFaults = 2
  MayTakeOver = TRUE
  MayProgress = TRUE
  MayMeddle = TRUE
SPECIFICATION Spec
SYMMETRY FullSymmetry
INVARIANTS VerifiedIsWhatWasAsked MetadataIsThere
PROPERTIES RemoteNeverForgotten ContractStable
