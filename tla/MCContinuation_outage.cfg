\* One worker, one outage, a ticket that its users may progress.
CONSTANTS
  w1 = w1
  w2 = w2
  c1 = c1
  c2 = c2
  i1 = i1
  i2 = i2
  Workers = {w1}
  NoWorker = NoWorker
  Contracts = {c1}
  Ids = {i1}
  NoId = NoId
  NoRecord = NoRecord
  NoTicket = NoTicket
  NoJob = NoJob
  MaxFaults = 1
  MayTakeOver = FALSE
  MayProgress = TRUE
  MayMeddle = FALSE
SPECIFICATION FairSpec
PROPERTIES VerifiedRecovers
