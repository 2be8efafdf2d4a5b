\* Finitely many outages and crashes; nobody touches the ticket.
CONSTANTS
  w1 = w1
  w2 = w2
  c1 = c1
  c2 = c2
  i1 = i1
  i2 = i2
  Workers = {w1, w2}
  NoWorker = NoWorker
  Contracts = {c1}
  Ids = {i1}
  NoId = NoId
  NoRecord = NoRecord
  NoTicket = NoTicket
  NoJob = NoJob
  MaxFaults = 2
  MayTakeOver = FALSE
  MayProgress = FALSE
  MayMeddle = FALSE
SPECIFICATION FairSpec
PROPERTIES Converges
