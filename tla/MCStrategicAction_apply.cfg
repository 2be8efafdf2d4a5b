\* Two processes; pauses, ticket changes, follow-ups and rollbacks, with two faults.
CONSTANTS
  p1 = p1
  p2 = p2
  a1 = a1
  a2 = a2
  a3 = a3
  Procs = {p1, p2}
  Actions = {a1, a2, a3}
  NoAction = NoAction
  NoTarget = NoTarget
  NoLoopIntent = NoLoopIntent
  NoCall = NoCall
  NoIntent = NoIntent
  NoReceipt = NoReceipt
  NoJob = NoJob
  Selectors <- ThreeCases
  MaxFaults = 2
SPECIFICATION Spec
SYMMETRY ProcSymmetry
INVARIANTS ReceiptsRecorded AttemptIsDurable RollbackUndoes AnsweredIsInert StateIsAnnounced
PROPERTIES ReceiptKept HistoryOfEffects
