\* One command at a time; the agents keep working on the checkout.
CONSTANTS
  p1 = p1
  p2 = p2
  g1 = g1
  g2 = g2
  t1 = t1
  t2 = t2
  c1 = c1
  c2 = c2
  NoGoal = NoGoal
  NoCommit = NoCommit
  Dirty = Dirty
  NoJob = NoJob
  Procs = {p1}
  Goals = {g1}
  Tickets = {t1}
  Commits = {c1, c2}
  GoalOf <- OneGoal
  CodeChanged = {t1}
  BlockedBy <- Chain
  High = {}
  Commands <- GoalCommandsAndTickets
  Serial = TRUE
  MaxEvidence = 4
SPECIFICATION Spec
INVARIANT PassRanOnItsDigest
