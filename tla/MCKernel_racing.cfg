\* Two commands that overlap anyhow.
CONSTANTS
  p1 = p1
  p2 = p2
  g1 = g1
  g2 = g2
  t1 = t1
  t2 = t2
  c1 = c1
  c2 = c2
  NoGoal = NoGoal
  NoCommit = NoCommit
  Dirty = Dirty
  NoJob = NoJob
  Procs = {p1, p2}
  Goals = {g1}
  Tickets = {t1}
  Commits = {c1, c2}
  GoalOf <- OneGoal
  CodeChanged = {t1}
  BlockedBy <- Chain
  High = {g1}
  Commands <- Racing
  Serial = FALSE
  MaxEvidence = 3
SPECIFICATION Spec
INVARIANTS DoneHasEvidence ActiveIsOpen 
SYMMETRY Symmetry
