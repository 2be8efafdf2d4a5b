\* Three processes, two of them on one host, that may stall past the lease anywhere; one may die.
CONSTANTS
  p1 = p1
  p2 = p2
  p3 = p3
  n1 = n1
  n2 = n2
  n3 = n3
  n4 = n4
  n5 = n5
  n6 = n6
  Procs = {p1, p2, p3}
  Nonces = {n1, n2, n3, n4, n5}
  NoNonce = NoNonce
  NoFile = NoFile
  Host <- PairAndOther
  LeaseTicks = 1
  MayCrash = {p1}
  MayAge = TRUE
  MayStall = TRUE
  MayTimeOut = TRUE
SPECIFICATION Spec
SYMMETRY NonceSymmetry
INVARIANTS HolderIntact
PROPERTIES LostForGood LeaseLostOnlyToTakeover ImplementsFence
