\* Two processes of one host, one of which may die anywhere.
CONSTANTS
  p1 = p1
  p2 = p2
  p3 = p3
  n1 = n1
  n2 = n2
  n3 = n3
  n4 = n4
  n5 = n5
  n6 = n6
  Procs = {p1, p2}
  Nonces = {n1, n2, n3, n4}
  NoNonce = NoNonce
  NoFile = NoFile
  Host <- OneHost
  LeaseTicks = 1
  MayCrash = {p1}
  MayAge = TRUE
  MayStall = FALSE
  MayTimeOut = FALSE
SPECIFICATION FairSpec
INVARIANT LiveHolderNotJudged
PROPERTIES Reclaimed
