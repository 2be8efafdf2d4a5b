\* Two processes of one host, nobody dies and no lease expires.
CONSTANTS
  p1 = p1
  p2 = p2
  p3 = p3
  n1 = n1
  n2 = n2
  n3 = n3
  n4 = n4
  n5 = n5
  n6 = n6
  Procs = {p1, p2}
  Nonces = {n1, n2, n3, n4, n5, n6}
  NoNonce = NoNonce
  NoFile = NoFile
  Host <- OneHost
  LeaseTicks = 1
  MayCrash = {}
  MayAge = FALSE
  MayStall = FALSE
  MayTimeOut = FALSE
SPECIFICATION Spec
INVARIANT OneActiveCall
