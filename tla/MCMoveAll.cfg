SPECIFICATION FairSpec
CONSTANTS
  N = 3
  d1 = d1
  d2 = d2
  old = old
  n1 = n1
  n2 = n2
  n3 = n3
  Dests = {d1, d2}
  Dest <- MCDest
  Contents = {old, n1, n2, n3}
  New <- MCNew
  Links = {link}
  Absent = Absent
  Temps = {t1, t2}
INVARIANTS IInv RestoredUnlessLogged OriginalKept AtMostOneHole
PROPERTIES CommitsOnce CommitReturns ImplementsAtomicInstall
