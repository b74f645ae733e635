SPECIFICATION FairSpec
CONSTANTS
  Junk = Junk
  Nil = Nil
  Bare = Bare
  b10 = b10
  b11 = b11
  b11x = b11x
  b20 = b20
  p = p
  q = q
  Updaters = {p, q}
  Releases <- MCThreeReleases
  Archives <- MCWithUnsafe
  Approved = {b11, b20}
  VersionOf <- MCVersionOf
  Original = b10
  Configs <- MCConfigs
  Fleets <- MCFleets
  Digested <- MCReleases
  Size = 2
  Runs = 2
  Edits = 1
  Inodes = {i1, i2, i3, i4, i5}
INVARIANTS TypeOK BinaryVetted OneResponse
PROPERTIES InstallsWhatWasListed UpdateReturns ImplementsSafeUpdate
CHECK_DEADLOCK FALSE
