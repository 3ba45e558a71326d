CONSTANTS
  Ids = {i1, i2, i3, i4}
  Messages = {m1}
  None = None
  Backend = "sqlite"
  Durable = TRUE
  StorageErrors = TRUE
  Limits = {1, 3}
  Ttls = {1, 2}
  ClockJumps = TRUE
  MaxTime = 3
SYMMETRY Symmetry
SPECIFICATION RepoSpec
INVARIANTS RepoTypeOK RejectedOnlyWhenFull BackendsAgree
PROPERTIES UndeliveredKept OldestEvictedFirst GrowthWithinLimit
