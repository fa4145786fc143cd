SPECIFICATION RttSpec
CONSTANTS
  s1 = s1
  s2 = s2
  s3 = s3
  h1 = h1
  h2 = h2
  Slaves = {s1, s2, s3}
  Hosts = {h1, h2}
  HostOf <- MCHostOf
  nr_slaves = 2
  FirstPort = 1
  Samples <- MCSamples
  UserIter = 2
  DefaultIter = 1
  LastSessions = 1
  UINT = 4
  MaxSessions = 2
  NrIter = 3
  Bulks <- MCBulks
  MaxClock = 4
  MaxTuples = 3
  SecTicks = 2
  Intervals = {0, 1, 2}
  Iterations = {0, 2}
  NtpUINT = 3
  MaxNtpTime = 7
  MaxRows = 4
  c1 = c1
  c2 = c2
  Channels = {c1, c2}
  Originals <- MCOriginals
  MaxItems = 4
  hook = hook
  Hooks = {hook}
  GCs = {"young", "old"}
  MaxSamples = 2
  nr_threads = 3
  MaxWaits = 2
  Iteration = 1
INVARIANTS
  PairsKeptApart ShortestKept BoardsInStep RowsAsAsked NotEarly ConvertedFaithfully FlagOutlivesUse ArrivedFirst
PROPERTIES
  SessionsHeld ProgramsEnd
CHECK_DEADLOCK FALSE
