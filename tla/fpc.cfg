SPECIFICATION FairSpec
CONSTANTS
  Chans = {a, b}
  EXIT = EXIT
  Unopenable = {b}
  Periods = {p10ms, p1s}
  FPC_DEFAULT_PERIOD = p10ms
  NR_MOD = 8
  MaxEvents = 1
  MaxMoves = 1
  MaxTicks = 1
  Races = {}
INVARIANTS
  TypeOK
  NothingLeftBehind
  CountConserved
  FileAccounts
  SampledByOne
PROPERTIES
  CallsReturn
  ThreadsEnd
