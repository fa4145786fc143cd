SPECIFICATION FairSpec
CONSTANTS
  Chans = {a}
  EXIT = EXIT
  Unopenable = {}
  Periods = {p10ms, p1s}
  FPC_DEFAULT_PERIOD = p10ms
  NR_MOD = 8
  MaxEvents = 0
  MaxMoves = 1
  MaxTicks = 0
  Races = {"exit"}
PROPERTIES
  CallsReturn
