SPECIFICATION MCSpec
CONSTANTS
  Chans = {a, b}
  Compressed = {}
  Tsc = {}
  Unopenable = {}
  NUM_BUFFER_BLOCK = 2
  BUFFER_BLOCK_SIZE = 1
  RETURN_QUEUE_SIZE = 3
  COMPRESS_QUEUE_SIZE = 2
  IO_QUEUE_SIZE = 3
  COMP_THREAD_NUM = 1
  MaxLogs = 2
  Races = {"return_push"}
  NULL = NULL
  NANO_S_PER_S = 4
  WORD = 32
  MaxSeconds = 6
  Numbers <- MCNumbers
  DEFAULT_PERIOD = 3
  Periods <- MCPeriods
  Gaps = {1, 4, 7}
  UINT32 = 4
  MaxNow = 14
  Handlers = {"IDENTITY", "IDENTITY_TSC", "DOWNSAMPLE", "XOY", "FIRSTLAST", "MEDIAN",
              "NULLH", "DEFECT"}
  SAMPLING_FACTOR = 3
  X_FACTOR = 2
  Y_FACTOR = 4
  MAX_TS = 3
  SIZEOF_TIMESPEC = 2
  DBL_MANT_DIG = 3
  Tuples <- MCTuples
  ArgValues <- MCArgValues
  ArgLists <- MCArgLists
  Literals <- MCLiterals
  Garbage = {0, 9}
  MaxCalls = 5
  MaxSets = 2
INVARIANTS
  OneHolder
  NoLossAtExit
  LoggedAsPromised
  TimeLineComplete
  AgreesWithIntegers
CHECK_DEADLOCK FALSE
