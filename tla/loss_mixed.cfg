SPECIFICATION Spec
CONSTANTS
  Chans = {a, b}
  Compressed = {a}
  Tsc = {}
  Unopenable = {}
  NUM_BUFFER_BLOCK = 2
  BUFFER_BLOCK_SIZE = 1
  RETURN_QUEUE_SIZE = 3
  COMPRESS_QUEUE_SIZE = 3
  IO_QUEUE_SIZE = 6
  COMP_THREAD_NUM = 1
  MaxLogs = 1
  Races = {}
  NULL = NULL
INVARIANTS
  NoLossAtExit
CHECK_DEADLOCK FALSE
