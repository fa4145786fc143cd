SPECIFICATION Spec
CONSTANTS
  Chans = {a}
  Compressed = {a}
  Tsc = {}
  Unopenable = {}
  NUM_BUFFER_BLOCK = 3
  BUFFER_BLOCK_SIZE = 1
  RETURN_QUEUE_SIZE = 4
  COMPRESS_QUEUE_SIZE = 3
  IO_QUEUE_SIZE = 6
  COMP_THREAD_NUM = 2
  MaxLogs = 3
  Races = {}
  NULL = NULL
INVARIANTS
  TypeOK
  LogInOrder
  ClosedIsComplete
  NoLossAtExit
