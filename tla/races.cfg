SPECIFICATION Spec
CONSTANTS
  Chans = {a, b}
  Compressed = {a}
  Tsc = {b}
  Unopenable = {}
  NUM_BUFFER_BLOCK = 2
  BUFFER_BLOCK_SIZE = 1
  RETURN_QUEUE_SIZE = 3
  COMPRESS_QUEUE_SIZE = 3
  IO_QUEUE_SIZE = 6
  COMP_THREAD_NUM = 1
  MaxLogs = 2
  Races = {"overlap", "loop_test"}
  NULL = NULL
PROPERTIES
  KeepsPromise
CHECK_DEADLOCK FALSE
