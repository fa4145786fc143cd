SPECIFICATION FairSpec
CONSTANTS
  Chans = {a, b}
  Compressed = {a, b}
  Tsc = {}
  Unopenable = {b}
  NUM_BUFFER_BLOCK = 2
  BUFFER_BLOCK_SIZE = 1
  RETURN_QUEUE_SIZE = 3
  COMPRESS_QUEUE_SIZE = 3
  IO_QUEUE_SIZE = 6
  COMP_THREAD_NUM = 1
  MaxLogs = 2
  Races = {}
  NULL = NULL
PROPERTIES
  NormalExitEnds
  PollingEnds
