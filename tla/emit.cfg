SPECIFICATION EmitSpec
CONSTANTS
  nr_threads = 2
  per_sec_throughput = 2
  emit_dur = 1
  PillDurs = {0, 1}
  tup_idx_offset = 10
  Slags = {0, 2}
  NANO_S_PER_S = 2
  MILLI_S_PER_S = 1
  POLL_ENQUEUE_OVERHEAD = 1
  QUEUE_SIZE = 1
  MaxTime = 2
  ZChannels = {1, 2}
  tuningKnob = 2
  TIMEOUT_NS = 2
  NrTuples = 3
INVARIANTS
  StreamIntact OnSchedule  BucketsPartition
PROPERTIES
  FetchersServed
CHECK_DEADLOCK FALSE
