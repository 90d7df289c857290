CONSTANTS
  p1 = p1
  p2 = p2
  r1 = r1
  r2 = r2
  w1 = w1
  w2 = w2
  NoCommand = NoCommand
  Slaves = {1, 2, 3}
  Polls = {p1, p2}
  Reads = {}
  Writes = {w1, w2}
  SlaveOf <- MCSlaveOfWriteOnly
  Delay <- MCDelay
  FirstDelay <- MCFirstDelay
  Listed <- MCListed
  Retries <- MCRetries
  WRITE_BATCH_SIZE = 2
  MaxSilence = 2
  MaxWritesQueued = 2
  MaxPollQueue = 2
SPECIFICATION Spec
INVARIANT NextCommandFound
CHECK_DEADLOCK FALSE
