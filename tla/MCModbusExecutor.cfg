CONSTANTS
  p1 = p1
  p2 = p2
  r1 = r1
  r2 = r2
  w1 = w1
  w2 = w2
  NoCommand = NoCommand
  Slaves = {1, 2}
  Polls = {p1, p2}
  Reads = {r1}
  Writes = {w1, w2}
  SlaveOf <- MCSlaveOf
  Delay <- MCDelay
  FirstDelay <- MCFirstDelay
  Listed <- MCListed
  Retries <- MCRetries
  WRITE_BATCH_SIZE = 2
  MaxSilence = 2
  MaxWritesQueued = 3
  MaxPollQueue = 2
SPECIFICATION LiveSpec
INVARIANTS TypeOK PendingWritesCounted NextCommandFound
PROPERTIES PollsNotLost  WritesSettle PollsSent InitialPollEnds
