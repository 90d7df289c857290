CONSTANTS
  p = p
  once = once
  r = r
  w = w
  Polls = {}
  Reads = {}
  Writes = {w}
  Refresh <- MCRefresh
  PollMode <- MCPollMode
  First <- MCFirst
  Count <- MCCount
  Delay <- MCDelay
  Forever = 99
  HasDevicePath = TRUE
  AutoWatchPeriod = TRUE
  WatchPeriod = 1
  DeviceCheckPeriod = 0
  MaxWatchPeriod = 2
  ReconnectStep = 2
  MaxReconnectTime = 3
  MaxDelay = 1
  MaxLate = 3
  MaxToModbus = 1
SPECIFICATION Spec
INVARIANT ReconnectDelayBounded
CHECK_DEADLOCK FALSE
