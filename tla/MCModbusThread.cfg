CONSTANTS
  p = p
  once = once
  r = r
  w = w
  Polls = {p, once}
  Reads = {r}
  Writes = {}
  Refresh <- MCRefresh
  PollMode <- MCPollMode
  First <- MCFirst
  Count <- MCCount
  Delay <- MCDelay
  Forever = 99
  HasDevicePath = TRUE
  AutoWatchPeriod = TRUE
  WatchPeriod = 1
  DeviceCheckPeriod = 0
  MaxWatchPeriod = 2
  ReconnectStep = 2
  MaxReconnectTime = 3
  MaxDelay = 1
  MaxLate = 1
  MaxToModbus = 1
SPECIFICATION LiveSpec
INVARIANTS TypeOK ReconnectDelayBounded NeverOversleeps NetworkStateTold
PROPERTIES HealthyNetworkKept DeadNetworkReconnected RegistersRead EndsAfterStop
CHECK_DEADLOCK FALSE
