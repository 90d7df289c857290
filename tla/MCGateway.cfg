CONSTANTS
  o = o
  s = s
  a = a
  u = u
  Objects = {o}
  StateNodes = {s}
  AvailNodes = {a}
  ObjectOf <- MCObjectOf
  Unit <- MCUnit
  Register <- MCRegister
  Values = {0, 1}
  AvailableWhen <- MCAvailableWhen
  Groups <- MCGroups
  PublishMode <- MCPublishMode
  Retain <- MCRetain
  PayloadOf <- MCPayloadOf
  NoPayload = NoPayload
  PollMode <- MCPollMode
  DefaultReadErrorCount = 1
  MaxReadErrors = 2
  MaxFromModbus = 1
  NeverRead = NeverRead
  Commands <- MCFirst
  Requests <- MCFirst
SPECIFICATION Spec
INVARIANTS TypeOK FlagCurrent AvailabilityPublished StatePublished AvailableAfterReads UnavailableAfterErrors ValuesFollowReads
