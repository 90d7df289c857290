CONSTANTS
  Size = 1
  MAX_BLOCK_SIZE = 4
  MaxBlocks = 3
  MaxElements = 6
SPECIFICATION LiveSpec
INVARIANTS DequeueSucceeds WakeupsMatch BlocksHandedOver
PROPERTIES ImplementsBlockingQueue ElementsDelivered
CHECK_DEADLOCK FALSE
