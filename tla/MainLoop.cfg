CONSTANT MaxMessages = 2
SPECIFICATION LiveSpec
INVARIANT QueuesDrained
PROPERTIES EntersMainLoop MessagesProcessed ShutdownEnds
CHECK_DEADLOCK FALSE
