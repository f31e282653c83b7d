SPECIFICATION Spec
CONSTANTS
  NestingLimit = 2
  DataSize = 17
  default_buffer_size = 4
INVARIANTS ParsesGrammar PrintParses NoOverrun MessageRoundTrip CommandIsFramed
CHECK_DEADLOCK FALSE
