CONSTANTS
  h1 = h1
  h2 = h2
  Handlers = {h1, h2}
  MaxCommands = 2
  MaxFrames = 1
SPECIFICATION FairSpec
INVARIANTS SubscribedOrWorkedOn SomebodyReconnects NoConnectionAfterClose AcceptedInOrder
PROPERTIES Reconnects HandlersEnd
