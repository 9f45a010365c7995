SPECIFICATION FairChannelSpec
CONSTANTS
  HistoryLimit = 2
  MaxCommands = 3
  MaxRegistrations = 2
  MaxRestarts = 1
INVARIANTS
  DispatchedInOrder
PROPERTY EveryCommandLeaves
