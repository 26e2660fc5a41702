CONSTANTS
  Chars = {"a", "b", "0"}
  Zero = "0"
  Pieces <- MCPieces
  Formats <- MCFormats
  Capacities = {1, 2, 3}
  Fixed = 2
  ArenaRoom = 9
  MaxArenas = 2
SPECIFICATION Spec
CHECK_DEADLOCK FALSE
INVARIANTS TypeOK StorageBacked
PROPERTY ImplementsTextBuffer
