SPECIFICATION Spec
CONSTANTS
  Transports = {"polling", "sse"}
  MaxArrivals = 4
  MaxShown = 2
  MaxAsked = 1
  MaxChunk = 3
  FoldAt = 1
  DebugRows = 2
INVARIANT TypeOK
INVARIANT NothingIsStuck
INVARIANT ShownInOrder
INVARIANT SeenInOrder
PROPERTY ThinkingIsKept
