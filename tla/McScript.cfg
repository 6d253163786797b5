\* Buffer chunks of two bytes, index chunks of one element.
SPECIFICATION ContainerSpec
CONSTANTS
  x = x
  y = y
  Zero = Zero
  Byte <- MCByte
  Piece <- MCPiece
  BufferChunk = 2
  IndexChunk = 1
  MaxSize = 4
  MaxElements = 3
PROPERTY ImplementsElements
