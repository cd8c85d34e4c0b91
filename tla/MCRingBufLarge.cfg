SPECIFICATION Spec
CONSTANTS
  Capacity = 4
  Requested = 3
  Byte <- MCBytes
  Zero = 0
  Buffers <- MCBuffers
  Reads <- MCLargeReads
PROPERTY PopsTakeHeldBytes
