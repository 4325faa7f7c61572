\* sniffer.py:308: only an invalid sequence makes a file undecodable.
SPECIFICATION Spec
CONSTANTS
  None = None
  Files <- LongFiles
  ChunkSize = 2
  MaxChunks = 2
CHECK_DEADLOCK FALSE
INVARIANTS
  RefusedTextIsInvalid
