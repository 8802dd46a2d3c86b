CONSTANTS
  DATA_BUFFERS_N = 3
  MaxPacket = 2
  MaxSync = 1
SPECIFICATION BuffersSpec
INVARIANT StoredBlocksOffered
