\* A 6 bit counter and chunks of 5: laps of up to a dozen chunks.
SPECIFICATION Spec
CONSTANTS
  UintSize = 64
  NonceIncrement = 5
INVARIANTS
  ChunksDisjoint
  ChunkFits
