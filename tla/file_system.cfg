SPECIFICATION Spec
CONSTANTS
  MaxNodes = 5
  MaxRoom = 6
  Names = {a, dotb}
  DotNames = {dotb}
  Slash = Slash
  Buckets = {0, 1}
  Hash <- MCHash
INVARIANTS ListedIsFound LoopsPassDotNames UnmountedIsForgotten
PROPERTIES GhostsAreReplaced CurrentStays
