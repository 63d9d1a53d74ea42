SPECIFICATION Spec
CONSTANTS
  Jobs = {j1, j2, j3}
  MaxHashes = 4
  MaxPosted = 3
  NoJob = NoJob
  NoAnswer = NoAnswer
INVARIANTS ShareMatchesJob
PROPERTY ImplementsRounds
CHECK_DEADLOCK FALSE
