SPECIFICATION Spec
CONSTANTS
  Files = {f}
  MaxOpenFds = 1
  Bytes = {0, 1}
  Zero = 0
  Closed = Closed
  MaxSize = 2
INVARIANTS Represented
PROPERTIES ImplementsFile
