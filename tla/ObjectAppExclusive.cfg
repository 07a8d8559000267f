\* An object that is being installed or started is stopped meanwhile.
SPECIFICATION Spec
CONSTANTS
  Tasks = {1, 2}
  MaxObjects = 3
  MaxBindings = 1
  MaxObservers = 1
  MaxBorrows = 0
  Programs <- ControlPrograms
INVARIANT OneControlOperation
