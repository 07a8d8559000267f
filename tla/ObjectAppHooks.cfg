\* A service is started while it is uninstalled.
SPECIFICATION Spec
CONSTANTS
  Tasks = {1, 2}
  MaxObjects = 3
  MaxBindings = 1
  MaxObservers = 1
  MaxBorrows = 0
  Programs <- HookPrograms
INVARIANT HooksDoNotOverlap
