\* A revocation while another uninstall erases what is inactive.
SPECIFICATION Spec
CONSTANTS
  Tasks = {1, 2, 3}
  MaxObjects = 4
  MaxBindings = 1
  MaxObservers = 1
  MaxBorrows = 0
  Programs <- ObserverPrograms
INVARIANT RunningCallbackKeepsRecord
