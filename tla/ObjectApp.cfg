SPECIFICATION FairSpec
CONSTANTS
  Tasks = {1, 2}
  MaxObjects = 3
  MaxBindings = 2
  MaxObservers = 1
  MaxBorrows = 2
  Programs <- MCPrograms
INVARIANTS CountersAgree OneOperation ClosedUnused NoDanglingBinding DependenciesAcyclic
PROPERTIES NoLateCallback OperationsReturn
