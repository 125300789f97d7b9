SPECIFICATION Spec
CONSTANTS
  Task = {"a", "b"}
  DependsOn <- MCDependsOn
  Inherited = {"a"}
  Root = "root"
  Native = {"child"}
  Started = {"agent"}
  Here = {"root", "child"}
  MaxCollections = 2
  MaxFaults = 1
  MaxEvents = 1
CHECK_DEADLOCK FALSE
INVARIANTS WholeRecord
PROPERTIES RequiredSpared CancelOutlasts
