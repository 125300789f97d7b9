SPECIFICATION Spec
CONSTANTS
  Task = {"a", "b"}
  DependsOn <- MCDependsOn
  Inherited = {"a"}
  Root = "root"
  Native = {"child"}
  Started = {"agent"}
  Here = {"root", "child"}
  MaxCollections = 1
  MaxFaults = 0
  MaxEvents = 1
CHECK_DEADLOCK FALSE
PROPERTY WholeTrees
