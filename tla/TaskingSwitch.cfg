SPECIFICATION Spec
CONSTANTS
  MaxTasks = 2
INVARIANTS
  NewTaskRuns
