CONSTANTS
  Input = {x, y}
  MaxJobs = 3
SPECIFICATION JobSpec
PROPERTIES InputStable ResultIsCurrent JobCompletes
CHECK_DEADLOCK FALSE
