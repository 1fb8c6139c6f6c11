SPECIFICATION FairPlan
CONSTANTS
  MaxCommands = 2
  Plans <- MCPlans
 
PROPERTIES CompletedMeansAllSteps
CHECK_DEADLOCK FALSE
