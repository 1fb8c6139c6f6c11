SPECIFICATION FairSchedulerSpec
CONSTANTS
  MaxActors = 3
  Depth = 1
  MaxSends = 2
INVARIANTS AllOrNothing StoppedMeansReleased
PROPERTIES AcceptedIsHandled 
CHECK_DEADLOCK FALSE
