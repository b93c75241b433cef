SPECIFICATION FairSpec
CONSTANTS
  main = main
  helper = helper
  w1 = w1
  w2 = w2
  w3 = w3
  t1 = t1
  t2 = t2
  t3 = t3
  NoTask = NoTask
  Nobody = Nobody
  Owner = main
  Callers <- TwoCallers
  Workers <- ThreeWorkers
  Tasks <- ThreeTasks
INVARIANTS
  TypeOK
  TaskAccounting
  WakeupsCoverBacklog
  PopFindsTask
  NobodySleepsThroughStop
  DrainedAtDestruction
  IInv
PROPERTIES
  EveryTaskRuns
  DestructorReturns
  ImplementsTaskPool
  ImplementsFairTaskPool
