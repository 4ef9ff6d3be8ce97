SPECIFICATION FairPipelineSpec
CONSTANTS
  Accounts = {u1, u2}
  Docs = {x, y}
  MaxPipeline = 2
  MaxWrites = 3
  MaxFailures = 3
INVARIANTS AssertionsHold OwnCallback
PROPERTIES StoreSpec WritesAnswered
CHECK_DEADLOCK FALSE
