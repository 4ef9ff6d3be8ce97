SPECIFICATION FairSessionSpec
CONSTANTS
  Devices <- Queues
  Phones = {p1}
  Users = {u1}
  u1 = u1
  u2 = u2
  Nobody = Nobody
  InitAccounts <- OnlyU1
  MaxPipeline = 2
  MaxLogins = 2
  Faults <- NoFaults
PROPERTIES DeletedIsGone
CHECK_DEADLOCK FALSE
