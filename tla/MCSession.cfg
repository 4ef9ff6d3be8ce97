SPECIFICATION MCSpec
CONSTANTS
  Devices <- Queues
  Phones = {p1}
  Users = {u1, u2}
  u1 = u1
  u2 = u2
  Nobody = Nobody
  InitAccounts <- OnlyU1
  MaxPipeline = 2
  MaxLogins = 2
  Faults <- AllFaults
INVARIANTS SessionTypeOK TabIsCurrent AccountHasDocument PostsDeletedLast
PROPERTIES LoginHudReleased EditStored
CHECK_DEADLOCK FALSE
