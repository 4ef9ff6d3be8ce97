SPECIFICATION StatsSpec
CONSTANTS
  u1 = u1  u2 = u2  u3 = u3
  Devices = {d1}
  MaxPipeline = 2
  Users = {u1, u2, u3}
  Account <- OneAccount
  Posts = {}
  Owner <- NoPosts
  InitPosts = {}
  InitFollows <- SomeFollows
  Visits <- U2Profile
  Lists = {d1}
  Faults <- PhoneFaults
  MaxTaps = 2
INVARIANTS StatsTypeOK StatsExact
