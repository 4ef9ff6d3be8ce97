SPECIFICATION FairSpec
CONSTANTS
  u1 = u1  u2 = u2
  Devices = {d1}
  MaxPipeline = 2
  Users = {u1, u2}
  Account <- OneAccount
  Posts = {}
  Owner <- PostsOfU2
  InitPosts = {}
  InitFollows <- AllFollowU1
  Visits <- U2Profile
  Lists = {d1}
  Faults <- AllFaults
  MaxTaps = 2
PROPERTIES DirectorySpec DirectoryReleased LoaderReleased
