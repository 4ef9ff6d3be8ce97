SPECIFICATION Spec
CONSTANTS
  u1 = u1  u2 = u2
  Devices = {d1}
  MaxPipeline = 2
  Users = {u1, u2}
  Account <- OneAccount
  Posts = {p1}
  Owner <- PostsOfU2
  InitPosts = {p1}
  InitFollows <- NoFollows
  Visits <- U2Profile
  Lists = {d1}
  Faults <- NoFaults
  MaxTaps = 2
INVARIANT FeedFollowsFollow
