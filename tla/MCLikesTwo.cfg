SPECIFICATION Spec
CONSTANTS
  u1 = u1  u2 = u2  d1 = d1
  Devices = {d1, d2}
  MaxPipeline = 2
  Users = {u1, u2}
  Account <- OwnAccounts
  Posts = {p1}
  Owner <- PostsOfU2
  InitLikes <- LikedByU2
  Faults <- NoFaults
  MaxTaps = 1
INVARIANT LikesExact
