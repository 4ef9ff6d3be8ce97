SPECIFICATION FairSpec
CONSTANTS
  u1 = u1  u2 = u2  d1 = d1
  Devices = {d1}
  MaxPipeline = 2
  Users = {u1, u2}
  Account <- OwnAccounts
  Posts = {p1}
  Owner <- PostsOfU2
  InitLikes <- NoLikes
  Faults <- AllFaults
  MaxTaps = 2
INVARIANTS TypeOK LikedFirst
PROPERTIES LikesAreDirectory LikesReleased
