SPECIFICATION MCSpec
CONSTANTS
  u1 = u1  u2 = u2  d1 = d1
  Devices = {d1, d2}
  MaxPipeline = 2
  Users = {u1, u2}
  Account <- OwnAccounts
  Posts = {p1, p2}
  Owner <- PostsOfU1
  InitPosts = {}
  InitFollows <- NoFollows
  Visits <- U1Profile
  Lists = {}
  Faults <- PhoneFaults
  MaxTaps = 1
INVARIANTS UploadTypeOK FeedHasPost SteadyFollowersGetPost UploadHudAwaited
PROPERTIES UploadHudReleased
CHECK_DEADLOCK FALSE
