SPECIFICATION FairCommentsSpec
CONSTANTS
  u1 = u1  u2 = u2
  Devices = {d1, d2}
  MaxPipeline = 2
  Users = {u1, u2}
  Account <- OwnAccounts
  Faults <- PhoneFaults
  PostOwner = u2
  NoOne = NoOne
  InitComments = 0
  MaxTaps = 2
INVARIANTS CommentsTypeOK ShownOnce CommentedFirst ShownIsStored
PROPERTIES CommentsShown CommentHudReleased
CHECK_DEADLOCK FALSE
