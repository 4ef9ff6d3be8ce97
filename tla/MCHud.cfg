SPECIFICATION FairHudSpec
CONSTANTS
  comments = comments
  rows = rows
  upload = upload
  registration = registration
  Views = {comments, rows, upload, registration}
  NoView = NoView
  Bare <- Uncovered
  Modal <- Closing
  Quiet <- Silent
  Lossy <- Losing
  MaxRequests = 4
INVARIANTS HudTypeOK HudUpMeansWaiting CoveredUntilAnswered
PROPERTIES HudReleased
