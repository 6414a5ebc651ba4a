\* Expected to be violated: see the findings of the README.
CONSTANTS
  c1 = c1
  h1 = h1
  Channels = {c1}
  Handlers = {h1}
  Playlists <- MCOnePlaylist
  Day = 4
  SmallStep = 1
  UtcBefore = 2
  UtcAfter = 1
  ChangeTime = 9
  StartTime = 10
  EndTime = 11
  FutureDays = {0, 1}
  PastDays = {0, 1}
  Requests <- MCNoRequests
  MaxCalls = 1
SPECIFICATION Spec
INVARIANT RecordIdKept
