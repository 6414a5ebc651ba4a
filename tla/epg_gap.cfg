\* Expected to be violated: see the findings of the README.
CONSTANTS
  c1 = c1
  h1 = h1
  Channels = {c1}
  Handlers = {}
  Playlists <- MCOnePlaylist
  Day = 4
  SmallStep = 1
  UtcBefore = 1
  UtcAfter = 2
  ChangeTime = 9
  StartTime = 10
  EndTime = 10
  FutureDays = {1}
  PastDays = {1}
  Requests <- MCNoRequests
  MaxCalls = 0
SPECIFICATION Spec
INVARIANT WindowLoaded
