\* A channel behind a PIN, an AddTimer call, the change to summer time two days before.
CONSTANTS
  c1 = c1
  h1 = h1
  Channels = {c1}
  Handlers = {h1}
  Playlists <- MCPlaylists
  Day = 4
  SmallStep = 1
  UtcBefore = 1
  UtcAfter = 2
  ChangeTime = 9
  StartTime = 15
  EndTime = 16
  FutureDays = {1}
  PastDays = {0, 1}
  Requests <- MCRequests
  MaxCalls = 1
SPECIFICATION FairSpec
INVARIANTS TypeOK KodiInSync HolesEndInTheirDay HolesAreShort LoadsAskForMore
PROPERTIES EventuallyLoaded EventuallyReleased
