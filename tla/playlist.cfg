\* One thread asking for a stream, one listing channels, two sessions, under fairness.
CONSTANTS
  h1 = h1
  h2 = h2
  Handlers = {h1}
  Listers = {h2}
  MaxSessions = 2
SPECIFICATION FairSpec
INVARIANTS TypeOK DrmReady ReloadNotLost PinFlagTruthful RegetUnlocked
PROPERTIES WorkerStops KodiListsChannels ChannelsMirrored
