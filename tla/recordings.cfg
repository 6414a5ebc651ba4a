\* Two records, one of them behind the PIN, under fairness.
CONSTANTS
  r1 = r1
  r2 = r2
  Records = {r1, r2}
  Locked = {r1}
SPECIFICATION FairSpec
INVARIANTS TypeOK NeverBoth DeletedIsReloaded
PROPERTIES KodiListsRecords RecordingsMirrored TimersMirrored
