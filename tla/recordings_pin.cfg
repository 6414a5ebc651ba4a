\* Expected to be violated: see the findings of the README.
CONSTANTS
  r1 = r1
  r2 = r2
  Records = {r1}
  Locked = {r1}
SPECIFICATION FairSpec
PROPERTY UnlockingUnlocks
