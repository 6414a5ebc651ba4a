\* Expected to be violated: see the findings of the README.
CONSTANTS
  u1 = u1
  u2 = u2
  p1 = p1
  p2 = p2
  s1 = s1
  s2 = s2
  Users = {u1, u2}
  Providers = {p1, p2}
  Serials = {s1, s2}
  Empty = Empty
  MaxMishaps = 1
SPECIFICATION Spec
PROPERTY RejectedStaysStored
