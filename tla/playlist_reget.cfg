\* Expected to be violated: see the findings of the README.
CONSTANTS
  h1 = h1
  h2 = h2
  Handlers = {h1}
  Listers = {}
  MaxSessions = 2
SPECIFICATION Spec
INVARIANT RegetFresh
