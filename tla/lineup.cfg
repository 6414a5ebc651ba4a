\* Two changes at the backend between any of the calls.
CONSTANTS
  c1 = c1
  c2 = c2
  c3 = c3
  r1 = r1
  ga = ga
  gb = gb
  Channels <- MCChannels
  Radio = {r1}
  Groups = {ga, gb}
  GroupOf <- MCGroupOf
  Orders <- MCOrders
  MaxChanges = 2
SPECIFICATION Spec
INVARIANTS TypeOK ShownIsPlayed LocksRenumberNothing MembersListed
