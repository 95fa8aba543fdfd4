SPECIFICATION ListingsSpec
CONSTANTS
  Takes = {1, 2}
  FirstRows = 4
  MaxChanges = 3
  MaxListings = 2
INVARIANT ExactUnlessStrayed
CHECK_DEADLOCK FALSE
