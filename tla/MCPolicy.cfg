SPECIFICATION MCSpec
CONSTANTS
  PoKeys <- MCKeys
  PoNames <- MCNames
  PoLinks <- MCLinks
  PoQuestion <- MCQuestion
  PoLocalSlots = 1
  PoSlots = 3
  PoMethods = {nodata, refused}
  PoRules = 3
CHECK_DEADLOCK FALSE
INVARIANT
  BuiltIndexWalks
