SPECIFICATION Spec
CONSTANT Boot = 1000
INVARIANTS
  DecodingIsExact
  FlagsAreConsistent
