SPECIFICATION Spec
CONSTANT Boot = 1000
INVARIANT StampIsWallTime
