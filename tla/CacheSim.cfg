\* Three ways, two sets used, blocks of two bytes; CacheSize gives a number of
\* sets that is no power of two.  Tags go up to 3, the largest of an int.
SPECIFICATION Spec
\* The trace ends.
CHECK_DEADLOCK FALSE
CONSTANTS
  BlockSize = 2
  CacheSize = 18
  Ways = 3
  MaxAddress = 13
  IntRange = 8
  MaxAccesses = 5
INVARIANTS
  TypeOK
  StackOrdersWays
PROPERTY
  ImplementsLru
