\* gameDemo.asm, and a program that makes any access at any time.
SPECIFICATION FairSpec
CONSTANTS
  ClkDiv = 2
  ConvHighClks = 1
  ConvWaitClks = 80
  AcqHoldClks = 4
  Channel = {0, 1}
  Programs = {"gameDemo", "any"}
  MaxConversions = 4
INVARIANTS
  TypeOK
  StartsServedOnce
  CommandIntact
  ReadyIsFresh
  ClearSparesCompletion
  ReturnsOwnSample
PROPERTY
  ReadADCReturns
