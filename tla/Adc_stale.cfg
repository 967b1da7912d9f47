\* game.asm, which does not clear READY.
SPECIFICATION FairSpec
CONSTANTS
  ClkDiv = 2
  ConvHighClks = 1
  ConvWaitClks = 80
  AcqHoldClks = 4
  Channel = {0, 1}
  Programs = {"game"}
  MaxConversions = 4
INVARIANT
  ReturnsOwnSample
