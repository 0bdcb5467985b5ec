SPECIFICATION Spec
CONSTANTS
  MaxTries = 30
  Images = 3
INVARIANTS TypeOK DoneBootsWhole
PROPERTIES CatchWins HammeringEnds BootSettles
