CONSTANTS
  Shots = 3
  WindowSize = 2
SPECIFICATION FairSpec
INVARIANTS CountsAreExact ViewIsConsistent AcceptedIsTrue
PROPERTY CatchesUp
