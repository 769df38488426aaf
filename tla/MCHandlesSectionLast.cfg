SPECIFICATION Spec
CONSTANTS
  Handles = {0, 1, 4}
  Lengths = {1, 3}
  MaxObjects = 4
  FirstAddress = 1
  PageLimit = 6
  ReadLimit = 10
  UmcMin = 2
  UmcSteps = {3}
  McSteps = {3}
INVARIANT LastPageIsTerminal
