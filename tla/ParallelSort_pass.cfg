\* Every file of six zeros and ones, sorted by two levels of forks, with one fault.
SPECIFICATION Spec
CONSTANTS
  Size = 6
  Threshold = 2
  Values = {0, 1}
  MaxFaults = 1
CHECK_DEADLOCK FALSE
INVARIANTS TypeOK DisjointWork SuccessMeansSorted NothingLost
PROPERTIES ProcessesEnd
