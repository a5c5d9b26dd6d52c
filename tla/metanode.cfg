CONSTANTS
  n1 = n1
  n2 = n2
  n3 = n3
  None = None
  Node = {n1, n2, n3}
  Op = {o1, o2}
  FirstVoters <- TwoOrThree
  Change <- ThirdJoins
  CompactLogEntries = 2
  PromoteMaxLag = 2
  MaxTerm = 2
  MaxLog = 4
  MaxRestarts = 1
SPECIFICATION Spec
SYMMETRY Symmetry
CHECK_DEADLOCK FALSE
INVARIANTS
  StateFollowsLog
  QueueMatchesLog
  MembershipCurrent
