SPECIFICATION FairSpec
CONSTANTS
  Conns = {c1, c2}
  MaxFd = 2
  Nobody = Nobody
INVARIANTS
  DescriptorsOwned
  RegistryExact
PROPERTY DepartedLeave
CHECK_DEADLOCK FALSE
