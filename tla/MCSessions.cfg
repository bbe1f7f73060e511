SPECIFICATION MCSpec
CONSTANTS
  Commands <- AllCommands
  Order <- MCOrder
  GroupOf <- MCGroupOf
  RemoteAs <- MCRemoteAs
  Objects = {o1, o2}
  MaxRange = 2
  Names = {n1, n2, n3}
  MaxAliases = 3
  Wrap = 4
  MaxOps = 4
  Minute = 3
  Interval = 2
  Default = 3
  Timeouts = {0, 1, 2}
  MaxTime = 14
  Servers = {s1, s2}
  UserGroups = {g1}
  MaxGroups = 3
  MaxDeletes = 1
  Sessions = {v1, v2}
  MaxRequests = 2
  None = None
INVARIANTS
  ContextKept
  EveryMember
  LogoutOnTime
  AllowedForAReason
  GroupsExhausted
  OnePending
PROPERTIES
  LineEnds
  ModesRefined
  RefreshCovers
  Converges
  ClearNotBlocked
