SPECIFICATION MCSpec
CONSTANTS
  Commands <- AllCommands
  Order <- MCOrder
  GroupOf <- MCGroupOf
  RemoteAs <- MCRemoteAs
  Objects = {o1}
  MaxRange = 1
  Names = {n1, n2, n3}
  MaxAliases = 3
  Wrap = 4
  MaxOps = 1
  Minute = 3
  Interval = 2
  Default = 3
  Timeouts = {0, 1, 2}
  MaxTime = 4
  Servers = {s1, s2}
  UserGroups = {g1}
  MaxGroups = 1
  MaxDeletes = 0
  Sessions = {v1, v2}
  MaxRequests = 1
  None = None
INVARIANT
  EndForgetsRange
