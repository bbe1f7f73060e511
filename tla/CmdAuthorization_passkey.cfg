SPECIFICATION AuthorSpec
CONSTANTS
  Servers = {s1, s2}
  UserGroups = {g1}
  MaxGroups = 2
  MaxDeletes = 0
INVARIANTS
  PasskeyUsable
