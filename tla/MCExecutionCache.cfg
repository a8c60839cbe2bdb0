SPECIFICATION Spec
CONSTANTS
  Role = {admin, dev}
  GrantManagers = {admin}
  DefaultRole = dev
  NoRole = NoRole
  GrantsText = {g}
  UsersText = users
  OtherText = {other}
  Content = {c1}
  Empty = Empty
  Missing = Missing
  Partial = Partial
  Id = {i1, i2, i3, i4, i5}
  MaxPlans = 2
  MaxChanges = 1
SYMMETRY Ids
CHECK_DEADLOCK FALSE
INVARIANTS TypeOK LookupsAreCurrent UsersInFull
