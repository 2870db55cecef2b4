CONSTANTS
  admin = admin
  u1 = u1
  Users = {admin, u1}
  Policy <- MCPolicy
  Names = {k1, k2}
  Versions <- MCVersions
  Limit = 1
  NoValue = NoValue
  Empty = Empty
SPECIFICATION Spec
INVARIANT TypeOK
PROPERTIES OwnerScoped VersionGatesUserId
