CONSTANTS
  none = none
  user = user
  accountadmin = accountadmin
  sysadmin = sysadmin
  securityadmin = securityadmin
  useradmin = useradmin
  r = r
  g = g
  r2 = r2
  g2 = g2
  db = db
  pub = pub
  sch = sch
  old = old
  tbl = tbl
  db2 = db2
  sch2 = sch2
  tbl2 = tbl2
  NoURN = none
  SessionUser = user
  ACCOUNTADMIN = accountadmin
  SYSADMIN = sysadmin
  SECURITYADMIN = securityadmin
  USERADMIN = useradmin
  URN <- MCURN
  Type <- MCType
  Container <- MCContainer
  SchemaName <- MCSchemaName
  GrantedRole <- MCGrantedRole
  Grantee <- MCGrantee
  NAttr = 3
  Val <- MCVal
  AttrKind <- MCAttrKind
  UserRoles <- MCUserRoles
  Configs <- SchemaConfigs
  Accounts <- MCAccounts
  Drifts <- MCDrifts
  DefaultRole = sysadmin
  MaxMishaps = 0
  ReuseSession = FALSE
SPECIFICATION Spec
PROPERTY DropsInScope
