CONSTANTS
  Text <- MCText
  Upper <- MCUpper
  Identifiers <- MCIdentifiers
  Plain <- MCPlain
  AllPrivs <- MCAllPrivs
  Contents <- MCContents
  IntegrationTypes <- MCIntegrationTypes
  SystemRoles <- MCSystemRoles
  ObjectTypes <- MCObjectTypes
  Configs <- MCConfigs
  Accounts <- MCAccounts
  MaxMishaps = 1
SPECIFICATION FairSpec
INVARIANTS TypeOK RefusedForAReason CleanRunSettles NothingToDo
PROPERTIES ImplementsPolicy Converges
