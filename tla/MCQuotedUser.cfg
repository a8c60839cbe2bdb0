CONSTANTS
  Text <- MCText
  Upper <- MCUpper
  Identifiers <- MCIdentifiers
  Plain <- MCPlain
  AllPrivs <- MCAllPrivs
  Contents <- MCContents
  IntegrationTypes <- MCIntegrationTypes
  SystemRoles <- MCSystemRoles
  ObjectTypes <- MCObjectTypes
  Configs <- QuotedUser
  Accounts <- MCAccounts
  MaxMishaps = 1
SPECIFICATION Spec
PROPERTIES DeclaredStay
