SPECIFICATION Spec
CONSTANTS
  Api = api
  Procs = {api, worker}
  Ticking = {worker}
  Tables = {"symbols", "stock_quotes"}
  Quotes = "stock_quotes"
  S1 = S1
  S2 = S2
  Stamps = {S1, S2}
  NoStamp = NoStamp
  OldRows <- MCOldRows
  MaxRows = 3
  MaxCrashes = 2
  User = User
  Names = {User}
  Password = Password
  Passwords = {Password}
  Key = Key
  Other = Other
  ApiKeys = {Key, Other}
  NoKey = NoKey
  Secret = Secret
  DefaultSecret = DefaultSecret
  Secrets = {Secret, DefaultSecret}
  NoToken = NoToken
  PerSecond = 2
  MaxNow = 4
  Configs <- MCConfigs
INVARIANTS
  TypeOK
  UpHasSchema
  QuotesUnique
  AnyOriginIsLocal
  LocalTokensRefused
  TokenLifetime
  CredentialsAddUp
PROPERTIES
  NothingLost
  EveryoneComesUp
