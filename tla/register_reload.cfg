SPECIFICATION FairSpec
CONSTANTS
  Unreadable = Unreadable  NoUser = NoUser  Invalid = Invalid
  Header <- SomeHeaders
  Piece <- SomePieces
  Width = 3
  UserID <- TwoUsers
  Account <- TwoAccounts
  Tables <- SomeTables
  ConfigUsers <- DevUsers
  MaxModTime = 2
  MaxFaults = 1
INVARIANTS TypeOK NotOlderThanStamp AccountsResolve LastRowWins EnvAgreesWithTable
PROPERTIES YoungerFileIsLoaded
