SPECIFICATION Spec
CONSTANTS
  p1 = p1  p2 = p2  u1 = u1  u2 = u2  sc1 = sc1  sc2 = sc2  a1 = a1
  Blank = Blank  NoUser = NoUser  NoInfo = NoInfo
  Environments <- SomeEnvironments
  Tables <- SomeTables
  UserID <- TwoUsers
  Scopes <- TwoScopes
  Account <- OneAccount
  Proc <- OneProc
  MaxSid = 4
  MaxRuns = 1
PROPERTIES ToldAsInTable
CHECK_DEADLOCK FALSE
