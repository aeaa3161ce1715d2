SPECIFICATION Spec
CONSTANTS
  p1 = p1  p2 = p2  s1 = s1  s2 = s2  s3 = s3  u1 = u1  k1 = k1  v1 = v1
  NoSid = NoSid  NoUser = NoUser  NoValue = NoValue  NoDoc = NoDoc  Keep = Keep
  Letter <- OneLetter  Longest = 3
  Proc <- TwoProcs
  Sid <- TwoSids
  User <- OneUser
  Key <- OneKey
  Value <- OneValue
  LoginTimeout = 0
  IdleTimeout = 0
  AbsoluteTimeout = 0
  MaxTime = 1
  MaxFaults = 0
  Ops <- RequestOps
SYMMETRY Symmetry
PROPERTIES OnlyUpdatesChangeData
