SPECIFICATION IsoSpec
CONSTANTS
  p1 = p1  p2 = p2  s1 = s1  s2 = s2  s3 = s3  u1 = u1  u2 = u2  k1 = k1  v1 = v1
  NoSid = NoSid  NoUser = NoUser  NoValue = NoValue  NoDoc = NoDoc  Keep = Keep
  NoCall = NoCall
  Letter <- OneLetter  Longest = 3
  Proc <- TwoProcs
  Sid <- TwoSids
  User <- TwoUsers
  Key <- OneKey
  Value <- OneValue
  LoginTimeout = 0
  IdleTimeout = 0
  AbsoluteTimeout = 1
  MaxTime = 2
  MaxFaults = 0
  Ops <- Operation
SYMMETRY UserSymmetry
PROPERTIES ActsAtOnce
