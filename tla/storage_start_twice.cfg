SPECIFICATION StartTwiceSpec
CONSTANTS
  p1 = p1  p2 = p2  s1 = s1  s2 = s2  s3 = s3  u1 = u1  k1 = k1  v1 = v1
  NoSid = NoSid  NoUser = NoUser  NoValue = NoValue  NoDoc = NoDoc  Keep = Keep
  Letter <- OneLetter  Longest = 3
  Proc <- TwoProcs
  Sid <- ThreeSids
  User <- OneUser
  Key <- NoKeys
  Value <- OneValue
  LoginTimeout = 1
  IdleTimeout = 1
  AbsoluteTimeout = 1
  MaxTime = 1
  MaxFaults = 0
  Ops <- LoginOps
SYMMETRY Symmetry
PROPERTIES StartSessionOnce
