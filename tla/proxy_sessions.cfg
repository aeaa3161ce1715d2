SPECIFICATION ProxySpec
CONSTANTS
  p1 = p1  p2 = p2  s1 = s1  s2 = s2  s3 = s3  s4 = s4  s5 = s5
  u1 = u1  u2 = u2  u3 = u3
  b1 = b1  b2 = b2  v1 = v1  pg1 = pg1
  NoSid = NoSid  NoUser = NoUser  NoValue = NoValue  NoDoc = NoDoc  Keep = Keep
  NoInfo = NoInfo  Same = Same
  Proc <- TwoProcs
  Sid <- TwoSids
  User <- OneUser
  Browser <- TwoBrowsers
  BrowserOf <- OwnBrowser
  UserOf <- Unregistered
  BlankUser = NoUser
  Page <- OnePage
  DefaultLandingPage = pg1
  DevMode = TRUE
  Key <- NoKeys
  Value <- OneValue
  LoginTimeout = 0
  IdleTimeout = 0
  AbsoluteTimeout = 1
  MaxTime = 0
  MaxFaults = 0
  Ops <- HandlerOps
  Kinds <- SessionKinds
SYMMETRY SessionSymmetry
INVARIANTS LoggedOutIsOut
