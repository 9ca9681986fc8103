CONSTANTS
  Subjects = {s1}
  MaxRefreshTokens = 3
  None = None
  Browsers = {b1}
  Daemon = daemon
  Requests = {r1, r2}
  Handlers = {h1}
  MaxLogins = 1
SYMMETRY Interchangeable
SPECIFICATION Spec
INVARIANT LogoutStays
