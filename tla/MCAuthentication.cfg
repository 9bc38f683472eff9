\* Two connections from one address, one failure before it is banned, and the
\* settings changing once during a connection. The instance never rests.
SPECIFICATION Spec
CONSTANTS
  Clients = {c1, c2}
  Addresses = {a1}
  Loopback = {}
  Passwords = {"full", "view", "bad"}
  NoPassword = NoPassword
  NotListed = NotListed
  MaxBanCount = 1
  BanTime = 1
  MaxTime = 1
  Settings <- Family
CONSTRAINT OneChange
SYMMETRY Reused
INVARIANTS
  PasswordWasAsked
  ReadOnlyPasswordOnlyViews
  UserWasAsked
  NeverSharedIsAlone
PROPERTIES
  KeepsGuessLimit
