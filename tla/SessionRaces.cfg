SPECIFICATION MCSpec
CONSTANTS
  Users = {u1, u2}
  Emails = {e1, e2}
  Names = {n1, n2}
  Requests = {r1, r2}
  Handlers = {h1, h2}
  MaxSecond = 2
  Lifetime = 1
  NoUser = NoUser
  NoToken = NoToken
  NoAccount = NoAccount
SYMMETRY Symmetry
INVARIANT SessionsLapse
INVARIANT UniqueIdentities
INVARIANT CachedUserWasTrue
INVARIANT AloneCachedUserIsCurrent
PROPERTY RevokedNotHonoured
PROPERTY RevokedStaysRevoked
PROPERTY RefreshRetiresOld
