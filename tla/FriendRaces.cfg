SPECIFICATION MCSpec
CONSTANTS
  Users = {u1, u2, u3}
  RequestIds = {i1, i2, i3}
  Handlers = {h1, h2}
  NoUser = NoUser
  NoRequest = NoRequest
SYMMETRY Symmetry
INVARIANT AtMostOneRow
INVARIANT FollowsNeedConsent
INVARIANT AloneFollowsMutual
PROPERTY OnlyPartiesDecide
PROPERTY ImplementsRacyLifecycle
PROPERTY AloneImplementsLifecycle
