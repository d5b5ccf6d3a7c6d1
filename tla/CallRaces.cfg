SPECIFICATION FaultySpec
CONSTANTS
  Users = {u1, u2, u3}
  CallIds = {c1}
  Handlers = {h1, h2}
  MaxInvites = 2
  JitsiConfigured = TRUE
  NoUser = NoUser
  NoCall = NoCall
SYMMETRY Symmetry
INVARIANT OnlyInvitedTakePart
INVARIANT OngoingHasBeenJoined
INVARIANT RingFollowsInvite
PROPERTY StatusSetByRightUser
