SPECIFICATION Spec
CONSTANTS
  Users = {u1, u2}
  CallIds = {c1}
  Handlers = {h1}
  MaxInvites = 1
  JitsiConfigured = TRUE
  NoUser = NoUser
  NoCall = NoCall
SYMMETRY Symmetry
PROPERTY InvitedCanJoin
