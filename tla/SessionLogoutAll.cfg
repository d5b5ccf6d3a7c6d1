SPECIFICATION Spec
CONSTANTS
  Users = {u1}
  Handlers = {h1, h2}
  MaxSecond = 2
  Lifetime = 1
  NoUser = NoUser
  NoToken = NoToken
SYMMETRY Symmetry
INVARIANT LogoutAllEndsSessions
