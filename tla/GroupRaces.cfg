SPECIFICATION FaultySpec
CONSTANTS
  Users = {u1, u2, u3}
  GroupIds = {g1}
  Handlers = {h1, h2}
  NoUser = NoUser
  NoGroup = NoGroup
SYMMETRY Symmetry
PROPERTY OwnershipIsDecided
PROPERTY DeletedByItsOwner
PROPERTY MembershipIsDecided
