SPECIFICATION MCSpec
CONSTANTS
  Users = {u1, u2}
  MessageIds = {m1, m2}
  GroupMessages = {m1}
  Contents = {c1, c2}
  Marks = {"SEEN"}
  Handlers = {h1, h2}
  NoUser = NoUser
  NoMessage = NoMessage
  NoContent = NoContent
  NoCopy = NoCopy
SYMMETRY Symmetry
INVARIANT CachedCopyIsOfItsMessage
INVARIANT AloneCacheCoherent
INVARIANT ToldIsTrue
INVARIANT AloneToldIsCurrent
PROPERTY OnlySenderRewrites
PROPERTY DeletedStaysDeleted
