SPECIFICATION MCSpec
CONSTANTS
  Users = {u1, u2}
  Strangers = {x1}
  Groups = {g1}
  Handlers = {h1}
  Texts = {t1}
  MaxMessages = 2
  Pages = {0, 1, 2}
  Limits <- SomeLimits
  NoUser = NoUser
  NoGroup = NoGroup
INVARIANTS
  UndisturbedIsExact
  NoConversationLost
  PageWithinTotal
PROPERTY
  QueriesEnd
