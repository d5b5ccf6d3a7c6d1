SPECIFICATION FaultySpec
CONSTANTS
  Users = {u1, u2}
  MessageIds = {m1}
  Emojis = {e1, e2}
  Handlers = {h1, h2}
  NoUser = NoUser
  NoMessage = NoMessage
  NoEmoji = NoEmoji
  NoList = NoList
SYMMETRY Symmetry
INVARIANT TypeOK
PROPERTY OwnReactionsOnly
