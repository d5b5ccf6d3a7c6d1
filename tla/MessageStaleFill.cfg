SPECIFICATION Spec
CONSTANTS
  Users = {u1, u2}
  MessageIds = {m1}
  GroupMessages = {}
  Contents = {x}
  Marks = {"DELIVERED", "SEEN"}
  Handlers = {h1, h2}
  NoUser = NoUser
  NoMessage = NoMessage
  NoContent = NoContent
  NoCopy = NoCopy
INVARIANT DeletedNotServed
