SPECIFICATION Spec
CONSTANTS
  Users = {u1, u2}
  RequestIds = {i1, i2}
  Handlers = {h1}
  NoUser = NoUser
  NoRequest = NoRequest
PROPERTY AutoAcceptWorks
