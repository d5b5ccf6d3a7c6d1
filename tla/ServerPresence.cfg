SPECIFICATION MCSpec
CONSTANTS
  Users = {u1}
  Sockets = {s1, s2}
  NoUser = NoUser
  Retries = 3
INVARIANTS
  OnlineWhileConnected
  KeyAgrees
PROPERTIES
  CleanExit
  ImplementsLifecycle
  ShutdownWaitsForClientsOnly
  GoneIsRecorded
