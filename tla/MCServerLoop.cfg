CONSTANTS
  Client = {c1, c2, c3}
  None = None
  Listener = 3
  Fds <- MCFds
  Backlog = 2
  MaxTaken = 2
SPECIFICATION Spec
INVARIANTS
  TypeOK
  FlagsAgree
  ServesTheReady
  KeysOfTheClient
PROPERTIES
  RefusedForAnother
  EveryoneHeard
