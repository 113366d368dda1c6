CONSTANTS
  Clients = {sync, listener}
  Listeners = {listener}
  Commands = {"out", "in", "event", "connect", "disconnect"}
  ListenCommands = {}
  Event = {e1}
  Polling = TRUE
  NoClient = NoClient
SPECIFICATION FairSpec
INVARIANTS TypeOK RequestNotForgotten QueueFree ListeningAlive EventTimed
PROPERTY RequestsAnswered
