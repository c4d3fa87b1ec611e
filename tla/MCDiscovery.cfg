SPECIFICATION FairSpec
CONSTANTS
  Clients = {c1}
  Udps <- Lan
  Sends <- Faulty
  At <- AtB
  Holdoffs = {"zero", "some"}
  MaxErrors = 2
  MaxMail = 2
  MaxLives = 3
  MaxFaults = 3
CHECK_DEADLOCK FALSE
INVARIANTS
  TypeOK
  NoStaleServer
PROPERTIES
  ShutdownEnds
  Reconnects
