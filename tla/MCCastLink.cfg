SPECIFICATION FairLinkSpec
CONSTANTS
  Conns = {c1, c2}
  maxActive = 1
  Nonces <- MCNonces
  Uploads = 2
INVARIANTS
  OnePingOut
  HandlersFindTheirState
  GreetingFirst
PROPERTIES
  SlotsReturn
  WaitersAdmitted
