SPECIFICATION Spec
CONSTANTS
  Conns = {c1, c2, c3, c4}
  maxActive = 2
  Nonces <- MCNonces
SYMMETRY ConnSymmetry
INVARIANTS
  TypeOK
  SlotAccounting
  NoIdleSlot
  ParkedOnce
  SilentPeerNoticed
PROPERTY
  FIFOSlots
