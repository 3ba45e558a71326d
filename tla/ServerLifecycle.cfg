CONSTANTS
  Relays = {r1, r2}
  Conns = {c1, c2, c3}
  None = None
SPECIFICATION FairServerSpec
INVARIANTS ServerTypeOK StartIsAllOrNothing
PROPERTIES SuccessorTakesOver DroppedRelayEnds
