CONSTANTS
  Relays = {r1}
  Conns = {c1}
  None = None
SPECIFICATION ServerSpec
PROPERTIES ShutdownIsGraceful
