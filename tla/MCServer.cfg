SPECIFICATION Spec
CONSTANTS
  Conn = {c1, c2, c3}
  ConnLimit = 2
  QueueCap = 1
  Leaving = {c1, c2, c3}
  Pipelined = {}
SYMMETRY Clients
INVARIANTS
  TypeOK NoRequestStranded NoSilentDrop AtMostOneLateAccept ExitsQuiet OpenBound
