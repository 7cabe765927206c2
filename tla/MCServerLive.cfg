SPECIFICATION FairSpec
CONSTANTS
  Conn = {c1, c2}
  ConnLimit = 1
  QueueCap = 1
  Leaving = {c1, c2}
  Pipelined = {c2}
PROPERTIES ShutdownCompletes EveryConnectionEnds MonitorsEnd CancellationEndsWork
