CONSTANTS
  Servers = {"s1"}
  Ports = {"p1"}
  MaxStreams = 1
SPECIFICATION Spec
INVARIANT CleanupsRun
