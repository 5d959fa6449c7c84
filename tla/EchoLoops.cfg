CONSTANTS
  Conns = {1, 2, 3}
  Children = {1, 2}
  Servers = {"select", "async", "event"}
  Protocols = {"tcp", "udp"}
  MaxLoad <- MCLoad
  Room = 2
  FD_SETSIZE = 3
  MaxHandles = 2
  Faults = {"reset", "urgent", "empty", "long"}
SPECIFICATION FairSpec
INVARIANTS EchoFaithful EventsWatched
PROPERTY EveryoneServed
CHECK_DEADLOCK FALSE
