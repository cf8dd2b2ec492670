\* Roaming, expiring sessions, late and repeated datagrams.
SPECIFICATION Spec
CONSTANTS
  Addrs <- MCAddrs
  Hosts <- MCHosts
  Script <- MCScript
  InjectCap = 1
  EgressCap = 1
  QueueCap = 1
  MaxExpiries = 1
INVARIANTS
  LoopInv
  RepliesMirrored
PROPERTY AnnouncementsArrive
