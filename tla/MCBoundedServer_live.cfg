\* Liveness, whether handlers end or not: two connections, a datagram, one permit.
CONSTANTS
  t1 = t1
  t2 = t2
  t3 = t3
  u1 = u1
  u2 = u2
  TcpRequest = {t1, t2}
  UdpRequest = {u1}
  Host <- MCHost
  Peer <- SmallPeer
  ConfiguredClients <- MCConfigured
  LoopbackClients <- MCLoopback
  MaxSessions = 1
SPECIFICATION FairSpec
PROPERTIES StopCompletes QueuedTakenUp ServiceRecovers
\* The process stops once it is asked to.
CHECK_DEADLOCK FALSE
