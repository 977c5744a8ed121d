\* Safety and refinement: three TCP connections, two UDP datagrams, two permits.
CONSTANTS
  t1 = t1
  t2 = t2
  t3 = t3
  u1 = u1
  u2 = u2
  TcpRequest = {t1, t2, t3}
  UdpRequest = {u1, u2}
  Host <- MCHost
  Peer <- MCPeer
  ConfiguredClients <- MCConfigured
  LoopbackClients <- MCLoopback
  MaxSessions = 2
SPECIFICATION Spec
INVARIANTS TypeOK GateAccounting AccessExact QuietAfterClose
PROPERTIES NoSessionAfterStop ImplementsPool
\* The process stops once it is asked to.
CHECK_DEADLOCK FALSE
