SPECIFICATION FairSpec
CONSTANTS
  c1 = c1
  c2 = c2
  c3 = c3
  s1 = s1
  s2 = s2
  h1 = h1
  h2 = h2
  h3 = h3
  NoHandle = NoHandle
  Free = Free
  Opened = Opened
  Listening = Listening
  Clients <- ThreeClients
  Signals <- OneSignal
  Handles <- ThreeHandles
  Capacity = 1
  Secure = FALSE
PROPERTIES
  QueuedClientsAreAccepted
  ShutdownCompletes
  ConnectionsAreClosed
