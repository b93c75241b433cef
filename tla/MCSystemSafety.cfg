SPECIFICATION Spec
CONSTANTS
  c1 = c1
  c2 = c2
  s1 = s1
  h1 = h1
  h2 = h2
  h3 = h3
  w1 = w1
  w2 = w2
  NoHandle = NoHandle
  Free = Free
  Opened = Opened
  Listening = Listening
  NoTask = NoTask
  Nobody = Nobody
  Main = Main
  Clients <- TwoClients
  Signals <- OneSignal
  Handles <- ThreeHandles
  Workers <- TwoWorkers
  Secure = TRUE
INVARIANTS
  NobodyWaitsWithTheMutex
  CallsMeetTheirPreconditions
PROPERTIES
  ImplementsServer
