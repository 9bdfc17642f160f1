CONSTANTS
  Fds = {f1, f2, f3}
  Ctxs = {x1, x2, x3}
  Clients = {c1, c2}
  MaxEvents = 3
  Listen = Listen
  Iface = FALSE
  NoFd = NoFd
  NoCtx = NoCtx
  NoClient = NoClient
SPECIFICATION FairSpec
INVARIANT OneCloser
PROPERTIES RemovalHappens BackToWait
