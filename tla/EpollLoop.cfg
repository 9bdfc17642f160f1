CONSTANTS
  Fds = {f1, f2, f3, f4}
  Ctxs = {x1, x2, x3, x4}
  Clients = {c1, c2}
  MaxEvents = 3
  Listen = Listen
  Iface = TRUE
  NoFd = NoFd
  NoCtx = NoCtx
  NoClient = NoClient
SPECIFICATION Spec
SYMMETRY Symmetry
INVARIANTS TypeOK EventPointersLive RegistrationOwned TaskRemovesOwn
PROPERTY HandlerOutlivesCall
