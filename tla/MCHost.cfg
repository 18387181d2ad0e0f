SPECIFICATION Spec
CONSTANTS
    Sources = {1, 2}
    Waker = w1
    Helpers = {h1, h2}
    Binders = {w1, h1, h2}
    NoOne = NoOne
    Nothing = Nothing
    Nobody = Nobody
    Clients = {c1}
    Fds = {f1, f2}
    Services = {"poller", "readiness"}
    MaxAsks = 2
    MaxArrivals = 1
    Horizon = 1
    Actors = {a1, a2}
    Jobnames = {j1, j2}
    Pool = Pool
    Limit = 1
    Programs <- Few
    Apart = TRUE
INVARIANTS
  WatchSound
  HelpersSound
PROPERTIES
  UnboundHearsNothing
  EverythingComes
CHECK_DEADLOCK FALSE
