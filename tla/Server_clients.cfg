\* Two clients, one of which may never send or read; Ctrl+C at most twice.
SPECIFICATION Spec
CONSTANTS
  Clients = {c1, c2}
  Silent = {c2}
  NoClient = NoClient
  Requests = {"trace", "page", "bad"}
  BodyUnits = 2
  Window = 1
  MaxInterrupts = 2
CHECK_DEADLOCK FALSE
INVARIANTS TypeOK ConnectionsAreClosed
PROPERTIES FlagStopsServer ClientsAreServed
