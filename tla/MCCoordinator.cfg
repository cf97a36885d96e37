\* Two clients for one connection: refusal, sessions, shutdown by either side.
CONSTANTS
  c1 = c1
  c2 = c2
  Clients = {c1, c2}
  max_connections = 1
  max_frames_per_connection = 1
  accept_failures_allowed = 1
  None = None
  Wake = Wake

SPECIFICATION Spec
INVARIANTS TypeOK GovernorOutlivesHandlers HandlersBounded
PROPERTIES StopReturns RequestsAnswered
