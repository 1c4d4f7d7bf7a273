\* Two server processes and two clients; a body of one unit is a full
\* frame, one of two is too large; the response exceeds the pipe's buffer.
CONSTANTS
  Procs = {p1, p2}
  Clients = {c1, c2}
  IoTimeout = 1
  Window = 1
  MaxFrame = 1
  Bodies = {1, 2}
  Response = 2
  Buffer = 1
  NoOne = NoOne
SPECIFICATION PipeSpec
CHECK_DEADLOCK FALSE
INVARIANTS
  OneOwner
  ConnectionBounded
  AtMostOnce
PROPERTIES
  QueriesReturn
