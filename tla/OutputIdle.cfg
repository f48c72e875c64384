\* Two clients, one leaving while the other attaches; no output is needed.
CONSTANTS
  c1 = c1
  c2 = c2
  Clients = {c1, c2}
  Stalled = {}
  ChannelCap = 1
  MaxScrollback = 2
  MaxChunks = 1
SPECIFICATION Spec
INVARIANT IdleMeansNoClients
CHECK_DEADLOCK FALSE
