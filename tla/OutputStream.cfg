\* One client, which may stall for ever or not, and five chunks through a channel of one
\* and a scrollback of two, so that drops, markers, trims, tail gaps and late attaches
\* all happen and combine; or two clients, one of which may stall, and one chunk: attach,
\* detach, end and close in every order.
CONSTANTS
  c1 = c1
  c2 = c2
  Clients = {c1, c2}
  Stalled = {c2}
  ChannelCap = 1
  MaxScrollback = 2
  MaxChunks = 5
SPECIFICATION BoundedSpec
INVARIANTS
  TypeOK
  NothingIsLostSilently
  ReplayCoversModes
  SendsOnOpenChannels
  RunningHasAClient
PROPERTIES
  ImplementsPromise
  StallIsBounded
  HandlersLeave
CHECK_DEADLOCK FALSE
