\* Two sizes, two resizes and one write before a channel of two; a shell and its child,
\* that may ignore signals; five commands, two things to name and a list of one.
CONSTANTS
  r1 = r1
  r2 = r2
  Sizes = {"s", "t"}
  Resizers = {r1, r2}
  MaxOutput = 1
  ChannelCap = 2
  Members = {"child"}
  Configured = {"claude", "claude; rm"}
  ShellEnabled = TRUE
  Plain = {"claude", "shell"}
  Places <- MCPlaces
  ProjectAt <- MCProjectAt
  Requests <- MCRequests
  Deafness <- MCDeafness
  Known <- MCKnown
  Limit = 1
  Arguments <- MCArguments
SPECIFICATION SessionSpec
INVARIANT SessionTypeOK
PROPERTIES
  TerminalIsKept
  ProcessIsKept
  CommandKeepsItsWord
CHECK_DEADLOCK FALSE
