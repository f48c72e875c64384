\* Two watchers, one of which may stall for ever, the webhook and a session that rings
\* once; one run, cancelled twice, with a crash; three keys typed into an attach; three
\* attempts to connect and two connections through the tunnel.
CONSTANTS
  w1 = w1
  w2 = w2
  hook = hook
  s1 = s1
  run = run
  Runs = {run}
  MaxRuns = 1
  CancelRuns = {run}
  MaxCrashes = 1
  Watchers = {w1, w2}
  Webhook = hook
  Stalled = {w2}
  Sessions = {s1}
  Capacity = 1
  MaxBells = 1
  MaxTyped = 3
  MaxRetries = 3
  Conns = {1, 2}
SPECIFICATION ServicesSpec
INVARIANTS
  ServicesTypeOK
  NoChannelPanics
PROPERTIES
  ShutdownIsOrderly
  RunsEnd
  ChordIsHonoured
  TunnelLetsGo
CHECK_DEADLOCK FALSE
