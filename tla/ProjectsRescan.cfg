\* One repository under one scan directory: a call each of List, Add and Remove.
CONSTANTS
  Dirs <- MCDirs
  Repos <- MCRepos
  Handled <- MCRepos
  Excluded = {}
  MaxDepth = 1
  Configured <- MCConfigured
  Roots = {}
  Listers = {"list"}
SPECIFICATION Spec
INVARIANT RemovedStaysRemoved
CHECK_DEADLOCK FALSE
