SPECIFICATION Spec
CONSTANTS
  PGSIZE = 4
  MAXFILE = 20
  NINODE = 4
  MAXARGS = 10
  BUFSZ = 4
  Rounds = 2
  NINODES = 20
  FREEBLOCKS = 26
  WRAP = 512
  NOFILE = 8
  NFILE = 16
  NPIPE = 4
  PIPESIZE = 2
  CHUNK = 3
  FSBLOCKS = 48
  Patterns <- MCPatterns
  WhatA <- MCWhatA
  WhatB <- MCWhatB
  Jobs <- MCJobs
INVARIANTS
  
  RefsCounted
  NothingLost
PROPERTIES
  JobsEnd
CHECK_DEADLOCK FALSE
