SPECIFICATION FairSpec
CONSTANTS
  f1 = f1
  f2 = f2
  Fds = {f1, f2}
  None = None
  Null = Null
  BufferSize = 1
  MaxReads = 2
  MaxSends = 1
  MaxShort = 1
  MaxOpens = 1
CHECK_DEADLOCK FALSE
INVARIANT TypeOK
INVARIANT NoBlockedRemove
INVARIANT CrashOnlyByLeftovers
INVARIANT UnsentOnlyAfterShortSend
INVARIANT OpenDescriptor
PROPERTY EventsHandled
