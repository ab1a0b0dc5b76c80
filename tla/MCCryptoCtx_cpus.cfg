SPECIFICATION FairSpec
CONSTANTS
  Threads = {t1, t2}
  Sessions = {s1, s2}
  Kinds = {"datenc"}
  Ids = {1, 2, 3}
  NoThread = NoThread
  NoCtx = NoCtx
\* After a failed CreateAESCtx p3_init_crypto leaves the lock held for ever.
CHECK_DEADLOCK FALSE
CONSTRAINT NoOverlap
INVARIANTS LockExcludes SlotsLive GracePeriod NoLeak
PROPERTY LockReleased
