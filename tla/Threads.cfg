SPECIFICATION FairSpec
CHECK_DEADLOCK FALSE
INVARIANT ThreadsTypeOK
INVARIANT OneCall
INVARIANT BuffersOwned
INVARIANT StateGivenBack
PROPERTY CallsReturn
CONSTANTS
  t1 = t1
  t2 = t2
  Nobody = Nobody
  Threads = {t1, t2}
  Connecters = {t1}
  Disconnecters = {t2}
