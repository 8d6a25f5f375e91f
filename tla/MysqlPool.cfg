SPECIFICATION FairSpec
CONSTANTS
  Threads = {t1, t2, t3, t4}
  PoolSize = 1
INVARIANTS
  Exclusive
  Conserved
  NoTwiceReturn
PROPERTY GetReturns
