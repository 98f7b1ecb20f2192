\* Three callers: on one key, one working, one waiting, one leaving.  Five
\* slots: the most that can be referred to at once.
CONSTANTS
  Threads = {t1, t2, t3}
  Keys = {k1, k2}
  Slots = {s1, s2, s3, s4, s5}
  NoSlot = NoSlot
SPECIFICATION FairSpec
INVARIANT IInv
PROPERTY CallsReturn
PROPERTY ImplementsKeyLock
