SPECIFICATION Spec
CONSTANTS
  q1 = q1
  q2 = q2
  Requests = {r1, r2}
  Questions <- MCQuestions
  Similarity <- MCSimilarity
  CacheSimilarity = 95
  CacheCapacity = 2
  CacheTtl = 2
  Threshold = 2
  Cooldown = 2
  Nobody = Nobody
  None = None
SYMMETRY Symmetry
INVARIANTS
  SearchesCompleteIndex
  BreakerEarned
  CacheIsSound
  CachedAnswersAreFresh
