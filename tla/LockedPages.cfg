\* Two threads; mlock() may succeed or fail.
SPECIFICATION Spec
CONSTANTS
  Thread = {t1, t2}
  Object <- MCObject
  PageSize = 4
  Page <- MCPage
  NONE = NONE
INVARIANTS SecretsStayLocked BookkeepingIsExact
PROPERTY MutexIsReleased
