SPECIFICATION Spec
CONSTANTS
  Tabs = {t1, t2}
  Readers = {t1}
  MaxTokens = 3
INVARIANTS
  OneLivePerLogin
  AlarmOnlyAfterLoss
PROPERTIES
  
  CallsEnd
