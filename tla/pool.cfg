SPECIFICATION HSpec
CONSTANTS
  a1 = a1
  r1 = r1
  r2 = r2
  NoAccount = NoAccount
  Account = {a1}
  Req = {r1, r2}
  MAX_ERROR_COUNT = 3
  MAX_ATTEMPTS = 3
INVARIANTS BusyIsHeld ExclusiveUnlessOvertaken
PROPERTY AccountReturns
