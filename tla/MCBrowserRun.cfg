CONSTANTS
  MaxRuns = 3
  MaxShares = 2
  MaxCopies = 1
  MaxChecks = 1
SPECIFICATION Spec
INVARIANTS
  TypeOK
  OneRunOwnsThePage
  ResultsOfOneRun
  AbortedLeavesNoTrace
  ShareButtonFollowsPost
  StoredOncePerFailure
PROPERTIES
  LinkIsOfShownResults
  AddressesFrozen
CHECK_DEADLOCK FALSE
