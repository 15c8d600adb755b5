SPECIFICATION FairSpec
CONSTANTS
  q1 = q1
  q2 = q2
  Requests = {q1, q2}
  MaxExpiries = 2
  MaxLogins = 1
  MaxFaults = 1
INVARIANTS TypeOK WaitersHaveRefresher SessionSurvives OneExpiryIsHidden TokensOfOneSession
PROPERTIES EveryRequestSettles
