SPECIFICATION MCSpec
CONSTANTS
  v1 = v1
  v2 = v2
  Viewer = {v1, v2}
  Monitor = monitor
  Nothing = Nothing
  Capacity = 1
  MaxFaults = 2
  MaxChanges = 1
INVARIANTS SubscriptionsStay UnitFollowsConfig
PROPERTIES MetersReleased CallsReturn
\* clients may all have gone, and the owner thread may hang for ever
CHECK_DEADLOCK FALSE
