\* Nine years: leap years, years of 53 weeks, New Years on every kind of day.
SPECIFICATION Spec
CONSTANTS
  FirstYear = 2019
  LastYear = 2027
  FirstWeekday = 1
  MaxReceive = 2
  Retention = 2
INVARIANTS
  TypeOK
  OneInstantPerDelivery
  BoardsConsistent
PROPERTY BoardsTurnOver
CHECK_DEADLOCK FALSE
