SPECIFICATION Spec
CONSTANTS
  FirstDay = 0
  First = 192
  Last = 888
  Spring = 319
  Autumn = 654
  Customs = {5, 300, 900}
CHECK_DEADLOCK FALSE
INVARIANT WeekStartsAsDocumented
