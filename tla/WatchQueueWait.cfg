CONSTANTS
  Items = {i1, i2, i3}
  Poppers = {p, q}
SPECIFICATION QueueFairSpec
PROPERTIES WaitIsAnswered
CHECK_DEADLOCK FALSE
