SPECIFICATION MCSpec
CONSTANTS
  Arguments = {0, 1, 3}
  MaxCalls = 3
  Half = 256
  Runs = 2
  WordLen = 3
  Bytes = {0, 1}
  MaxLen = 7
  Users = {512, 513}
  Target = 7
  Caller = 8
  Values = {7, 9}
  Addresses = 1024
  Payments = {0, 1, 2, 64, 65}
INVARIANTS SameBehavior
