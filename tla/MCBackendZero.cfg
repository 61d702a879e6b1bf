SPECIFICATION Spec
CONSTANTS
  HeadLens = {2, 3}
  BodyLens = {1, 3, 5}
  BufSize = 5
  Slack = 1
  Window = 3
INVARIANTS
  ErrorReturnsZero
