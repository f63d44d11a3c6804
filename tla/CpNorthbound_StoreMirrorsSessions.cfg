CONSTANTS
  ApiCaller = {g1, g2}
  MaxCalls = 3
SPECIFICATION Spec
INVARIANT StoreMirrorsSessions
CHECK_DEADLOCK FALSE
