SPECIFICATION ListenersSpec
CONSTANT
  MaxTimers = 1
INVARIANT
  ComesBack
