CONSTANTS
  Base = 2
  Messages <- MCMessages
SPECIFICATION Spec
INVARIANTS TypeOK RoundTrip DamageRefused
CHECK_DEADLOCK FALSE
