SPECIFICATION Spec
CONSTANTS
  Otp = {o1, o2}
  Guess = {g1, g2}
  None = None
  RateMaxPerHour = 1
  Policies = {1, 2}
  Funds = 1
  MaxFaults = 1
INVARIANTS PasswordsOK RateIsKept CodeIsGuarded
SYMMETRY RequestsAreAlike
CHECK_DEADLOCK FALSE
