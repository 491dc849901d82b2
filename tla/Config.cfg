SPECIFICATION Spec
CONSTANTS
  Nil = Nil
  Inputs <- MCInputs
  Garbage <- Unset
  Strings <- MCStrings
  MaxInt = 100000
  UintSize = 1000000
  MaxDuration = 1000000
  OutOfRange <- Indefinite
  MaxAttempt = 5
INVARIANTS
  TypeOK
  ConfigNormal
  AuthHonoured
  LimitsDoNotWrap
  TickerRuns
  BackoffCapped
  BackoffExact
  BackoffNeverShrinks
