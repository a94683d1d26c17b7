SPECIFICATION Spec
CONSTANTS
  Transactions <- ATransaction
  Updates <- AnUpdate
  MaxAttempts = 2
INVARIANTS
  SignedIsSubmitted
  StreamIsReadable
CHECK_DEADLOCK FALSE
