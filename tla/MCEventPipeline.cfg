SPECIFICATION Spec
CONSTANTS
  r1 = r1
  r2 = r2
  NoRequest = NoRequest
  Requests <- TwoRequests
  MaxEvents = 6
  Budgets <- Scenarios
INVARIANTS EffectsOnce ReceiptSound
PROPERTIES Handled
CHECK_DEADLOCK FALSE
