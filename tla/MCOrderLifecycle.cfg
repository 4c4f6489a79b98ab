CONSTANTS
  Callers = {main, sync}
  MaxOrders = 2
  MaxQty = 2
SPECIFICATION Spec
INVARIANT TypeOK AnswersHonest OneWatcher
PROPERTY ImplementsContract SubmitReturns
CHECK_DEADLOCK FALSE
