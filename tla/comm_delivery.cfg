SPECIFICATION CommSpec
CONSTANT N = 1
CHECK_DEADLOCK TRUE
INVARIANTS CommTypeOK AckedWasDelivered SentIsScheduled
PROPERTY SentGetsThrough
