SPECIFICATION Spec
CONSTANTS
  None = None
  Invalid = Invalid
  Schemas <- MCSchemas
  ValuesOf <- MCValuesOf
  Payloads <- Answers
  Capacity = 1
  MaxSent = 2
  MaxPiece = 20
  Faulty = TRUE
INVARIANTS HandlerSeesArgument AnswerIsTheHandlers ViewAgreesWithOwned
PROPERTIES ImplementsChannel StreamEnds
CHECK_DEADLOCK FALSE
