CONSTANTS
  ExposeReasoning = TRUE
  Order <- TwoNames
  Answers <- ThreeAnswers
  Statuses = {400, 403, 404, 409, 429, 500}
  ErrorTypes = {"overloaded_error", "invalid_request_error"}
  MaxRetries = 1
SPECIFICATION FairSpec
INVARIANTS AnswerIsTheMessage
PROPERTIES TurnsEnd
CHECK_DEADLOCK FALSE
