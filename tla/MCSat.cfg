SPECIFICATION Spec
CONSTANTS
  Vars = {1, 2, 3, 4}
  Pool <- Clauses
  MaxAdded = 6
  RestartUnit = 1
  Budgets = {0, 1}
CHECK_DEADLOCK FALSE
INVARIANTS
  AnswersRight
  Watched
  Reasoned
PROPERTY
  LearnsAnew
