SPECIFICATION Spec
CONSTANTS
  Tasks = {t1}
  Clients = {c1, c2}
  KindsOf <- OneTask
  Pastes <- SomePastes
  Answers <- SomeAnswers
  Mishaps = {"disk", "drop", "shutdown"}
  MaxSpent = 2
  Idle = Idle
CHECK_DEADLOCK FALSE
INVARIANTS DoneMeansKept CodesSpentRightly TasksAgree
PROPERTIES TasksEnd
