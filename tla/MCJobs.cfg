CONSTANTS
  Choices = {dark, light}
  First = dark
  MaxJobs = 3
  a = a
  b = b
  c = c
  Requests = {a, b, c}
  SessionOf <- SessionsOf
  IdOf <- IdsOf
  KeyOf <- KeysOf
  Nobody = nobody
  Tools = {11, 12}
  Calls = {1, 2, 3}
  Matching = {12, 2}
SPECIFICATION JobsSpec
INVARIANTS LastChoiceWins DialogsSound RowStays
PROPERTIES SavingEnds DialogsRest
CHECK_DEADLOCK FALSE
