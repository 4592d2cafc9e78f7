CONSTANTS
  None = None
  Users = {u1}
  Kinds = {"CONFIRMATION", "PAYMENT"}
  Queries = {q1, q2}
  Workers = {w1, w2}
  Answerers = {a1}
  MaxLetters = 1
  MaxAddresses = 1
  MaxReplies = 1
  MaxEdits = 1
  MaxFailures = 1
SPECIFICATION FairSpec
PROPERTY LettersAreHandled
