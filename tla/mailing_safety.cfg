CONSTANTS
  None = None
  Users = {u1, u2}
  Kinds = {"CONFIRMATION"}
  Queries = {q1, q2}
  Workers = {w1, w2}
  Answerers = {a1, a2}
  MaxLetters = 1
  MaxAddresses = 1
  MaxReplies = 2
  MaxEdits = 1
  MaxFailures = 2
SPECIFICATION Spec
INVARIANTS TypeOK DetailsAreTheUsers WaiterIsServed LettersAreKept WrittenOnceUnlessCrash
SYMMETRY Symmetry
