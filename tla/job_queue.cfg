SPECIFICATION Spec
CONSTANTS
  j1 = j1
  j2 = j2
  j3 = j3
  s1 = s1
  s2 = s2
  Jobs = {j1, j2, j3}
  Submitters = {s1, s2}
  Runner = Runner
  Nobody = Nobody
  Torn = Torn
  Garbage = Garbage
  MaxLives = 4
INVARIANTS TypeOK SubmittedOnce DoneNotRerun AckedSurvives
SYMMETRY Interchangeable
