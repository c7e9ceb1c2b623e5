SPECIFICATION Spec
CONSTANTS
  Ids = {u1, u2, u3}
INVARIANTS
  TypeOK
  WaitersCanBeAnswered
  AnswerFits
PROPERTY
  ImplementsRequestLife
