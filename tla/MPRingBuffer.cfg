SPECIFICATION RingSpec
CONSTANTS
  Producers = {p1, p2}
  Orders = {o1, o2, o3, o4, o5}
  Cap = 4
  NoOrder = NoOrder
SYMMETRY symmetry
INVARIANTS
  NoOverwrite
  AnswerIsTrue
PROPERTIES
  ImplementsQueue
