SPECIFICATION Spec
CONSTANTS
  Uses = {"reader", "writer", "turns", "setline"}
  Fifo = 2
  Sizes = {0, 1, 3}
  MaxArrive = 2
  MaxWrite = 2
INVARIANTS
  ReceivedOnce
  SentOnce
PROPERTIES
  TransfersReturn
CHECK_DEADLOCK FALSE
