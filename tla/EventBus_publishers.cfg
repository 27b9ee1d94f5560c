SPECIFICATION Spec
CONSTANTS
  p1 = p1
  p2 = p2
  p3 = p3
  Publishers <- ThreePublishers
  Priorities = {1, 2}
  QueueSize = 2
  MaxEvents = 5
  MaxStops = 1
INVARIANTS InOnePlace FifoUnlessDelayed FifoPerPublisher
SYMMETRY Interchangeable
CHECK_DEADLOCK FALSE
