SPECIFICATION Spec
CONSTANTS
  q1 = q1
  q2 = q2
  q3 = q3
  a = a
  b = b
  Free = Free
  Ignored = Ignored
  Questions <- ThreeQuestions
  NameOf <- Asks
  MaxServers = 1
  MaxOutstanding = 1
  MaxAddresses = 3
  MaxAnswers = 1
  MaxStarts = 2
  MaxEvents = 3
INVARIANTS
  TypeOK
  ReferencesCounted
  PushedRecordsBacked
PROPERTIES
  Implements
  Settles
CHECK_DEADLOCK FALSE
